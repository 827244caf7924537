# A verification of the HOMESERVER administration toolkit

TLA+ specifications of the programs in `src/`: what each of them does to the
state of the appliance, step by step, with commands that fail, processes that
die and callers that overlap; TLC configurations that check them on small
instances; and theorems, proved with TLAPS, for instances of any size.

Contents: [1 The system](#1-the-system) · [2 Modules](#2-modules) ·
[3 Runs](#3-runs) · [4 Proofs](#4-proofs) · [5 What the runs found](#5-what-the-runs-found) ·
[6 Abstractions](#6-abstractions-and-bounds) · [7 Plan](#7-plan)

To check it, in this directory:

    tlc -workers 2 -config root_programs.cfg MCRoot  # a run: its module and its cfg
    tlapm RootProofs.tla                             # a module of proofs

`PROJECT.json` lists the components, the runs, for every property a mutation of
the code that breaks it, the source lines behind every definition, the hazards
and the theorems.

## 1. The system

The toolkit (`src/agathodaimon`, called `agathodaimon` on the command line) runs
as root on a household server. A path of words on the command line names a module
(`cli.py`), which runs as a process of its own, changes files, and runs commands
of the system. One part is a daemon: the Caduceus staff, which serves every
connection with a thread. There is no database and hardly any lock: what the
processes share are configuration files, LUKS headers, the kernel's nftables and
the running services, and each program replaces them in its own way.

Paths below are relative to `src/agathodaimon`.

| Component | State it keeps | Operations | What is hard | What makes it correct |
| --- | --- | --- | --- | --- |
| **Caduceus staff** `lib/attendance` | registries of challenges, attendances, capabilities; the seat of the derived signer (`_signer`, `_public`, `_epoch`, `_posture`) | mint, prove and clear a session, mint and consume a capability, change the PIN, status | threads; the lock covers a registry access, not a handler; the seat is outside it; Keyman is called in between, and may time out | a challenge and a capability pay once; sessions carry their capabilities away; the seat agrees with the PIN in custody |
| **Keyman door** `storage/vault/keyman` | LUKS key slots, NAS password, suite, Unix and Samba passwords | create, update (three strategies), admin-password, key-status, rotate-capability | each request is a list of commands, any of which may fail | never lock a device out; devices and NAS share the password; a half-changed account is told |
| **Kea updater** `network/dhcp/update-kea-dhcp.sh` | `kea-dhcp4.conf`, its backups, the service | replace the configuration | kill and signals between copy, move and restart; two runs at once | nothing unvalidated becomes live; the running configuration is never lost |
| **DHCP reservations** `network/dhcp/index.py` | the same file | add, remove, readdress, update the pool boundary | reads the file several times, writes back what it read first | reservations below the pool, distinct; an acknowledged one stands |
| **DNS, managed lineage** `network/dns/index.py` DnsManager | the include file of owned names, Unbound | create and remove a device name or alias, apply a drop-in | replace, reload, query, restore; no lock | resolver and file agree; names apart; acknowledged names stand |
| **Identity claim** `network/identity` | both of these, a lock, a journal | claim, list | two stores changed one after the other, with compensation; the commands of the stores do not take its lock | a claim stands or leaves nothing; one name to an address |
| **Child policies** `network/firewall` | a region of `unbound.conf`, a file of nftables, the kernel's table, what Unbound serves | put, delete, list, get, status | four things changed in turn, undone in reverse, under a lock; other editors of `unbound.conf` | the four agree; no answered policy is lost; a filtered device stays filtered; what is answered is served |
| **Other editors of `unbound.conf`** `network/dns/index.py` | address records, upstream servers | ensure and remove records; adblock, upstream, blocklist-update | each rewrites the whole file; one of them without the lock | each keeps to its part |
| **Settings** `settings/_shared.py` | files of the owner's desktop, what the session runs with, backups of a run | set a list of fields, get | a list is refused, timed out or killed half way; files and session are told apart only by a reload | the backups undo a run; what was acknowledged is what is reported |
| **House CA** `network/cert/house-ca` | root and leaf keys and certificates, bundle, trust store, ledger, Nginx | ensure, issue, rotate, export, trust, admit a portal | files that belong together are replaced one by one, without a lock | a rotation that fails puts back the ring it found |
| **SSH switch** `settings/ssh`, **service door** `portals/service-control` | `sshd_config`, the unit, what the daemon has loaded | switch on and off; password setting, start, stop, enable, restart | two programs, one file, one unit, no lock; a refusal undoes part of it | a refusal takes its file back; an answered setting is served |
| **Credential launcher** `lib/bind_derived`, `lib/sacred_credential` | PIN record in Keyman's custody, skeleton key, the key the serving process holds | bind, verify, change, reset, provision | one-shot processes, a rewrite by Keyman that may time out after writing | a key is vouched for only while it was in custody |
| **Update window** `gui/update-modal`, **splices** `update/module-toggle`, `lib/source_map` | switches and buttons, the idle queue, `config.json`, `profile.json` | toggle, update, agree, hide, reopen; splice a member | threads, callbacks that start commands, read-splice-write without a lock | a switch tells the truth and comes back; a splice leaves JSON, with every other member as it was |
| **Forgejo migration** `storage/backup` | repositories, database, service, dump pair | export, restore, restore an encrypted pair | a service stopped around commands each of which may fail | an export is of one moment; a restore brings one export back |
| **Calibre feeder** `portals/calibre` | uploads, backup, output, tracking file, library | crawl, watch, install, stop | two scripts that move, link and delete the same files | no PDF with an unmistakable name is lost on its way |
| Household time, child devices, storage, games, scripts | see `PROJECT.json` | | | not modelled (section 6) |

The remaining parts (receipts, widgets, scripts run by hand, hardware tests) keep
no state that a later step depends on; `PROJECT.json` names each of them and the
reason it is not modelled.

**How they meet.** The staff calls the credential code, which calls Keyman as a
subprocess with a timeout of 15 s. The identity claim calls `add_reservation` and
`create_device_name` in its own process; the former starts `update-kea-dhcp.sh`
with a timeout of 30 s, after which it is killed. The firewall reads Kea's
reservations, and installs and restores its files with the functions of
`network/dns/index.py`; it locks the directory of `unbound.conf`, as `dispatch` of
that module does, while its `ResolverControl` does not. The serving process passes
the key of its last bind to the launcher's `verify`. The SSH switch and the service
door edit one `sshd_config` and one unit. The window runs `module-toggle` through
`sudo` and learns of it by an exit status. `settings` and the owner write the same
files of the desktop.

## 2. Modules

    AttendanceStaff  ...implements...  CapabilityLedger            MCAttendance
      AttendanceProofs, AttendanceCapabilityProofs, AttendanceSeatProofs
    KeymanDoor                                                      MCKeymanDoor
      KeymanProofs
    KeaUpdate, DhcpReservations (its Update keeps the outcomes of KeaUpdate),
    SettingsActuator, HouseCa, SshExposure, CredentialLauncher      MCRoot
      RootProofs
    UpdateDesk, JsonSplice, CalibreFeeder, ForgejoMigrate           MCDesk
      DeskProofs
    OwnedNames
    IdentityClaim  ==  DhcpReservations + OwnedNames                MCIdentity
      IdentityProofs
    ChildPolicy
    UnboundEdits   ==  ChildPolicy + the other editors              MCUnbound
      PolicyProofs

`MCRoot` and `MCDesk` hold programs that share no state: a rigid variable
`program` chooses the one that is at work in a behaviour, and the others stay where
they began.

### AttendanceStaff (`lib/attendance/index.py`, parts of `lib/sacred_credential`)

`challenges`, `attendances`, `capabilities` are the registries; `signer`,
`public`, `epoch`, `posture` the seat; `zeroing` and `closed` what `close()` does
to the seed of an old signer; `credential` the PIN in Keyman's custody. `pc[t]` is
the next access of shared state by thread `t`, `req[t]` the request and the local
variables of its handler. One action is one access: one `with self._lock` block,
one read or write of a field of the seat, one call of Keyman. Handlers thus
interleave wherever Python lets them. `Ask` is a client's request, made with what
clients were told (`known`); `Tick` is time, `Restart` a killed and restarted
process, whose registries are gone.

`CapabilityLedger` is the abstract specification: a number is drawn once, becomes
one session or one grant, a grant ends with its session and is paid at most once.
`ImplementsLedger` refines it: numbers in flight map to `drawn`.

### KeymanDoor (`storage/vault/keyman/index.py`)

`slots[d]` are the passwords that open the key slots of a device, `nas` what
`exportNAS.sh` prints, `suite`, `owner`, `samba` the administrator's passwords. A
request is a queue of commands (`queue`), computed by the operators of the three
strategies from the slots that `luksDump` shows; `Run` runs the next one, a loop
over slots is one entry that `KillSlot` takes apart, and a failure refuses the
request. `Killed` is the death of the door between two commands: the rest of the
queue is not run and no receipt comes. `told` holds what callers know of passwords
left apart: which of them a refusal named, or that their request was killed between
the rotation of the suite and the change of Samba.

### KeaUpdate (`network/dhcp/update-kea-dhcp.sh`)

One action per command of the script: copy, validate, back up, move,
validate again, restart, restore (a copy over the file, which may stay torn); `Interrupt` is SIGKILL or a
signal with the script's trap.

### DhcpReservations (`network/dhcp/index.py`)

One action per read of the file and one for the hand-over to the updater.
Addresses are offsets in the subnet; `Boundary`, `Reserved` and the pool that a
boundary writes are the code's arithmetic, with its clamps.

### OwnedNames (`network/dns/index.py`, DnsManager)

One action per read, check, replacement, reload, query and restore of
`_candidate_apply`. A reload is a signal (`hup`) that Unbound acts on at some later
time (`Load`), with the file as it then is; the query that follows may come before.

### IdentityClaim (`network/identity/index.py`)

Instances of the two modules above and the steps of a claim between theirs: lock,
read both stores, keep the preimages, add the reservation, create the name, undo
each. `Reserve` and `Rename` are the commands that operators run beside it.

### ChildPolicy, UnboundEdits (`network/firewall/index.py`, `network/dns/index.py`)

`file` holds `unbound.conf` by its three owners' parts and the file of nftables;
`live` is the kernel's table, `running` what Unbound has loaded, `hup` a reload
signal it has not acted on, `kea` the reservations, `holder` the owner of the
directory lock. `job[c]` is the change a caller has under way, with the list
`undo` of what it installed. `Start` is everything up to the first write, and refuses where the kernel
has no table (`TableReads`): the table has to be made before the first policy; then
`Check` and `Replace` for each file, `Apply`, `Reload`, `Prove`; and on a failure
`CheckBack`, `PutBack`, `UndoTable`, `ReloadBack`. `UnboundEdits` adds `dispatch`
(`...Direct`) and `ResolverControl` (`...Resolver`) with their own rollbacks.

### SettingsActuator (`settings/_shared.py`)

`stored` are the files, `shown` what the session runs with, `set` the command: the
fields left, the steps of the present field (`Route`), the backups in its run
directory. Fields with the same route stand for one another. A tool may do its work
and be given up after 8 s; the command may be killed at any step; the owner edits
between commands. A backup is a plain write, which a kill or an error may
cut off: `torn` are the keys of such a copy, beside the whole ones. A replacement
may report an error of the directory's sync after the new file is in place; a
reload may fail, and the putting back after it as well. `doubt` marks an input file
that a command replaced without coming to a reload that worked. `Reported` is what
`get` says of a field: the session's number or description, or the file's text.

### HouseCa (`network/cert/house-ca/index.py`)

`ring` are the four files of the root, as numbers of the root they belong to;
`leaf`, `bundle`, `trust`, `ledger`, `proxied` what is derived from it. A command is
the list of its steps (`Steps`), one OpenSSL call, move or replacement each. Any of
them may fail (`Raise`). Inside a rotation's `try` (`Tried`) that runs `RestoreRing`,
which may itself get stuck half way (`Halfway`); the moves before the `try`, the
removals after it and the fingerprint in the receipt are outside, and `failed` says
where the command was refused.
`constituent-lock`, status and `sign-csr` change none of these.

### SshExposure (`settings/ssh/index.py`, `portals/service-control/index.py`)

`directives` is `sshd_config`, `loaded` what the daemon runs with, `hup` a reload
signal it has not acted on (`Reread` is when it does), `unit` enabled
and active. `ssh` is the switch: read, validate, `tee` (which empties the file
before it fills it), validate again, enable, start, check, with the undoing of
`Refusal`. `svc` is the door. `clean` holds the programs that nobody disturbed.

### CredentialLauncher (`lib/bind_derived/index.py`, `lib/sacred_credential/index.py`)

A launcher reads the skeleton, has Keyman decrypt the record, compares, and has it
rewritten; `served` is the key that the serving process keeps. `inCustody[p]`
collects the records in custody since command `p` began. `AttendanceStaff` models
the same functions as the staff calls them.

### UpdateDesk (`gui/update-modal`, `update/module-toggle`)

`disabled` is the list in `config.json`; `thread[t]` a command from its read to its
answer; `window` the switches, what is believed of them, the update button, the
rows; `idle` GLib's queue. `Finish` is what a thread does after its command, `Raise`
that its work raises instead: the thread dies, nothing is queued, and its control
stays off (`forsaken`). `RunIdle` is a callback; one that moves a switch emits
`state-set`, whose handler starts a command (`StateSet`). `murky` is set when two
toggles overlapped, when one was refused after its file was in place, or when the
window was opened without the list or beside a command.

### JsonSplice (`update/module-toggle`, `lib/source_map`)

The byte splices, on tokens: `text` is the file, a sequence of braces, keys, colons,
commas, values and blanks; `Members` scans an object for its direct members and the
spans of their values, `InsertMember` sets off a new one, `UpdatedBytes` and
`SpliceSources` are the two commands with their refusals. `doc` is the document that
the text should be, and `SplicedAsAsked` compares the two.

### ForgejoMigrate (`storage/backup/homeserver-forgejo-migrate.py`)

The running service's two halves (database, repositories) are contents with the
moment they are of; one action per command of export and restore, with `Finally`
for the handlers, pushes while the service is up, and `Portal`, the portal's service
door, which starts or stops the unit at any time. `job.agreed` records that the two
halves agreed when the service was stopped and the door has kept out since.

### CalibreFeeder (`portals/calibre/calibreHelperDaemon.sh`)

The scripts that the daemon script writes: the feeder's crawl, file by file and
command by command, and the watcher's scan, with the books as sets of places. Books
with the same `NameOf` have one path in each tree, where the later one goes over the
earlier; `Found` says of which names the watcher's `grep` takes which books of the
library for the same.

## 3. Runs

Every property of a passing run is broken by a mutation of the model that is a
plausible bug of the code (a dropped check, a forgotten reset, an order swapped):
see `mutants` in `PROJECT.json`; the mutated forms stand before the definitions
they change and are used by no specification.

| Run | Instance | What it shows |
| --- | --- | --- |
| `att_capabilities` | 2 connections, 1 document, 1 PIN, registries of 2, the clock and restarts; from an empty staff and from one with a session | `ChallengeRedeemedOnce`, `CapabilitySpentOnce`, `SpendNeedsLiveSession`, `TypeOK`; the staff implements the ledger (`ImplementsLedger`) |
| `att_rotation` | 2 PINs, one rotation beside a client, from a staff with a session; Keyman may refuse, fail, and write but time out; the process is killed and restarted anywhere; under fairness | while the posture is BOUND the seat is coherent and its seed open (`BindingCoherent`, `SeatedSignerIsOpen`); a rotation that rewrote the PIN ends bound to it, or unbound (`RotationSettles`) |
| `key_door` | 1 caller, 2 devices, 3 slots, 2 passwords; three themes: strategies without faults; several devices, and accounts, with commands that fail and doors that are killed | `KeepsAWayIn`, `DevicesFollowNas`, `StaysReplaceable`, `DisagreementIsTold` |
| `id_claims` | 2 claimers, an operator, 2 MACs, 2 names, room for two claims; four casts: claims, releases, edits, names | `ClaimsStandAlone`, `RolledBackAlone`, `AddressNamedOnce`, `ServedAsWritten` |
| `policy_files` | 2 callers of the firewall, 1 of `dispatch`, 1 of `ResolverControl`, 2 devices, 3 addresses, one to three requests each | `FilesAgree`, `RestoredIsTrue`, `AnsweredIsServed`, `StillFiltered`, `EachKeepsItsPart`, `TypeOK` |
| `root_programs` | Settings: 2 values, lists of 2 fields. CA: 1 portal, 3 roots. SSH: 2 commands or events. Launcher: 2 processes, 2 PINs, 2 skeletons, 3 commands. Kea: 2 runs, 2 good configurations and a bad one, SIGKILL and SIGTERM. DHCP: 3 MACs, limit 3, broadcast 9, a fallback boundary of 2 | `BackupsUndo`, `AcknowledgedIsReported`; `FailedRotationRestores`; `RefusedRestoresFile`, `PasswordIsServed`; `VouchedWasHeld`; `NeverUnvalidated` and, for runs one after the other, `SerialRecoverable`, `SerialSuccess`; `ReservedBelowPool`, `AcknowledgedStands` |
| `desk_programs` | Window: 2 modules, 2 threads, 1 row, 2 clicks or reopenings. Splices: 2 modules, 2 source maps, every document of up to two or three members, missing, empty, doubled or of the wrong kind, in 18 layouts, any number of splices. Books: 3, one of them a PDF; the other two share a name, which is found in the PDF's. Forgejo: 2 pushes, 3 commands | `SwitchTellsConfig`, `ControlsComeBack`; `SplicedAsAsked`; `PdfsSurvive`; `ExportIsOneMoment`, `RestoredTogether` |

Five runs show a disagreement (section 5): `att_old_session`, `key_stuck`,
`id_blocked`, `ssh_refused`, `desk_lost_toggle`.

`CHECK_DEADLOCK FALSE` stands in the runs because their systems may stop: requests
are bounded (`MaxFresh`, `left`), or a client need not ask again.

**Bounds, and why they are enough.** Two threads race for one challenge, one
capability or one seat: a race is between two, and a third adds a second race of
the same kind. A registry of two reaches its limit. Lifetimes of one tick separate
"before" from "after". Three slots are 0, 1 and one that no strategy names, two
devices are the one at hand and the other. Two configurations are before and
after, a third is refused. The DHCP subnet has every boundary of the real one
(network, gateway, first and last reservable address, pool, last five, broadcast)
with three addresses between; in the claims' run two of them can be claimed, so that
claims follow one another and a half claim is followed by others. Two devices let the set of policies be empty,
single, and full; three requests of one caller pass through all three, and the
third address is where a reservation moves. Requests are spread over callers by
`Budgets` so that each pair of editors meets. `MaxFresh` and `MaxTime` appear in guards only;
`MaxFresh` 8 is enough for a mint, a spend and a rotation of two connections.
The seeded runs start where `Init` leads in a few requests (`SeededInit`).
For the launcher, a change of PIN that a second process makes between two reads of
the first, and a key handed over two commands ago, both fit into three commands.
Two fields let the first one stand when the second is refused. Two threads of the
window are a click and the callback of another; since a refused toggle starts a
command of its own, two launches make four commands. Three roots are the one found,
the one that a rotation makes and one more after a failure. Three commands of
Forgejo are two exports and a restore of either.
The rigid variables `theme`, `cast`, `program` choose a setting for a whole
behaviour. Symmetry is used only in runs without liveness.

**Fairness.** `RotationSettles` needs `WF(Step(t))` for every thread.
`StaffSocketDaemon.serve_forever` gives each connection a thread, the lock is held for
a few statements and no handler waits inside it, and the one external call,
Keyman, has a timeout; so a thread that can take its next step takes it.
Clients, the clock and restarts are not fair; a killed rotation ends with its thread.
`ControlsComeBack` needs that a command that runs goes on to an answer
(`subprocess.run` in `module-toggle` touches files only; of the engine it assumes
that it ends), that its thread then goes on in one of its ways, and that GLib runs
its idle callbacks, as the main loop does whenever it has nothing else. A thread
that raises has gone on as well: the property is then about the other controls.
Clicks are not fair.

## 4. Proofs

The theorems hold for all values of the constants, under the named assumptions of
the modules (`StaffConstants`, `DoorConstants`, `KeaConstants`, `DhcpConstants`,
`ClaimConstants`, `PolicyConstants`, `EditConstants`) and the hypotheses in the
table. They cover the safety properties of the passing runs and the refinement of
the ledger, with three exceptions, named below under "Only model-checked". The
theorems of `RootProofs` and `DeskProofs` are about the specification of the one
program they name (`SettingsSpec`, `CaSpec`, ...), of which the runs check an
instance; those about serial runs of the updater are about `RootSpec`.

| Theorem | Says | Under |
| --- | --- | --- |
| **AttendanceProofs** | | |
| `TypeCorrect` | `TypeOK` | |
| `ChallengesAreSingleUse` | `ChallengeRedeemedOnce`: no two handlers hold the same redeemed challenge, and none stays registered | |
| **AttendanceCapabilityProofs** | | |
| `CapabilitiesAreSingleUse` | `CapabilitySpentOnce` | |
| `SpendingNeedsSession` | `SpendNeedsLiveSession` | |
| `StaffImplementsLedger` | `AttendanceStaff` implements `CapabilityLedger` | |
| **AttendanceSeatProofs** | | |
| `SeatIsOfOnePin` | `BindingCoherent` | `MaxRotators <= 1` |
| `SeatedSeedIsWhole` | `SeatedSignerIsOpen` | `MaxRotators <= 1` |
| **KeymanProofs** | | |
| `Replaces` | `StaysReplaceable`: where no command fails | `OneCaller` |
| `KeepsOpen` | `KeepsAWayIn`: where no command fails | `OneCaller` |
| `FollowsNas` | `DevicesFollowNas` | `OneCaller` |
| `Disagreements` | `DisagreementIsTold` | `OneCaller` |
| **RootProofs** | | |
| `LiveWasValidated` | `NeverUnvalidated`, of any number of overlapping runs | |
| `SerialRunsRecoverable`, `SerialSuccessIsLive` | `SerialRecoverable`, `SerialSuccess` | runs one after the other, of the signals SIGKILL only |
| `ReservationsBelowPool` | `ReservedBelowPool` | `~Overlap` |
| `BackupsUndoTheRun`, `AnsweredIsReported` | `BackupsUndo`, `AcknowledgedIsReported` | |
| `FailedRotationsRestore` | `FailedRotationRestores` | |
| `RefusalsRestoreFile`, `PasswordsAreServed` | `RefusedRestoresFile`, `PasswordIsServed` | |
| `VouchedKeysWereHeld` | `VouchedWasHeld`, of any number of launchers | |
| **IdentityProofs** | | |
| `ClaimsKept`, `RollbacksAreWhole` | `ClaimsStandAlone`, `RolledBackAlone`, of any number of claimers | claims alone |
| `AddressesAreNamedOnce` | `AddressNamedOnce` | the casts |
| **PolicyProofs** | | |
| `PoliciesAreTyped` | `TypeOK` of `UnboundEdits` | |
| `FilteredThroughAll` | `StillFiltered`, of any number of callers and editors | |
| `PoliciesAgree`, `NoChangeIsLost` | `FilesAgree`, `NothingLost` | |
| `RestoredIsTold`, `AnsweredIsTrue` | `RestoredIsTrue`, `AnsweredIsServed` | |
| `EachPartIsKept` | `EachKeepsItsPart` | one caller of `ResolverControl` |
| **DeskProofs** | | |
| `PdfsAreKept` | `PdfsSurvive`: of PDFs whose name is no other book's and found in no other's | |
| `ExportsAreWhole`, `RestoresBringAllBack` | `ExportIsOneMoment`, `RestoredTogether` | |
| `SwitchesTellConfig` | `SwitchTellsConfig`, unless `murky` | |

**The hypotheses** are those under which the code keeps the property; section 5 says
what happens without them. `MaxRotators <= 1`: one PIN change at a time. `~Overlap`
and the serial runs: nothing locks Kea's configuration, and the trap of SIGTERM may
remove the backup. `OneCaller`: the door's requests come
one at a time. One caller of `ResolverControl`: `upstream`, the
list that was answered last, follows the order of answers, which for two callers without a lock
need not be the order of writes.

**The invariants.**

*Staff.* `TypeOK` is not inductive: a handler stores a session built from its
local variables, so the fields its path has filled in by then must be there
(`RequestsComplete`; together `TypeInv`). `ChallengeInv` adds that every identifier registered or
held is below `fresh`, so a newly drawn one is nobody's; redemption is the removal
under the lock, and a step that redeems is the only one that turns a request into a
holder. `CapabilityInv` needs three things more: which operations reach which
labels (`FlowInv`), that a number in flight is nobody else's (`NumbersInv`), and
that clients present only numbers they were told, all below the counter
(`ToldInv`). The refinement adds `TicketInv`: no capability waits for a number that
is not a session yet. Each action is then a step of the ledger or a stutter.

*Seat.* The four fields of the seat are written outside the lock. `SeatInv` says which
of them a rotating thread has written at which place (`WritesInv`), that the seed it is to wipe is neither
the seated one nor the one it will seat (`SeedsInv`), and that numbers of seats
grow (`NumberedInv`).

*Keyman.* `DoorInv` describes the rest of the queue instead of the past of the
request: for a device, that rest has one of a few forms (`Works`), and each form
says what slot 0 and the strategy's other slot must hold now (`LuksInv`). Slot 0
is held at all times but between the two commands that replace it
(`SlotZeroHeld`). `AdminInv` does the same for suite, owner and Samba; a kill
leaves them as `AdminInv` says of the place it came at.

*Kea.* `NeverUnvalidated` speaks of the file and the service. The invariant
`SourcesInv` says it of every place from which either may be written: inputs after
validation, backups, kept backups. For serial runs `SerialInv` adds, at each
label, which of file, backup and service equal which.

*DHCP.* `BoundaryInv`: the draft of the one command under way differs from the
file by what the command has decided so far, and a reservation that it adds, or a boundary that it
moves, was tested against that same file.

*Settings.* `CommandInv`: what is left to do is the end of what was asked.
`UndoInv`: at every step, the backups put back in reverse order give what was
found, and what is about to be written has a backup. `TornInv`: a copy is cut off
only while the file it is of stands as the field found it. `ReportInv`: the fields
done so far are reported.

*House CA, SSH, launcher.* `RingInv` follows the four files through the steps of
a rotation by the number that are left, and each place from which it may be refused;
also when an earlier rotation was killed.
`SwitchInv` and `DoorInv` say what a switch has written and knows of, and that an
edit reaches the daemon, or a signal that it has yet to act on does. `CustodyInv`: a command that has begun has the
record of this moment among those it saw in custody.

*Identity.* `LockInv`: one claim is under way, and is at one store at a time. In a cast
in which claims alone write reservations, each copy of them (the file, the preimage, the
draft) has all that were claimed, and those from before lack the new MAC (`DhcpSide`); in a cast in which claims
alone write names, the same holds of names (`DnsSide`). A claim takes an
address that neither store has, so either half is enough for `AddressNamedOnce`.
The proof uses only who writes which store (`CastStep`), not the further bounds of the casts.

*Policies.* `StillFiltered` says that the kernel's table has every device whose
policy was answered and whose removal has not begun. The table is written in two
places, from `next` and from `source`. `FilterInv` therefore says of a change
under way that it holds the lock, that `next`, the two files it read and the rules
it would put back have every filtered device, and that it may put back "no table"
only when nothing is filtered. That rests on two checks made at the start: files
and Kea agree (`Readable`), and the table is proven live (`ProvenLive`). The
mutant `ReadableAnyway`, without the first, breaks it. Editors write another file
and unlock only what they locked (`EditorsKeep`), so it holds beside
`ResolverControl`, which locks nothing, and through kills. `AgreeInv` adds what
the change was built on (`BasisInv`), what it has installed by its place, and that
its list of installed files undoes that (`InstallInv`). `UpstreamInv` is the part of
`ResolverControl`.

*Desk.* `FeederInv`: a PDF with an unmistakable name that the watcher is about to
remove is in the library or in the backup, where only a book of its own name could
be moved over it. `ExportInv`: the service is down from the stop to the second dump
unless the door meddled; `RestoreInv`: what a restore has brought back stays.
`SpliceInv`: until the list is murky one command toggles, and it has read what the
file still holds. `SwitchInv`: for each module, a thread, a waiting callback or the
configuration accounts for what the switch shows, also when a refused toggle starts
a command of its own.

**What proving changed.** Two arms of the `CASE` in `Boundary` overlapped where there is no
pool (whose offset is 0) and are now disjoint, as the arms of the code's `if` are. `BackupsUndo` is
stated on what each backup gives back (`Undoes`) rather than with a recursive fold.
The loop of `luksKillSlot` over a device's slots is one entry of the queue, which the
next step takes apart as the loop does. The properties kept their meaning.

**Only model-checked.** `RotationSettles` and `ControlsComeBack` are liveness under
fairness, out of the prover's reach with anything that needs ENABLED.
`SplicedAsAsked` is about scanners on sequences of any length, and its module uses
the recursive operators of the library: what they compute for every input is an
induction over data. `AcknowledgedStands` and `ServedAsWritten` hold only where
requests come one at a time, which no part of the code provides: they are checked,
and proved as lemmas under that condition (`AcknowledgedReservationsStand` with
`BoundaryInv`, `AnswersAreServed` with `ServeInv`), and are not counted among the
theorems. The five properties of the violation runs are false of the code.

## 5. What the runs found

As runs that must find a violation (`findings` in `PROJECT.json`):

* `att_old_session`. `session_mint` checks the PIN and signs before it takes the
  lock; a rotation that clears the registries in between does not see it, and a
  session admitted with the old PIN is registered in the new epoch.
* `key_stuck`. `replace_primary` removes every other slot before the `luksAddKey`
  of slot 0. When that fails the only key is in slot 1, from where no strategy
  replaces it: each begins by removing it or a slot that it needs.
* `id_blocked`. A claim counts as having changed something only when
  `add_reservation` has returned. When that raises after the file was replaced,
  nothing is compensated, and the retry is refused.
* `ssh_refused`. The switch takes back `sshd_config`, and that only when its own
  `tee` succeeded: a unit that was enabled before `start` was refused stays
  enabled, and a `tee` that fails after it emptied the file leaves it so.
* `desk_lost_toggle`. `module-toggle` replaces its file atomically and reads it
  without a lock; the window starts a thread for every switch. Of two that read the
  same list the later one undoes the earlier one, which was answered ok.

Met while modelling, and excluded from the properties by a stated condition:

* *Staff.* With two rotations in flight the seat may be bound to a PIN that is no
  longer in custody, as it is when a Keyman call times out after writing
  (`KeymanLate`): `RotationSettles` speaks of rotations that Keyman answered. A failed
  rebind ends as UNBOUND where the audit line says STALE_DERIVED. A status answer
  may pair an old key with a new epoch.
* *Keyman.* `safe_rotation` on a device whose only key is in slot 1 may remove the
  last key, where `luksKillSlot` allows that (`LastSlotYields`). Every refusal says
  `mutationPerformed: false`, also after commands that succeeded. A door killed between
  the rotation of the suite and `smbpasswd` leaves the passwords apart, and nothing
  says so later (`told` has "killed": the caller saw that no receipt came).
* *Kea.* When the restart fails the script exits with 1 and leaves the new file
  in place. Its trap takes the status of the last command for the script's and may
  remove the backup.
  Overlapping runs may leave no copy of what Kea runs.
* *Settings.* A list of fields that is refused is answered `changed: false`,
  whatever the earlier fields changed. A command killed between the replacement and
  the reload, a replacement that reports an error after the new file is in place, a
  reload given up after 8 s, or a putting back that fails leaves the file and the
  session apart; a repetition finds the same bytes and answers ok without a reload
  (`doubt`). A kill inside the copying of a backup leaves a torn copy in the run
  directory and no `run.json`, which is written last: applied blindly, it would
  destroy a file that is whole. The keyboard is reported by its description and set
  by its name.
  `xdg-settings` writes the same file before it is backed up. What the owner edits
  while a command runs is lost.
* *House CA.* A rotation whose receipt cannot read the new fingerprint is refused
  with the new ring in place and the old one gone; one whose moves or whose putting
  back fail leaves the ring half aside. Nothing locks. A killed rotation is followed by an `ensure-root` that
  makes another root, and a second rotation drops the previous files it would have
  restored. A leaf's key is replaced before its certificate is signed. The
  transition of `portal-admit` replaces the list of portals by its own, and the
  ledger may say "installed" of a root that the trust store does not hold.
* *SSH.* `start` of a unit that runs already does not reload it: a daemon keeps the
  directives it began with after a switch to "on". The door takes nothing back. It
  answers when the reload was signalled, before the daemon has read the file.
* *Launcher.* `atomic-change-pin` runs in a process that was never bound and is
  given no public key, so `verify_derived` refuses every change with
  `agathodaimon-derived-unbound`, although the docstring (`bind_derived/index.py:125`)
  says "Verify old PIN, atomically rotate Keyman credential password, then rebind."
  (In the model `ExpectedKey` is `NoKey`.) A Keyman killed after it wrote is answered
  as a refusal, and of two provisions at once both may be told that they created
  the record.
* *Update window.* A thread has no handler around its work: output that is not
  UTF-8, or a receipt that vanishes between listing and `stat`, ends it, and its
  switch or button stays off until the window is reopened. Any thread that ends gives the update button back, also while an
  update runs. Its report may be a receipt older than the run. Two quick clicks are
  two splices at once, of which one may be lost. The window never reads the
  configuration again, so that a switch shows what the window did, not what another
  program did since. A hide that was not written stands until the window is
  closed. A toggle or a `reseed` that fails to flush the directory is answered as a
  refusal after the replacement.
* *Forgejo.* A restore that fails after the drop leaves the database empty and the
  service up, and every restore of an encrypted copy does: it is decrypted into a
  directory that only root may enter, from which `sudo -u postgres psql -f` cannot
  read the dump. A restore adds to the tree of files rather than replaces it. The
  portal's service door can start the unit between the two dumps of an export.
* *Calibre.* What the crawl could not link after it moved the book is not offered
  again: the backup has it, the library does not. `mv` overwrites an earlier backup
  that came from the same path. The watcher looks for a
  file's name with an unanchored `grep -q` over the listing of the library, and
  removes what it finds: `Frank Herbert.pdf` is lost where `Dune - Frank Herbert.pdf`
  is held (`Found`, `Unmistakable`).
* *DHCP.* A MAC spelled with dashes escapes the check of duplicates (Kea refuses
  it later). Two commands at once lose one of two acknowledged reservations, or
  leave one inside the pool: nothing locks.
* *Identity.* A rollback puts back the whole file as it was and so erases what a DHCP command
  added beside it. A claim killed between its two stores leaves a half whose
  retry is refused; the journal that would tell is read by no code.
* *Child policies.* `_install` may report a failure after it replaced the file,
  which is then not on the list of what to undo; the caller is told that the
  rollback failed, and from then on the files disagree and every request is
  refused, reading and deleting included. A kill between the two files, an overwrite by
  `ResolverControl`, or a moved reservation end in the same place. A failed
  `nft -f` is reported as a failed rollback although everything is as before. A
  failed delete of the last policy leaves the table empty, which later changes
  refuse. On a kernel without the table the first policy is refused too:
  `_live_table` waits for an error that `_run` never reports by that name. What is read back of Unbound is the view, not the address that selects it. `dispatch` never
  reloads Unbound.

In the properties of `UnboundEdits` the variable `harmed` marks these states: a
change was cut off, was told "failed", or was written over by an editor without a
lock. `FilesAgree`, `RestoredIsTrue`, `AnsweredIsServed` and
`EachKeepsItsPart` speak of the others; `StillFiltered` holds in all.

## 6. Abstractions and bounds

* Identifiers, tickets and tokens are numbers of one counter, as `token_urlsafe`
  never repeats. The derived key and the epoch are functions of the PIN, which
  stands for both. Signatures hold if and only if made with the right key. A client presents what it was told and
  nothing else.
* Reads of several fields of the seat in one expression (`Compare`, `CheckBound`,
  the None test of `ReplyPublic`) are one step.
* Services and tools are external and modelled by what the code relies on:
  `luksKillSlot` needs a passphrase of another slot, `luksAddKey` an empty slot
  and a passphrase that opens; `kea-dhcp4 -t` refuses duplicates and pools outside
  the subnet; `nft -f` is one transaction; a reload signal is acted on some time
  later, with the file as it is then (`Load`).
* Dry runs, `key-status`, `rotate-capability`, several subnets, hostnames, leases
  beyond their count, drop-in files, the journal, `blocklist-update`, staged
  temporary files, ownership and extended attributes, receipts and log lines are
  left out.
* Settings: which text a value becomes, and the choice between the spellings of a
  field. Window: layout, labels, timestamps, diffs; a thread after its window has
  closed only ends; the engine is installed. House CA: what a certificate says beyond its issuer and key.
  SSH: `system_power`, `website_hard_reset`, other units than sshd's. Calibre: logs
  and the user's setup. Forgejo: the upload, temporary directories, a pair of which
  one half is missing, and which tools are installed; two migrations at once. In
  `JsonSplice` a list or a scalar is one token: numbers, strings and escapes are not
  taken apart.
* Not modelled at all: household time, child devices, NAS synchronisation, Backblaze
  recovery, vault opening, games, plugs, launchers, scripts run by hand. Most are
  straight lines of commands whose failure ends them; `PROJECT.json` says of each
  why. Child devices and household time keep a state file that is read and
  replaced whole without a lock, the hazard that `TogglesOneModule` and
  `AcknowledgedStands` are about elsewhere.
* The A and PTR record of a name are one record. The locks of the two directories
  of a policy change are one `holder`: the second is taken only with the first.
  All reads and checks before the first write of a policy change are one step; the
  code repeats some of them.
* SIGKILL of a claim ends the updater it runs too: the script meets a broken pipe
  at its next line of output. Its file may have been moved by then or not (`Kill`
  of `IdentityClaim`).

## 7. Plan

Done: the staff with its ledger; the door; the network stores, their
composition in a claim, and the child policies; the programs of root and of the
desk; the splices of JSON; theorems for the safety properties of the passing runs
but the three that section 4 names.

What would add most, in this order:

1. **Wider hypotheses**: a theorem about two callers of the door, whose reading of
   the slots is stale when the commands run; about two rotations of the staff, for
   the properties that survive them; and about claims with operators who keep to
   disjoint names and devices.
2. **Compositions**: the staff with the launcher, two processes that rewrite one
   record; the SSH switch and door under fairness.
3. **Household time**: a resolver that reads the record before it asks the provider
   and writes it afterwards, beside `set-timezone`; and the setting of the time
   zone in `settings`, which does not know of the record.
