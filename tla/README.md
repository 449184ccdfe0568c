# A TLA+ development of the Zaga device-lock client

The client locks a financed Windows device at the sign-in screen until a signed
code, bought from the lender's portal, extends the paid period. This directory
holds TLA+ modules translated from the C++ sources, the TLC configurations that
check them on small instances, and proofs, checked by TLAPS, of theorems that hold
for every instance. Paths such as `src/core/...` are relative to the repository.

## 1. Inventory of the system

| Part | State it keeps | Operations | Interacts with |
| --- | --- | --- | --- |
| Token codec (`src/core/TokenCodec`, `Base32`, `Sha256Hmac`) | none | `encode`, `decode`: 40 payload bits (version, counter, days, flags), 60 signature bits, 20 letters | Verifier |
| Verifier (`src/core/Verifier`, `DeviceState`) | the `DeviceState` it is given | `apply`: accept, replay, invalid | Gate |
| Local store (`src/store/LocalStore`, `DataProtection`) | `state.bin`, the sibling `state.bin.tmp` | `load`, `save`, `serialize`, `deserialize` | Gate, installer, app |
| Device configuration (`src/config/DeviceConfig`) | registry values LockEnabled, PortalUrl, the uninstall code | get, set, check, remove | Gate, installer, app |
| Gate (`src/gate/LockGate`) | none of its own | `describe`, `applyCode` | store, configuration, clock, Verifier |
| Credential provider (`src/provider`) | `_locked`, `_credential`, `_code`, `_events`, reference counts | the COM callbacks LogonUI makes; the filter; registration of the library | LogonUI, gate |
| Installer (`src/installer/Installer`) | files, COM keys, scheduled task, Add/Remove entry | install, register, provision, enroll, enable, protect, uninstall ... | everything |
| Portal client (`src/net/PortalClient`, `HttpClient`) | none | enroll, heartbeat, fetchToken over HTTP and JSON | portal, installer, app |
| JSON reader (`src/net/Json`) | a position in the text | parse, lookup of a member | portal client |
| Management app (`src/app/ZagaApp`) | `AppModel`, check-in threads, message queue | buttons that run installer commands, refresh, check in, paint | installer, gate, portal |
| Hardware detection (`src/sys/HardwareInfo`) | none | walk over the SMBIOS table, fallback to the registry | app, enroll |

### How the parts interact

There is no server process on the device. The sign-in screen (LogonUI loads the
provider library), the management app and any number of installer commands are
separate processes. What they share lies on disk and in the registry:

* `state.bin`, read by `describe`, by `applyCode`, by the check-ins and by the app,
  written by `applyCode` (sign-in tile, `apply-code`, `fetch-token`) and by
  provisioning (`provision`, `enroll`);
* the settings, written by `enable`, `disable`, `protect`, `unprotect`, `set-url`,
  `install` and `uninstall`;
* the program files, the registration of the library, the hourly task and the
  Add/Remove entry, which installation and removal create and delete.

No lock spans two of these calls. The only exclusion is the share mode of files
while they are open. LogonUI calls the provider on one thread; what the gate
answers may change between any two of its calls. The app's one thread pumps messages, in its
main loop, in the loops of its prompts and inside message boxes, and stands still while an
elevated installer runs; its check-in threads share nothing with it but the message queue.

### What is hard

* **Interleaving**: a read-verify-write of the store in several processes; one
  sibling file name for all savers; three reads in `describe`; two questions to the
  gate in one enumeration of the sign-in screen; check-in threads that answer in any order,
  and a window that may not exist yet or any more.
* **Interruption**: processes end and the power fails between any two operating
  system calls of `save`, of an installation and of a removal.
* **Partial failure**: a rename refused because somebody reads the file, a disk that
  is full, a registry read that fails, an allocation that fails.
* **Delay**: files deleted at the next start, a scheduler that outlasts the 30 seconds
  it is given, requests the portal carries out after their sender gave up.
* **Object lifetime**: COM reference counts across repeated enumerations.
* **Stale copies**: the app shows, and acts on, a copy of a machine that others change.
* **Boundaries**: the day of the deadline, the counter of a replayed code, bit fields
  side by side, lengths and terminators in a damaged record, a truncated answer and a
  firmware table.

`PROJECT.json` lists each of these as a hazard at its line, with the properties that
cover it, or the reason why none does.

### What makes each part correct

* *Codec*: every careful copy of a code gives back the fields the portal encoded;
  nothing is read that the secret did not sign; fields never run into each other.
* *Store*: `state.bin` is missing or whole; a load returns a record some save left; a
  save that reports failure changed nothing; nobody is stuck.
* *Gate*: a code counts once; no period exists that codes did not buy; an open answer
  is true when given; what cannot be read locks; with one writer the whole is an
  atomic lock.
* *Provider*: objects live as long as they are held; a screen that hides the other
  sign-in methods has the unlock tile; after a code the others come back.
* *Installer*: no key, task or filter dangles, wherever a command is cut short; a removal that
  ends has removed everything; protection outlasts what it protects.
* *Portal client*: what is stored comes whole from one answer, whatever overlaps or is lost;
  a fetched code opens only the device it was sold for.
* *App*: between two actions of the user its copy is the machine's state; what it shows is
  that copy; a button does what it says; the last check-in counts; it can always be ended.
* *JSON reader*: reads JSON and nothing else, notices any truncation, and reads back what the
  client wrote.
* *Hardware detection*: stays inside the table, and reports this machine's strings or none.

## 2. Modules

| Module | Models | Notes |
| --- | --- | --- |
| `Verifier` | `Verifier::apply` | pure operators; a code is its fields and the key that signed it |
| `LocalStore` | `load` and `save`, one action per operating system call | no `Next` of its own |
| `AtomicStore` | what the store promises | abstract |
| `StoreClients` | `LocalStore` under callers of opaque records | refines `AtomicStore` |
| `StoreClientsProofs` | theorems about `StoreClients` | |
| `LockGate` | `describe`, `applyCode`, provisioning, the switch, the clock | extends `Verifier` and `LocalStore` |
| `DeviceLock` | the lock as an atomic object | abstract; `LockGate` refines it for one writer |
| `LockGateProofs` | theorems about `LockGate` | |
| `TokenFields` | the bit fields of a payload | spans are constants |
| `TokenCodec` | Base32 and the codec, and a person copying a code | extends `TokenFields` |
| `StoreFormat` | the bytes of a record, and the reader that takes them one field at a time | |
| `Json` | the JSON reader, the writer of requests, and a grammar of JSON | pure operators over sequences of symbols |
| `JsonProofs` | theorems about `Json` | for texts of any length and nesting |
| `Smbios` | the walk over the firmware's table, and what `detect` makes of it | one structure per step |
| `FormatProofs` | theorems about `TokenFields`, `TokenCodec`, `StoreFormat` and `Smbios` | for data of any length |
| `ZagaProvider` | provider, filter, tiles and the host's calls | the gate is one variable here |
| `ZagaProviderProofs` | theorems about `ZagaProvider` | |
| `Installer` | the commands as lists of changes, kills, restarts | with the library's registration |
| `InstallerProofs` | theorems about `Installer` | |
| `Portal` | `enroll`, `heartbeat`, `fetch-token`, `provision`, `apply-code` over connections that fail | extends `Verifier`; the portal is external |
| `PortalProofs` | theorems about `Portal` | |
| `ZagaApp` | the app's thread, its message loops and its check-in threads | installer and portal by what they leave behind |
| `ZagaAppProofs` | theorems about `ZagaApp` | |
| `MC...` | instances for TLC | `MCReaders` puts `StoreFormat`, `Json` and `Smbios` side by side |

### Store

`file` and `tmp` are the contents of `state.bin` and its sibling: a record, `Absent` or
`Torn` (any content `load` rejects: empty, cut, zeroed). `io[p]` says which operating
system call process `p` makes next: `open`, `read` in `load`; `create`, `write`, `rename`,
`delete` in `save`. `CreateTemp` truncates (CREATE_ALWAYS), so the sibling is torn until
`WriteTemp`; its share mode admits one process (`holder`). `RenameTemp` needs the sibling
closed and no reader on the store (`CanRename`); otherwise `RenameTempFails` and
`DeleteTemp` follow, as in the code. The reader's handle keeps the file from being
replaced, so reading is one step at its end. `Kill` closes the handles of a process.
`PowerCut` ends them all, and with `WriteBack` may take the bytes of what was never
flushed (`unsynced`). Encryption and the byte format are inside "record or torn":
`StoreFormat` justifies that a record cut anywhere is rejected.

### Gate

`pc[p]` is the call a process is in, over `io[p]`, where it is inside the store. `applyCode`
is `ApplyCode` (load), `ApplyVerified` (verify, call save) or `ApplyRejected`, and `ApplySaved` or
`ApplyUnsaved`; `describe` reads the switch at its call, the store in between, and the
clock at its end. `Provision` is `doProvision`, and the store write at the end of
`enrollWith`: a record of defaults. `SetLockEnabled` is `enable` and `disable`. The clock
moves to any other day, also back. History variables: `latest`, the latest day the clock
has shown, and `consumed`, the counters reported as accepted since provisioning.

### Codec

`TokenCodec` prints a payload and its signature as symbols with separators (`Base32Encode`), lets a
person respell, regroup and slip (`typed`), and decodes what results: `Normalized` drops separators, raises
letters and reads look-alikes (`Canonical`), `PayloadOf` reads the digits. The signature is a constant,
one sequence of symbols per secret and payload. `CodecAssumption` says what the code's alphabet has:
no separator in it, no letter that is read as another, none twice, and as many payload symbols as the fields fill.

### Record format

`StoreFormat` starts from the bytes of any device record: whole, cut to any length, or with
any one byte replaced by any other. Each action is one call of the reader.

### JSON

A text is a sequence of symbols (`quote`, `{`, a letter, `true` ...). `Reading` is the recursive descent.
`ReadString`, `ReadNumber`, `ReadValue`, `ReadMember` and `Listed` are its parts, each giving success, the
position after it and what it read; `Reader` ties them together, as a function of the part and the position. `At`, `Past` and `After` are the reader's looks at `_text[_pos]`,
`skipWhitespace`, and the end of a member or item. `IsJson` is the reference: `Grammar`
says of any two places of a text whether a list of members, of items, or the inside of a string lies
between them, and tries every mark a list may be split at. `Request` is the
body the client writes, with `jsonEscape`.

### Firmware table

`Smbios` starts from a table the firmware printed, whole, cut, with a length in the header that is
too small, or with one byte changed, or from none. `SkipStructure`, `TakeStructure` and `EndWalk` are a turn of the
loop in `parseSmbios`; `Fill` is the rest of `detect`. `touched` is the
set of the places it has read a byte of the table at: the heads of structures (`HeadReads`), the scan for
two zero bytes, also one that meets none (`ScanReads`), and the search for a string, byte by byte
up to the zero or to the `Limit` given to `strnlen` (`SmbiosStringReads`).

### Provider

`provider` holds the members of `ZagaProvider` (`live` stands for the object), `tile[t]` those of
the `ZagaCredential` at address `t`, `sinkRefs` the references on the host's sinks. The host
is external: after `SetUsageScenario`, `Advise` and `Filter` in any order it counts, fetches and
shows tiles, lets the user type, and closes the screen. `steady` is history: the gate has
not moved during this enumeration.

### Installer

A command is a sequence of steps: `Put`, `Drop` and `Do` of one artefact or setting, in the
order of the code (`InstallSteps`, `UninstallSteps`, `RegisterSteps`, ...). Each step is an action
with the outcomes its code distinguishes: a failing copy of the library ends the
command, one of the installer or the app does not, and whatever copy was there may stay or be lost; a library may be
gone, or refuse to load;  `schtasks.exe` may end late, a held file is left for the
next start. Reading `todo` as the rest of the program, a kill may happen anywhere. The history
variable `spoiled` remembers what the code's known weaknesses have hit (section 6): a file
that is put back while Windows still means to delete it, or whose copy failed with none to stay; a library
that could not be loaded to take its keys off; a filter whose removal ended just before
it, a task whose `schtasks.exe` failed or was not waited for. The next success on the same
artefact mends it. Every property is stated for what is not spoiled.

### Portal

`job[p]` is the command process `p` runs: `enroll`, `heartbeat` or `token` while it waits for
an answer, `verify` and `save` inside `applyCode` and at the end of `enrollWith` and
`doProvision`. `line[p]` is its connection, which holds the request or the answer.
`NotCompleted` is every way `HttpClient::send` returns with `completed` false; a request for
an enrollment may stay behind in `strays` and be served later (other late requests change
nothing at the portal, so they are not kept). `CutShort` is the failing read that still
counts as completed. `Usable` is the test `PortalClient` makes of an answer; an answer that
fails it ends the command. `portal` holds the books of the real one: enrollment codes not
yet spent, bearers not revoked, codes sold. A bearer is named after the enrollment code it
was given for. Loading and saving are single steps here (`LocalStore` has their insides),
but `applyCode` loads in one and saves in another, so commands interleave between them.

### App

`at` is what the app's thread is doing: pumping messages (`loop`, a prompt `url`, `code` or `confirm`, the
box `removed`), waiting for the elevated installer, or one of the three looks of `refreshModel` and
`startCheckIn`. `job` is what for. `machine` is what these looks would find now: the store with or
without a bearer token, whether its deadline has come, the settings. `model` and `conn` are `g_model`,
`screen` what the last `WM_PAINT` drew, `dirty` whether one is owed, `queue` the posted messages. Windows'
order is kept: posted messages, then a quit message, then input, then painting. A check-in
thread reads the machine for itself, calls, and posts; a post before `g_wnd` is set, or after the
window is destroyed, is lost. `Succeeded` and `Failed` say what a command leaves behind, as far as the app
shows it. `Foreign` is any other process. History: `foreign`, whether somebody else changed the
machine since the last refresh began; `newest`, the result of the check-in that ended last; `overlap`,
whether a check-in was begun before the one before was over; `orphan`, whether the last one will
never answer.

## 3. Runs

| Run | Instance | Question |
| --- | --- | --- |
| `store_one_saver` | one saver, one reader, two records, all faults, kills, power cuts | Is the store an atomic record, never corrupt, and does every call return? |
| `store_two_savers` (violation) | two savers, kills | Is it still never corrupt? No: section 6. |
| `gate_one_writer` | one writer, one reader, three codes (one mistyped), two days, all faults, re-provisioning | Is the gate the atomic lock, and its counter the highest consumed? |
| `gate_two_writers` | two writers, kills | Can racing calls put a period on disk that codes did not buy? |
| `gate_answers` | one writer, one reader, three days, write-back disk, all faults | Is an open answer true when given, and does an unreadable store lock? |
| `gate_lost_update` (violation) | two writers | Is the counter the highest consumed with two writers? No: section 6. |
| `token_typing` | four symbols, three of payload and of signature, two edits | Are copied codes read right, and only signed ones read? |
| `damaged_input` | records of bytes with six values, two strings, every cut and every change of a byte; all texts up to six and five symbols of three alphabets, and the edits of one of 21; firmware of one or two structures, every cut, seven values for a changed byte | Are the three readers of foreign bytes safe and exact? |
| `provider_screens` | two tile addresses, failing allocations, gate free to move | Lifetimes, tile and filter consistent, hand-off to normal sign-in? |
| `installer_cut_short` | one process, all commands but `schedule`, `disable` (steps of `install`) and `unschedule` (the first step of a removal), files held open, copies that fail, a library that does not load, kills and restarts anywhere, a scheduler that fails or is late | Does nothing dangle, and does a second try finish? |
| `portal_lossy` | two processes, two accounts, two enrollment codes, two unlock codes, lost and late requests, failing loads and saves, kills | Does the record stay one answer of the portal, opened only by codes for its own secret? |
| `app_session` | two threads, a fresh and an armed machine, two clicks, one change by somebody else to the store or the switch | Is what the app shows current, painted and obeyed, and does the app end? |

### Why the bounds are enough

* *Processes*: two are what a race needs. One writes and one reads, or both write. The
  code treats all processes alike, and section 5 proves for any number what holds for any
  number.
* *Codes*: two genuine ones, of both kinds and with consecutive counters, so that order,
  replay and loss are visible, and one that does not verify. *Days*: two or three, enough
  for before, on and after a deadline, with the clock going back.
* *Store records*: two, so that old and new differ.
* *Codec*: the fields are one to two bits, the symbols two; three symbols of each part
  make a code longer than a group of five, so it has a separator. Two edits combine a
  slip with a careful change, or two slips.
* *Format*: six byte values give counters and days of one and two digits; days of both
  signs; strings of length zero, one and two, and lengths that lie by more than the
  whole record.
* *Provider*: two addresses, because a tile the host has not released yet and its
  successor are alive together, never three: the host releases old tiles before it
  enumerates again.
* *Portal*: two processes, so that an enrollment or a provisioning falls between the load
  and the save of another command; two accounts, so that a mixed record shows; both unlock
  codes for the first account, so that the second account's device must refuse them. One
  day: deadlines are the gate's matter. Addresses: none, and the portal's; any other
  behaves like a connection that never completes.
* *Texts*: six symbols hold an object with a member or a list of two; the edits of the long text
  add nesting, escapes and white space, with every mark put in every place.
* *Firmware*: two structures, so that there is a next one whose bytes could be taken for strings;
  system information with a full area, a longer and a short one; no string, one and three; numbers
  past the list. Changed bytes are zero, the two types, lengths that just fit, just do not, or lie.
* *Installer*: the artefacts are the code's own. Library and installer may be held open (the app is
  deleted in the same way, and nothing depends on it). One process: installers that run at
  once interfere (section 6), and the theorems about what they leave behind assume one too.
* *App*: two threads overtake each other. Two clicks are a command and what follows it; the
  second may be queued behind the first and meet a button not yet repainted. One foreign change
  falls before, between or after the looks of a refresh, or between click and command.

The three readers share nothing; one run gives work to one of them at a time.

`token_typing` and `damaged_input` switch the deadlock check off: a person stops copying,
and an input has been read.

### Fairness

Only what the code does by itself is fair. In `StoreClients` and `LockGate` a process that is
in a call keeps being scheduled (weak fairness of its next operating system call, or of
its return): the calls are synchronous and contain no loop. Nobody is made to call, the
clock need not move, faults need not stop. In `ZagaProvider` the host finishes an
enumeration or a closing it has begun and serves `CredentialsChanged`; the user and the
world do as they like. `HostRestarts` is an assumption about Windows that the comment in
`ZagaCredential::GetSerialization` makes ("a re-enumeration lets the normal logon providers
through"): the signal leads to a new round of `SetUsageScenario` and `Filter`, and not merely to another
`GetCredentialCount`, which would answer from the cached `_locked`.

In `ZagaApp` the app's thread takes what is posted, finishes a refresh, and comes back from the installer
(a UAC prompt times out, the installer waits for nothing without a limit); a check-in thread
comes to its end (WinHTTP's time limits); a message box is closed when a quit message is
pending. The user, other processes and repainting are not fair.

## 4. Properties

* `IsAtomic`: `StoreClients` implements `AtomicStore`. A save takes effect at its rename; failed
  saves have none; calls cut off have either.
* `NeverCorrupt`, `EveryCallReturns`: see above.
* `ImplementsLock`: `LockGate` implements `DeviceLock`: a code is granted in one step, on the
  state of that moment, then reported; a refused code changes nothing.
* `HighestConsumed`: anti-replay. With one writer the counter on disk is never below one
  whose acceptance was reported.
* `NoUnsoldDays`: the deadline is at most the latest day the clock has shown plus the days
  of all codes up to the stored counter. This is what remains true under lost updates.
* `OpenOnlyIfPaid`: if the deadline lies ahead, one genuine code accounts for counter,
  status, grace flag and at least its days.
* `OpenAnswerIsCurrent`, `FailClosed`: of the answers of `describe`.
* `CarefulCopyIsRead`, `OnlySignedIsRead`; `ReadsInBounds`, `WholeRecordIsRead`,
  `AcceptedIsGenuine`: what is accepted was not cut and could have been written.
* `ReadsExactlyJson`: the reader accepts what `IsJson` accepts. `CutAnswerIsRejected`: no proper beginning of an
  answer is one; `HttpClient` relies on it. `RequestIsRead`: the fields the client wrote are read back under their names,
  whatever they contain, and no others.
* `WalkInBounds`: no byte of a head, a scan or a string is read behind the declared or the real end.
  `IntroducesItself`: what is reported is what the firmware meant, the registry's copy
  or nothing; a cut table gives at most the beginning of the right string.
* `RefCountsExact`, `TileWheneverHidden`, `NothingWhenActive`, `HandsOff`.
* `RecordIsOneAnswer`: a device that holds a bearer token holds the account and secret that
  came with it, and its enrollment code is spent. `OpenedByItsOwnCode`: whatever state the
  record holds was left by a code sold for the secret in the same record.
* `NothingDangles` (`RegisteredHasLibrary` and `TaskHasProgram`), `UninstallComplete`, `ProtectionLast`, `FilterNeverAlone`: each excepts what is spoiled, and
  nothing else.
* `ShowsTheMachine`: between two actions of the user the copy is the machine's state, unless somebody else
  changed that (`ModelIsCurrent`), and a change is painted or about to be (`ScreenCatchesUp`). `SwitchIsObeyed`: the
  switch moves the way its button says, unless a repaint was due, and the app arms no device
  without a record, which `enable` itself would. `AnswerIsNewest`: with no check-ins overlapping, the last result is shown.
  `CheckingEnds`, `QuitEndsApp`: liveness of the two.

Definitions whose comment begins "Not the code" are plausible mistakes. `PROJECT.json`
pairs each with the property that tells it from the code.

## 5. What is proved

Every theorem holds for every value of the constants that satisfies the named assumptions of
the modules (`StoreAssumption`, `GateAssumption`, ...: types, and that marks such as `Absent` or `Nothing` are
no records), with every fault the model has switched on or off. A theorem that needs more says so in
its own hypotheses:

| Hypothesis | Meaning | Why it is needed |
| --- | --- | --- |
| `WritersAlone` (gate), first part of `Undisturbed` (store) | one process writes, any number read | two break the property: `gate_lost_update`, `store_two_savers` |
| `~(Cuts /\ WriteBack)` | a power cut loses nothing already renamed | `writeFile` does not flush (section 6) |
| `~RegistryFaults` | the registry can be read | a failed read counts as off (section 6) |
| `~Reprovision` | the device is provisioned once | a new record closes the gate during a `describe` that read the old one |
| `HostRestarts` | `CredentialsChanged` leads to a new round | the comment in `GetSerialization` says so; a host that only counts again keeps the tile |
| `OneInstaller` | no two installer commands at once | nothing in the code keeps them apart, and they interfere (section 6) |
| `"schedule" \notin Commands` | the command `schedule` is not given alone | it asks for no program; as a step of `install` and `enroll` it is covered |

`TypeCorrect` is proved in six modules without any of these. No variable's type is an invariant by itself:
each proof carries along where every process is in its call, and what it holds there.

**`StoreClientsProofs`**. `NeverCorruptEver`: with one saver the sibling is whole whenever its saver is about to
rename it (`WholeSibling`). That needs the share mode: `holder` is the one process at `write`
(`CallsOK`). `StoreIsAtomic`: each step of `LocalStore` maps to a step of `AtomicStore` or to none. A
save takes effect at `RenameTemp`, a load at the end of its reading; a kill or a cut ends calls.

**`LockGateProofs`**. First what `apply` does: it maps states to states, replays and invalid codes change nothing
(`ApplyCases`, `ReplayCases`), and a redeemed code leaves its own counter (`AcceptedState`).

* `TypeCorrect`, from `TInv == TypeOK /\ CallsOK`.
* `NoUnsoldDaysEver` and `OpenOnlyIfPaidEver`, for any number of writers. Both properties speak of `state.bin`, whose
  content came from the sibling, whose content came from a process, which may have computed it
  long ago. `SInv` therefore says the same (`Sound`) of every record there is: file, sibling and
  each process's buffer, however stale; it also keeps `today <= latest`. Steps that only move
  records keep it (`MovesKeepSInv`), a fresh record has it (`FreshIsSound`), a granted code keeps
  it (`GrantIsSound`, where `SoldAssumption` is used: the tally counts every code once).
* `HighestConsumedEver`, for one writer. `WInv` says for each place of a call how far what the writer
  carries is ahead of the file: what it holds after verifying has the counter of its code, above
  the file's; the sibling it renames is what it holds; when it has reported, the file has it.
* `FailClosedEver`, for any number of processes: the switch a `describe` has seen as off was off.
* `OpenAnswerIsCurrentEver`: what `describe` loaded is the file's or an older record of the same
  device, whose deadline the writer can only have moved on.
* `GateImplementsLock`: the safety half of the refinement. A granted code is the lock's `Grant` at the rename
  that installs it, and everything before it is a stutter.

`SoldAssumption` is a statement about the portal's books, not about the client: it says what
"the days sold up to a counter" means. The model-checked instances define it as the sum over
the genuine codes.

**`ZagaProviderProofs`**, for any number of tile addresses. `RefCountsExactEver`: the inductive part is `Held`, who holds
what, with the number of tiles that hold the host's sink as the cardinality of a set that each call
changes by at most one element. `TileWheneverHiddenEver` and `NothingWhenActiveEver`: `Screen` says for
each phase of an enumeration what filter and provider have learned so far, in whichever order they
asked, if the gate has sat still.

**`PortalProofs`**, for any number of processes, accounts and codes. The record on disk was carried there by a command, which
took it from an answer, which the portal gave for a request that may have been sent by a process that
ended since. `Inv` says of every request, answer, job and record on this way that it belongs to one
account (`Genuine`, `JobOK`, `LineOK`). `RecordIsOneAnswerEver` and `OpenedByItsOwnCodeEver` follow.

**`InstallerProofs`**. `TInv` holds for any number of installers; with one, `Machine` says what the machine always
satisfies, and `Installing` and `Removing` what each command has reached, by the number of its steps
that are left: after `class` is deleted it stays deleted until the command is over. A kill may
come at any of these places, and leaves what `Machine` says. `FilterNeverAloneEver`, `NothingDanglesEver`,
`UninstallCompleteEver` and the action property `ProtectionLastEver` follow. That a command is somewhere in its own
list, and nowhere else, is `Plan`; the lemma `Places` turns the rest of a list into one of 29 places.

**`ZagaAppProofs`**, for any number of threads, clicks and changes by others. `Copied` says which part of `model` a refresh
has brought up to date when it has made one, two or three of its looks; `Drawn`, when the screen is the
copy; `Undisturbed`, that the window cannot go while the thread does not pump messages; `OneAnswer`, that a check-in in
progress is a thread or a posted message. `ShowsTheMachineEver`, `AnswerIsNewestEver` and the action property
`SwitchIsObeyedEver` follow.

**`FormatProofs`**, for data of any length.

* `FieldsRoundTrip` (assumption: `FieldAssumption`): for field spans of any size a payload packed from
  values within their spans is within the payload's range and gives every field and the version
  back. `MAX_COUNTER` and `MAX_DURATION_DAYS` are the spans' last values, so the checks of `encode`
  are what the theorem needs.
* `CarefulCopyIsReadEver` and `OnlySignedIsReadEver` (`FieldAssumption`, `CodecAssumption`): for any alphabet, any
  number of payload and signature symbols and any length of group. `CodecInv` says that until the person slips,
  what is typed normalizes to the symbols that were printed: every spelling of a symbol is read as that symbol
  (`SpellingsAreRead`), separators go wherever they stand (`GroupsAreRead`), and an edit in one place changes what is read in
  that place only (`EditsAreRead`). The symbols are the payload's digits (`SymbolsAreRead`), so `decode` finds
  the fields that were encoded. Whatever was typed, a payload is handed out only with its own signature.
* `ReadsInBoundsEver`, `WholeRecordIsReadEver`, `AcceptedIsGenuineEver` (`FormatAssumption`): for bytes of any
  even number of values, lengths, counters and deadlines of any width and any list of strings. `Place` says
  that the reader has taken the first fields of the layout, inside the buffer, and kept values of
  their types; `Same`, that unless a byte was changed it has kept what was written and stands where that field ends in the
  record (`Laid`). A cut record is refused because the last field ends behind the buffer. The steps rest on
  `NumberOfPut` and `SignedOfPut`: what `putU32` and `putI64` write, `getU32` and `getI64` read, on either side of
  the epoch.
* `WalkInBoundsEver` and `IntroducesItselfEver` (`FirmwareAssumption`: a firmware string is not empty and holds no zero
  byte, as SMBIOS prescribes): the walk reads no byte behind the declared or the real end of a table of any
  length (`StringReadsInside`, `ScanReadsInside` and `HeadReadsInside`, for any bytes), and the device is introduced as
  what its firmware means. `MInv` says that the walk stands where a structure begins, has met none that is full before it
  (`Walking`), and has left behind it what was meant (`Found`). The steps rest on where printed
  structures lie (`PartsLie`), on two zero bytes standing together only where a structure ends (`TwoZerosEnd`),
  so that the walk goes from one to the next, and on what a search for string number n comes to
  (`StringIs`): that string, or as much of it as the cut has left. Of a table with a changed byte it says nothing.

**`JsonProofs`** (`JsonAssumption`: the mark for the end of a text is no symbol of one, and no name holds what would have
to be escaped), for texts of any symbols and any length, nested to any depth. The reader calls itself at
later places only (`Steps`), so it has one value at each (`ReaderIs`).

* `CutAnswerIsRejectedEver`: the reader of a beginning reads what the reader of the whole reads, as long as it stays
  inside the beginning (`ReaderSame`); an accepted beginning would therefore be the whole value, and the value ends
  where the text does.
* `RequestIsReadEver`: a request is read piece by piece. `Spelled` places each symbol of a value in its escaped
  form, and `StringIsRead` takes them from the last to the first.
* `ReadsExactlyJsonEver`: from each place the reader and the grammar agree on strings (`StringRight`), numbers
  (`DigitsIs`), objects and arrays (`ListIs`), if they agree on what lies farther behind. The grammar may split a
  list at any comma; that the only one that can do is where the reader's element ends is
  `ListStep`, and it rests on numbers being read to their last digit.

Both modules need induction over the length of what is read. The library's induction theorems cannot be used here, so it goes by
the least counterexample: `Least` (from `WFMin`), `Climb` for a property of 0 to n, `Recursion` for
functions defined step by step, which gives `Power`, `Number` and `FlattenSeq` their values.

### What is only model-checked

* Liveness (`EveryCallReturns`, `HandsOff`, `CheckingEnds`, `QuitEndsApp`): the prover does not handle fairness. The
  theorems about refinement are about safety, which is all `AtomicStore` and `DeviceLock` state.

## 6. Where code and documents disagree

Shown by a run:

* `gate_lost_update`: two overlapping `applyCode` calls; the one that saves last wins. If it
  carries the lower counter, the counter on disk falls below a consumed one, and that code
  can be applied again; in the other order the days of the lower code are gone for good
  (`src/src/gate/LockGate.cpp:103`, against `docs/FUNCTIONALITY.md:95`). `NoUnsoldDays` shows that no day is
  counted twice either way.
* `store_two_savers`: the sibling has one name for all processes, so a saver that is killed after
  truncating it lets another's rename install the truncated file
  (`src/src/store/LocalStore.cpp:239`, against the comment two lines above).

In the model, without a run of their own (set the constant named to see it):

* A power cut on a disk that caches writes may undo the bytes of a save that has
  returned: `WriteBack = TRUE` with `NeverCorrupt` (`LocalStore.cpp:134`, `244`; `docs/FUNCTIONALITY.md:101-103`).
* A failed read of LockEnabled counts as off: `RegistryFaults = TRUE` with `FailClosed`
  (`DeviceConfig.cpp:59`; `docs/FUNCTIONALITY.md:149`).
* `enable` on a device that was never provisioned locks it: `describe` answers closed when there
  is no store (`Installer.cpp:672`; `docs/INSTALL.md:32-33`).
* Filter and `SetUsageScenario` ask the gate separately: without `steady`, `TileWheneverHidden` fails at
  midnight (`ZagaProvider.cpp:110`; `ZagaProvider.h:10-12`).
* A host that serves `CredentialsChanged` by counting again keeps the tile: `HostRestarts = FALSE`
  with `NothingWhenActive` (`ZagaProvider.cpp:171`; `ZagaProvider.h:12-13`).
* Removal that ends between the provider key and the filter key, then an installation cut
  short, leaves a filter without a provider: `FilterNeverAlone` without its `"filter" \in spoiled` (`Dll.cpp:174-176`).
  Two installers at once reach it too.
* Uninstalling while a program file is open, installing again and restarting deletes the new
  file. For the installer, which the hourly task needs, see `TaskHasProgram` without its
  exception (`Installer.cpp:355`; `docs/CONNECTIVITY.md:100-102`); for the library, `RegisteredHasLibrary`. Once the
  library is gone, uninstall skips its registry keys in silence and reports success:
  `UninstallComplete` without its exception (`Installer.cpp:346`; `docs/DEPLOY.md:103-104`).
* Nobody looks whether the installer could be copied. Where there was none to stay, the task is scheduled
  without its program and `install` reports success: `TaskHasProgram` without its exception
  (`Installer.cpp:278`; `docs/CONNECTIVITY.md:100-102`). A failing copy over the library may take away the one
  that is registered: `RegisteredHasLibrary` (`Installer.cpp:267`).
* A library that is there and does not load keeps its keys, and the removal deletes it and reports
  success: `UninstallComplete` and `RegisteredHasLibrary` without their exceptions (`Installer.cpp:203`, `346`;
  `docs/DEPLOY.md:103-104`).
* A scheduler that fails or outlasts 30 seconds leaves the task behind, and the removal reports
  success: `UninstallComplete` without `task` (`Installer.cpp:129`).
* The app stands still while the installer it waits for talks to the portal
  (`WaitForSingleObject`, `ZagaApp.cpp:250`): `fetch-token` and `enroll` do block the window, while
  `docs/FUNCTIONALITY.md:64-65` says "the UI never blocks on the network", of the heartbeat.
* A second click on the switch that Windows queued while a command ran meets the new model and the
  old label, and undoes the command: `SwitchIsObeyed` without `dirty` (`ZagaApp.cpp:463`).
* A check-in that ends before `CreateWindowExW` returns, or whose thread could not be created, leaves
  "Checking..." on show: `CheckingEnds` without `orphan` (`ZagaApp.cpp:210`, `220`). Check-ins that overlap may leave
  the older result: `AnswerIsNewest` without `overlap`.
* A removal the user declines sets a message and does not repaint (`ZagaApp.cpp:245`, `533`): the text is
  not in the model.
* `DllCanUnloadNow` answers from a count that only `LockServer` moves, not from the objects that live
  (`Dll.cpp:67`, `133`): the library may be unloaded under them; LogonUI does not ask.
* `install` clears the switch last and the uninstall code not at all, so a switch or a code left
  over takes effect: `InstallSteps` (`Installer.cpp:292`; `docs/INSTALL.md:31-32`).

## 7. What is not modelled

* `Sha256Hmac`, `DataProtection`: the system's cryptography. Their failures are in the models.
* The texts of the tile, layout, fonts and wording: user interface without state of interest.
* The reference count of the library itself (`DllCanUnloadNow`): nothing in the modelled calls moves it.
* The enrollment that is spent and lost: when the answer or the save fails after the portal
  has consumed the code, the device stays as it was. The behaviour is in `Portal`; nothing in
  the client undoes it, so no property is stated.
* Whether `HttpClient::send` ever returns: that is left to the time limits of WinHTTP.
* What a JSON number is worth (`strtod` also takes `inf` and `0x10`), the bytes of a `\u` escape, how deep
  a text may be nested before the stack ends.
* The guided `setup` of the installer, which is `install` and then `enroll`.
* Deletions of registry keys, of the Add/Remove entry and of the shortcut (`Installer.cpp:347`) that fail, and a `MoveFileExW`
  that is refused after the deletion was (`Installer.cpp:355`): nobody looks at these results. The installer runs
  as administrator. The program folder itself, which goes when it is empty (`Installer.cpp:361`).
* A portal that answers an enrollment with a bearer but without account or secret: `enroll` looks
  for the bearer only and would save it (`PortalClient.cpp:79`).
* The insides of the settings' reads: a code or address that is too long for its buffer, or changes
  while it is read (`DeviceConfig.cpp:75`, `98`).
* The environment variables that redirect the store and the registry root: test harness.

## 8. Plan

Done, in this order: `Verifier`, `LocalStore` with `AtomicStore` and `StoreClients`, `LockGate` with
`DeviceLock`, `LockGateProofs`, `ZagaProvider`, `Installer`, `TokenFields` and `TokenCodec`, `StoreFormat`,
`Portal`, `ZagaApp`, `Json`, `Smbios`; then the proofs of `PortalProofs`, `StoreClientsProofs`, the
rest of `LockGateProofs`, `ZagaProviderProofs`, `InstallerProofs`, `ZagaAppProofs`, `FormatProofs` and `JsonProofs`.

Every component with state of its own has a module and theorems, and every invariant that a passing run
checks is stated by one. Left to the runs: liveness.
