# Skeleton Key, specified

TLA+ specifications of [Skeleton Key MCP](../src/README.md): a self-hosted MCP
server that lets an AI agent read and, with approval, act on a homelab, holding
the credentials of its targets in a scoped Vaultwarden collection and its own
secrets in an encrypted bootstrap store. One Node process serves the web UI,
the OAuth endpoints and `/mcp`.

Node runs one continuation at a time. What makes the program hard is therefore
not parallel memory but what is left between two `await`s: a state that was
checked and has changed since, a file that two requests write at once, an
answer given before the work it announces, and a process that dies in between.
Throughout, **an action is the code between two awaits** (or one SQL statement,
or one system call), and everything that can be waiting meanwhile interleaves.

## 1. Inventory

Paths are relative to `src/src/`. "Modelled" means that every operation that
changes state is an action; what is left out of a component that is modelled
partly is said in section 2 and in the notes of `PROJECT.json`.

| Component | State | Operations | Correct when | Status |
|---|---|---|---|---|
| **Atomic file writes** `lib/atomic-file.ts` | target, `${file}.tmp`, open descriptors | one: `writeFileAtomic` | the file is replaced whole or not at all, through errors, process death and power loss | modelled |
| **Bootstrap store** `secrets/bootstrap-store.ts`, `unlock-key-file.ts` | store file (payload, passphrase slot, unlock slot), key file; in memory the data key, the payload, the slots | initialize, unlock (v1 migration), unlockWithKey, update, enable/disable auto-unlock, lock | what opens with it once always opens; an answered update is durable; memory and file agree; a disabled key opens nothing | partly |
| **Attempt limiter** `lib/attempt-limiter.ts`, TOTP check in `app.ts` | per-client and global buckets, a bounded map of clients | record a failure, succeed, ask whether blocked | a budget of guesses per window for everyone together, whatever is evicted or succeeds; lockouts double and start over cleanly | partly |
| **Passphrase gate** `app.ts` `unlockWithPassphrase` | limiter, `passphraseInFlight` | begin, wrong, right | a burst cannot outrun the failure counter; the gate always reopens | modelled |
| **Credential hand-off** `web/credential-requests.ts`, `credential-routes.ts`, tools in `mcp/builtin-tools.ts`, `createLoginItem`/`updateLoginItem` of `secrets/vaultwarden.ts` | map of one-time links with status and outcome, vault items | mint, read, decline, claim, probe, find, write, fingerprint, release, complete, expire, evict | one submission per link; an outcome is true and final; names unique; a re-fill keeps the rest of the item; no link stranded | modelled |
| **OAuth** `oauth/oauth-service.ts`, `web/oauth-routes.ts` | tables clients, auth_codes, tokens | register, consent, redeem, refresh, revoke token, revoke client, purge | a consent has one lineage of tokens; what is used up or revoked stays so, wherever a call stops | modelled |
| **Skeletons** `snapshots/*` | job records, `reg.running`, files of a skeleton, the snapshot key (memory, store file) | start, status, form, list, download | one job at a time; what is listed is whole and covers the registry; a key on disk is never replaced | partly |
| **Vault client** `secrets/vaultwarden.ts`, `app.ts` | CLI login and server on its disk, session key, `vaultError` | status, login, unlock, sync, logout, look-ups, delete; `postUnlock`, `changeVaultServer` | a vault that is down says why; a bad URL changes nothing stored | partly |
| **Target registry** `config/registry.ts`, tools in `mcp/builtin-tools.ts` | array of targets, `targets.yaml`, pinned credential ids | load, register, update, re-pin, remove, persist; delete a credential | a deletion takes nothing a target reads | modelled |
| **Setup wizard** `setup/*` | setup-complete marker, secrets in the store | connect, enrol TOTP, mint token, complete | the token works from the moment it is shown | partly |
| **Bearer token** `web/auth.ts`, `config/bearer-hash.ts` | hash file, hash in memory, token in the store | verify, rotate, write the hash | the hash follows the token through unlocks | modelled |
| **MCP sessions and dispatch** `web/server.ts`, `mcp/*` | session map with a cap, sweeper, listeners | open, use, list tools, evict, sweep, close; locked gate; `targetCredential` | whoever could have listed too early is told | partly |
| **Tool call** `connectors/*`, `mcp/tool-registry.ts` | arguments and locals of handlers in flight | one handler per tool | what a tool reports is what it did | modelled |
| **Pelican: the panel** `connectors/pelican/index.ts` | (remote) builds, startup environments, allocations, servers, eggs, schedules, files | provision, patch, create, import, delete, upload, pull | what is written back whole keeps the rest; success is real | modelled |
| **Pelican: the panel's host** `connectors/pelican/host.ts`, helper script | (remote) installed release, PHP, maintenance mode, run state | status, upgrade of panel, PHP and Wings | the installed release runs on the installed PHP; a failed upgrade can be taken up again | modelled |
| **Uptime Kuma** `connectors/uptime-kuma/*`, `power_action` of Pelican | (remote) monitors, handles file, socket session | pause, resume, maintenance windows, white-glove restarts | a monitor that is paused is accounted for | modelled |
| **Portainer** `connectors/portainer` | (remote) stacks, containers, logs | update, remove, power, exec, logs | the environment of a stack survives an update; a line of a log whose frames hold whole characters is shown whole | modelled |
| **Proxmox** `connectors/proxmox` | (remote) guests | power, reads | the guest hit is the guest named | modelled |
| **UniFi** `connectors/unifi` | (remote) settings, networks, port-forward rules | features, remote logging, IPv6, forwards, provision | no change is undone unseen; no way into the control plane | modelled |
| **Home Assistant** `connectors/home-assistant` | (remote) states | bounded reads, allow-listed GET, services, backup | a path that is read is served as the list read it, apart from the exceptions of section 4 | modelled |
| **SSH and command policy** `connectors/ssh`, `connectors/shared/command-policy.ts` | a remote shell | `run_readonly`, `run_command`, fixed reads | a line that passes only reads, unless an option on it is quoted or escaped | partly |
| HTTP connector `connectors/http` | none | one request per call | - | not modelled |
| Secret references, network checks `connectors/shared` | none | pure look-ups | - | not modelled |
| Network discovery `discovery/scan.ts` | worker pool | scan | bounded pool | not modelled |
| Admin UI, TLS and public URL, audit log, helpers | files, append-only table | render; check and renew; insert and query | - | not modelled |
| Boot and process `index.ts`, `app.ts` | - | boot auto-unlock, purge timer, listen, signals | - | partly |

How they interact. Requests of the web UI go through the attempt limiter (TOTP)
or the passphrase gate to the bootstrap store, which writes both of its files
through the atomic writer. An unlocked store feeds the vault client; tools find
targets in the registry, resolve their credentials through the vault client, and
act through a connector on a system that people use as well. MCP sessions carry the
tool calls and are told, through listeners, when the set of tools changes. The
hand-off is the only way a credential gets *into* the vault: an agent mints a link, a
person submits it, and two components (link map, vault) must agree on the outcome
although neither knows the other. The snapshot key lives in the bootstrap store and is
created on first use by whoever needs it. OAuth stands beside all of this: its tables
survive a locked store.

What is hard, in one line each (the complete list, with lines of code, is
`hazards` in `PROJECT.json`): two writers of one temporary name; a check before
an `await` and the use after it (initialize, createLoginItem, updateLoginItem, the
guard of a deletion, every read-merge-write against a remote system without a
conditional write); slots kept by reference while a write is in flight; a change of
the vault server under unlocks and tool calls; a roll-back after half of the work was
done; calls that stop between two statements, two files, two monitors or two steps of
an upgrade; lost acknowledgements; waits that take an old state for the new one;
budgets under eviction, success and pacing; replays of codes and tokens at any time; a
loop over an array that grows.

## 2. Modules

| Module | Models | Extends / instances |
|---|---|---|
| `AtomicFile` | every system call of `writeFileAtomic`, its failures, process death, power loss | |
| `DurableFile` | its contract: a call takes effect at one instant or not at all | refined by `AtomicFile` |
| `BootstrapStore` | the store, the key file, the routes that use them, the boot | two instances of `AtomicFile` |
| `AttemptLimiter` | buckets, lockouts, the bounded map, `checkTotp` | |
| `PassphraseGate` | `unlockWithPassphrase` around an argon2 that takes time | extends `AttemptLimiter` |
| `CredentialHandoff` | link map, POST handler, minting and status tools, vault find and write | |
| `OAuth` | every statement that changes a table, and calls that stop between them | |
| `Skeletons` | jobs, `formSkeleton`, the snapshot key, downloads, targets registering meanwhile | |
| `McpSessions` | the session table of `/mcp`, its cap and sweeper, the listeners | |
| `VaultSession` | the CLI's server and login, the session key, unlocks, changes of the server, the wizard's steps, the bearer hash | extends `McpSessions` |
| `Targets` | registry, tools on targets, deletion of a credential, how a ref is resolved | extends `VaultSession` |
| `Server` | the process: all three, with people editing the vault and restarts | extends `Targets` |
| `ToolCall` | what every handler has in common | |
| `UniFi`, `Portainer`, `Proxmox`, `HomeAssistant`, `UptimeKuma`, `PelicanPanel`, `PelicanHost`, `Ssh` | one connector each: the remote system's state, the calls its schemas admit, the handlers' steps, the edits of others | extend `ToolCall` |
| `Connectors` | the connectors put together, and their properties | extends the eight |
| `MC*` | the instances TLC checks; history variables that state a property across time (`MCAttemptLimiter`) | their component |
| `*Proofs` | theorems and proofs: one module for all connectors, one for limiter and gate together (it extends `MCAttemptLimiter`, whose history its properties speak of) | their component, TLAPS |

A definition keeps the name of the function or field it stands for where it
can; `map` in `PROJECT.json` gives the lines of each. A definition whose comment
starts with "Mutant:" is a plausible defect in the definition it precedes; no
specification uses it. `PROJECT.json` lists which mutant each property detects.

### AtomicFile, DurableFile

The state is two directory entries (`file`, `tmp`), each an inode's content
(absent, empty, a datum, or spoilt; synced or not), where the inode of each open
descriptor is linked now (`at`), what each call is doing (`pc`, `arg`), and what
a power loss may bring back (`prior`). Since every call for one file opens the
*same* temporary name, a rename moves an inode another call still writes to;
`Relinked` and `OnDescriptor` follow it. The steps are open, write, sync+close,
rename, directory sync, with a failure of each, a process death and a power loss
at each point. A short datum over a longer one does not cover it (`Size`).

`DurableFile` has one content, replaced at one instant per call. The refinement
maps the content of `file`, what a power loss may revert to, and a call that is
past its rename to an installed one.

### BootstrapStore

A key is a number; a slot wraps the data key it names under the key it names; a
payload is the set of updates merged into it. A request is begun, reads, computes,
persists (through the instance `Store` of AtomicFile), perhaps writes the key file
(instance `KeyFile`), and ends; its local variables hold what it read before each
await. `heap`/`slots` model that `persist()` serialises the slots *object*, which
another request may have changed or replaced in the meantime, while the payload was
sealed earlier. `Restart` is the boot: read the key file, try it, else stay locked.
`exists()` answers "no store" to every error of its read, so where the disk may fail a
read sees the store or nothing (`Reads`): an initialization then replaces a store that is
there, an unlock is refused, and a boot stays locked.
Ghost variables record what was promised: updates acknowledged, keys that were ever
in the key file, whether the last answer was "on" or "off", and whether memory has a
store that was made beside one on disk (`replacing`).

Left out: `lock()` (nothing calls it while the server runs) and the deprecated
passphrase in the environment, which is one more unlock at boot.

### AttemptLimiter, PassphraseGate

`clients` and `global` are buckets with the failures in the window, the end of the
lockout, and the length of the next lockout in place of the level (`min(base *
2^level, max)`; the level itself is unbounded, the length is not). `older` is the
insertion order of the map. `WrongCode` and `RightCode` are the whole of
`checkTotp`: blocked or not, evaluate, then record a failure with its `makeRoom`,
or reset the client. The clock ticks. In the gate an attempt is two actions with
the derivation between them.

### CredentialHandoff

`status` is a link's `RequestStatus` plus `new`, `asked`, `gone`; `order` the map's
insertion order; `done` the links with a stored outcome. A POST runs to its claim in
one action (there is no await before it), then through `probe`, `find`, `write` and
`fingerprint`, each of which may fail when `Faults`. Reads that expire (`get`) and
the eviction at `create` are part of the actions that call them. An item remembers
who wrote each field, `stored` the order of the writes, and `missed` what was written
to an item between a re-fill's read of it and its write: that is what lets a property say
what a re-fill may take back. Links may share a name, to create or to re-fill. A `bw` command that fails changed nothing, and nothing deletes items
meanwhile: assumptions about code outside this repository.

### OAuth

Tables are sets of rows; every call is synchronous, but its statements commit one
by one, so `step` is where a call stands and `Stop` ends it there: the process
died, or a statement threw and the endpoint answered 500. `held` is what clients
know: a code or token once given out may be replayed at any time.

### Skeletons

`formSkeleton` iterates the registry's own array, so a target that registers
during an await is visited; targets are not removed once setup is complete, which
`/mcp` requires. Files are written one by one, the manifest last; each write may
fail and the process may die anywhere. The key is looked for in memory, generated
there, and then written. Other updates of the store write it too; one that was sealed
before there was a key (`OtherSeal`) may reach the file after it and take it off again
(`OtherWriteKeyless`), since `persist()` seals the payload before its awaits. Connectors are
external: a snapshot fails or returns any set of artifacts, some of which are left
out (size, name).

### McpSessions, VaultSession, Targets, Server

These are layers of one state, each extending the one below, and `Server` adds only
who comes when.

`McpSessions`: `table` is the session map, an entry being when it was last seen, the
tools its client listed last and whether it was told since that they changed;
`listeners` is `toolChangeListeners`. A session registers while its `initialize` is
still being handled (`joining`, `answering`), which is when it can be evicted, swept
or thrown away. `emitToolsChanged` reaches those who listen at that moment.

`VaultSession`: the CLI keeps its server and its login on disk (`bwServer`,
`bwLogin`), the session key is in memory (`session`, the number of the login it
belongs to); `store`/`saved` are the payload in memory and in the file. A request
(`doing`, `step`) is an unlock, a change of the server, a step of the wizard or a
rotation of the token, and one action is one `bw` command or one write as it ends,
followed by the code up to the next await. Every command and write may fail. Beside
each other run as many unlocks and changes as there are `Admins`, except that
`ChangesOverlap` says whether two *changes* may (see section 4). `bearerHash` and
`hashFile` are the hash the token is checked against while the store is locked.

`Targets`: `items` is the vault, `targets` the array, `file` `targets.yaml`; a call
holds the locals of its handler. `resolveItem` is the code's order of matching (exact,
id, another case, a part), `Reads` what `targetCredential` comes to. People rename,
delete and create items at any time. `calm` is a history variable: nothing the call
looked at has changed or failed to answer.

`Server`: `Beginnings` gives a behaviour its start and its *budget* of each kind of
event (requests, calls, sessions, ticks, edits, restarts).

Left out: the scoping of collections and the checks of `verify.ts`, which only read;
the parsing of what `bw` prints; the progress heartbeat; the wording of
confirmations. A tool call is not tied to the session it came over.

### ToolCall and the connectors

A handler is a sequence of awaits, so `at[c]` is where call `c` waits, `got[c]` what it
read last and relies on, `sent[c]` the whole record it wrote back, `answer[c]` what its
caller was told, `touched[c]` the lasting effects it had. `Begin`, `Learn`, `Change`,
`Reply`, `Move` and `Breaks` are the shapes of a step, and each connector's `...Step(c)`
is the disjunction of its handlers written with them. `remote` is the other system, a
record whose fields are those the handlers read or write; `Edit` is a person at work
there. A write whose answer is lost has happened, and its caller is told it failed or is
unknown, as the code says.

| Module | `remote` | Worth knowing |
|---|---|---|
| `UniFi` | settings groups, networks, rules | `putMerged`: the document is read, merged, read again and written whole; a forward is screened when created and again after a patch is merged; an echo of name, port and destination before a deletion |
| `Portainer` | stacks with their environment | `demuxDockerLogs` over every short stream of headers, bytes that are a character and halves of characters: each frame is decoded by itself |
| `Proxmox` | guests | identity (name, node) is checked in the call before the power change; which token or login is used |
| `HomeAssistant` | - | `canonicalizePath` over the path shapes of `MCPaths` (`api` and up to four segments, some empty, some dot segments, some encoded up to twice), against what the server makes of them; `readBounded` over chunks; a service call whose answer is lost |
| `UptimeKuma` | monitors, handles, maintenance, a server's process | sessions, pauses and resumes one at a time with lost acknowledgements; white-glove restart: pause, signal, wait, resume. The signal finds the server in any state, and the agent drops it, breaks off what it was doing, or does it afterwards (`AfterSignal`) |
| `PelicanPanel` | a build, an environment, allocations, eggs, schedules, a file | which routes replace a whole document; ports parsed and bounded; redirects of a fetched egg; a pull the daemon goes on with after its answer; masking before the tail, as far as the two patterns reach (`AfterKey`, `IsArgument`) |
| `PelicanHost` | release, PHP, socket, maintenance, Wings, each helper run | the helper is a process of its own that goes on when the session is lost, and its steps stop where `set -e` stops them; a switch may name the release it is for; Composer's constraints against whole versions |
| `Ssh` | - | the splitter and the policy, which matches raw text, over every line of one to three tokens, among them an option and a program with a backslash in them, against what a shell would run |

Reads of a kind are one action. What a result says is reduced to `Answers`. Wording,
confirmation texts and the curation of what is shown are left out, except where a
secret could show.

## 3. Runs

Run one with `tlc -config <cfg> <module>`. Sizes are those on which every action
fires and every property's mutant is found.

| Run | Configuration | Instance and bounds | What it shows |
|---|---|---|---|
| `atomic_one_writer` | `AtomicFileOneWriter` | 1 writer; 3 data, one longer; all failures | `NeverTruncated`; `ImplementsDurableFile`; `CallsReturn`. Any number of calls in sequence: no bound |
| `store_serial` | `BootstrapStoreSerial` | 1 request at a time, 4 in all, failing reads and writes and restarts anywhere, v1 and v2 stores | unless a store is replaced after a read error: an answered update is durable, memory and file agree on the slot, disable and enable mean what they say |
| `store_concurrent` | `BootstrapStoreConcurrent` | 2 requests at a time, 3 in all | what survives overlapping: a complete file always opens, every request is answered |
| `gates` | `AttemptLimiter` | 3 clients, map of 2, 6 guesses in 7 instants at the TOTP; 4 instants at the passphrase | `GlobalBudget`, `Escalates`, `LadderResetsClean`; no failure counted in a lockout; the gate reopens |
| `handoff` | `CredentialHandoff` | 3 links, one with a probe that creates, two that re-fill one item and share a field; map of 2, 2 submissions, all failures (427 thousand states) | claims exclusive, outcomes true and final, nothing taken back that a re-fill had read, no claim stranded |
| `oauth` | `OAuth` | 2 clients, 5 codes and tokens, lifetimes 1/1/2, 4 instants | one lineage per consent; revoked and used up for good |
| `skeletons` | `Skeletons` | 2 jobs, history of 1, 1 download, 2 targets, 1 name of artifacts, 2 keys, any number of other updates, 1 restart (600 thousand states) | one job; listed is whole; the manifest covers the registry; no other key replaces the one on disk; jobs end |
| `server` | `Server` | 2 requests at once, 2 calls, 2 sessions over a table of 1, 2 targets, 2 items, 3 names; the budgets of `MCBeginnings` | who misses a notification, whether a vault that is down says why, what a deletion takes with it |
| `connectors` | `Connectors` | 2 calls against one system of each kind, 1 edit by somebody else (2.3 million states) | see below |
| `store_misread` | `StoreMisread` | 1 request at a time, a disk that may fail, violation | see findings |
| `handoff_duplicate` | `HandoffDuplicate` | 2 links for one name, violation | see findings |
| `panel_upgrade_retry` | `UpgradeRetry` | 2 calls on the panel's host, violation | see findings |

The properties of `connectors`: `KeepsTheRest` (a document written back whole holds what
was asked and else what was read last), `ForwardsScreened` (no rule into the control
plane becomes enabled), `OnlyWhatWasNamed` (what is deleted or switched is what the
caller described by more than its id), `PausedIsAccounted` (no monitor stays silent with
nobody told), `RuntimeFits` (the installed release runs on the installed PHP),
`NothingUnasked` (a refusal or a read changed nothing, and no command destroys),
`ShownFaithfully` (no output of a log lost, no secret shown, no cut body called whole),
`SuccessIsReal` ("ok" can be relied on). The last four are stated with exceptions, where
the code does not do what its words promise; each is named in the property, and section 4
says what it is and which configuration shows it.

Why the bounds are enough. *Store*: a broken promise needs a first operation that
makes it, one that fails or rotates, and one that would expose it, with a restart;
four requests cover each order of these, with a read that fails before any of them;
three with two at a time cover every pair overlapping around a third. *Gates*: thresholds are 2, so six guesses reach a
third lockout and a reset of the ladder; the client map is smaller than the number
of clients, so every guess may evict; seven ticks are longer than window plus reset
time plus longest lockout. *Hand-off*: exclusivity needs two submissions, eviction
three links over a map of two; two links that re-fill one item, with one field in common
and one that only one of them asks for, are what a re-fill can take something back from. *OAuth*: five draws are a code and two generations
of token pairs, the shortest chain in which a rotated token can be replayed while
its successor lives; two clients separate a revocation from its bystander.
*Skeletons*: a second job meets the key the first left in memory; a download asks
for the key while a job does; a history of one drops a record at the second start; a second
name of artifacts would only lengthen the loop, in which each write is made, fails or is
the last before a crash already with one (the further configuration has two).
*Server*: everything at once is out of reach, so each of the seven budgets lets two
kinds of event meet as often as matters: two requests over a session and a call; two
calls over an edit (with items whose names differ in case, or contain each other); two
sessions over a full table with a tick that expires one; three requests with a restart;
setting up, alone and with a call. The third session, the third administrator and mixed
budgets were simulated at length without a counterexample. *Connectors*: a hazard here
is one call between a read and a write of another, or one edit there; calls whose
handler shares no state with others run alone (`Alone`), which loses no interleaving.
The data are two of everything that can be confused (a download may be told to expect
less than the file has, which is when the code settles early and `SuccessIsReal` says
no more than was asked), and the pure parts range over every
input up to a length (command lines, log streams, bodies, texts), over constraints of
each kind (`MCRequirements`) and over the path shapes of `MCPaths`. What is shown of log
streams, bodies, texts, command lines and paths is proved for every length (section 5).

`CHECK_DEADLOCK FALSE` is used where bounds on requests, time or draws end every
behaviour; the atomic-file runs have no such bound and check for deadlock, and so do
the connectors, where only a state with every call answered may be the last.

### Fairness

Safety properties are checked without any. Liveness assumes only that what the
process waits for settles, never that a client sends anything:
`AtomicFile` - each system call completes; `BootstrapStore` - each begun request's
next step; `PassphraseGate` - an argon2 derivation ends (it is a computation);
`CredentialHandoff` - a submission's next step: probes have time-outs in the code,
`bw` commands have none and are assumed to end; `Skeletons` - each step of a job:
connectors bound their requests with time-outs, files and the store settle. All are
weak fairness of the steps of one process. None is assumed of crashes, clocks,
arrivals, or failures. `Server` and `Connectors` state none: nothing they promise is a
promise that something happens, except what deadlock freedom of the connectors says.

## 4. Findings

Three disagreements between the code and what its documents or comments say have a
run of their own (`findings` in `PROJECT.json` quotes the lines):

- `store_misread`: `exists()` answers "no store" to every error of its read. A read that
  fails while `/store/init` asks lets `initialize()` write a new store, with a new data
  key and no secrets, over the one that is there, against "Fails if one exists" at
  `secrets/bootstrap-store.ts:114`. What the other properties of the store promise ends
  there, and they say so.
- `handoff_duplicate`: two links for one *new* name, submitted together, both find
  the name free and both create it; the credentialRef is ambiguous from then on.
- `panel_upgrade_retry`: an upgrade that fails after the release was extracted tells
  its caller to fix the cause and call again. The second call reads the version that
  was extracted, answers that there is nothing to do, and leaves the panel in
  maintenance mode, not migrated.

Further configurations beside the runs reproduce the limits that other properties
leave open; each ends in a counterexample:

| Configuration (module) | Violated | Because |
|---|---|---|
| `AtomicFileTorn.cfg` (`MCAtomicFile`) | `NeverTruncated` | two overlapping calls share the temporary inode; nothing serialises `persist()`, and a process that dies then leaves the only copy damaged |
| `StoreRaces.cfg` (`MCBootstrapStore`, with `-continue`) | `SlotAgreesWithDisk`, `OnlyCopySurvives`, `NeverOverwritesStore` | an unlock adopts the file while an enable is being written; two updates overlap; two initializations both see no store |
| the same with `DisabledStaysDisabled` alone | `DisabledStaysDisabled` | an update has sealed its payload with the slots and opened the temporary file; a disable writes its own image to that same file, the update writes over it, and the disable renames what is there now: it is answered, and the file has the old slot. `src/README.md:144` says that a leaked copy of the old key is useless after a disable |
| the same with `IOFails = TRUE`, `MaxBegun = 4` and `Openable` alone | `Openable` | the disk refuses the first initialization, which leaves its data key in memory; an enable takes that key, a second initialization draws another while the enable still waits, and a payload under one key is written with a slot for the other |
| `HandoffRaces.cfg` (`MCCredentialHandoff`, with `-continue`) | `FulfilledMeansStored`, `PendingMeansUnstored` | the claim sets `fulfilled` before the vault is written, and the status tool reads it; a fingerprint that fails after the write rolls the claim back |
| the same with `RefillKeepsTheRest` alone | `RefillKeepsTheRest` | two re-fills of one item: the one that read it before the other wrote puts back what the other has replaced (`secrets/vaultwarden.ts:516`). `NothingTakenBack` excepts this window and nothing else |
| `OAuthRevokeStops.cfg` (`MCOAuth`) | `RevocableFromUI` | `revokeClient` deletes tokens, client and codes in three statements without a transaction: if it stops before the third, an outstanding code still redeems, into tokens of a client the admin page no longer lists |
| `SkeletonKeyLost.cfg` (`MCSkeletons`) | `ListedOpens` | a key whose write failed, or was overtaken by an update sealed before it, stays in memory, encrypts the next skeleton and is gone after a restart |
| `ServerRaces.cfg` (`MCServer`) with `DeletedUnread` alone | `DeletedUnread` | a dependent whose look-up fails counts as none, and the deletion goes on; the tool says it refuses while a target references the item (`mcp/builtin-tools.ts:434`) |
| the same with `StoredWhereUnlocked` alone | `StoredWhereUnlocked` | a logout that fails is ignored, or an unlock in flight logs in again on the old server: the URL is then stored although the CLI is unlocked elsewhere, against the comment at `app.ts:143` |
| the same with `LockedIsExplained` alone | `LockedIsExplained` | two changes at once: the one that ends well clears the reason the other left, with the vault down |

| `ConnectorsStrict.cfg` (`MCConnectors`), one property at a time | `AlwaysAdmitted`, `NothingByText`, `SignalCarriedOut`, `PulledWhole` | see below |

Four properties of `connectors` have exceptions, each a case in which the code does less
than its words say. Without them they fail, as `ConnectorsStrict.cfg` shows.

*The panel's PHP* (`RuntimeFits`; `AlwaysAdmitted` without exceptions).
`SwitchedForAnother`: `panel_prepare_runtime` may name its release, and is then held
against that one and the installed one (`connectors/pelican/index.ts:2430`, `2462`). While
an upgrade to another release is under way, which has passed its own check of the PHP, the
switch leaves a PHP the new release does not admit. `PatchedBack` was found by the proof
and needs three calls (the `connectors` run has two): `panel_prepare_runtime` switches to
8.4 and its `nginx -t` fails, so that the helper puts the site's socket back to 8.3 and
leaves the command line at 8.4; `panel_upgrade`, which asks the command line, installs a
release that wants 8.4; a patch update of 8.3 is then accepted, since `servingPhpMinor`
looks at the socket first (`connectors/pelican/host.ts:156`) and no requirement is
checked, because "a patch never switches the runtime" (`connectors/pelican/index.ts:2490`).
Each exception names the calls it speaks of; upgrades, with switches that name no release
or with patch updates, are under neither.

*What a text does* (`NothingUnasked`; `NothingByText` without exceptions). The
canonical form of a path decodes it until nothing changes and drops empty segments
(`connectors/home-assistant/index.ts:206`); a server that decodes once and keeps empty
segments takes away other segments at a `..`. Where the two may differ (`InStep` does not
hold) the list may let a path through that is served elsewhere, although the comment at
`home-assistant/index.ts:236` says that what is under-canonicalized fails closed.
The patterns of `command-policy.ts` are held against the raw text of a command: an option
or a program that is itself written with quotes or a backslash is not recognised as one
(`EscapedOption`, `EscapedProgram`). Nothing is claimed of such texts, and everything of
the others.

*What is shown* (`ShownFaithfully`). Each frame of a log is decoded by itself
(`connectors/portainer/index.ts:568`), so a character whose bytes are in two frames is
replaced. `KV_LINE` masks what follows a secret's key only where the key stands first on
its line and no carriage return ends it; `FLAG_ARG` masks one word
(`connectors/pelican/index.ts:582-604`, "a heuristic by nature"). The property says what
must be masked within these limits, whatever the cut, and that nothing else is.

*What "ok" means* (`SuccessIsReal`). A restart that finds the server starting may see that
start end and take it for its own (`connectors/pelican/index.ts:2625`); a stop that the
agent carries out only after a restart it was busy with is taken for done in the middle
of that (both `SignalCarriedOut`). A download of unknown size that outlives the panel's
request is taken for whole once it has stood still (`index.ts:2119`; `PulledWhole`), which the
tool's answer says. Nobody else signals a server while a call waits for it, and one
download is under way at a time.

Of hazards a property covers only in part: a process that dies between a pause and the
record of its handle leaves monitors silent with nobody told
(`connectors/uptime-kuma/index.ts:442`). `PausedIsAccounted` covers failures that return
to the handler, also one in writing the handle as closed.

## 5. Proofs

`tlapm <M>Proofs.tla` checks them. Each holds for every value of the constants
under the named assumptions of its module. TLC checked each invariant first.

| Theorem (module) | States | Argument |
|---|---|---|
| `TypeCorrect` (`AtomicFileProofs`) | `TypeOK` | any number of writers |
| `NeverTruncatedByOne` | `NeverTruncated` for one writer | `IInv`: the temporary file is empty before the write, the whole datum after it, synced before the rename |
| `OneCallerImplementsDurableFile` | `ImplementsDurableFile` for one writer | each step maps to a step of the contract or a stutter, under the same `IInv` |
| `AnswersAreDurable`, `MemoryAgreesWithFile`, `DisabledIsDisabled`, `EnabledIsEnabled`, `FileAlwaysOpens`, `MemoryConsistent` (`BootstrapStoreProofs`) | `AckedDurable`, `SlotAgreesWithDisk`, `DisabledStaysDisabled`, `EnabledBootsUnlocked`, `Openable`, `TypeOK`, for one request at a time (`OneAtATime`), with reads that fail | `SerialInv`: what is being written is what memory holds; the unlock slot in memory is the file's, except while a change of it is not written yet, and then the file has the one it would go back to; what was acknowledged is in memory and in the file; while memory has a store made after a read error (`replacing`), the file still has the old one with all that was promised of it. The two files are `IInv` of `AtomicFile`, twice, and its proofs |
| `OpensWhateverOverlaps` | `Openable` for any number of requests that overlap, once there is a store (`StoreThere`) | `OverlapInv`: a store that is there, and that nobody initializes again where the disk may fail, has one data key, so everyone writes slots and payload under it, and whichever temporary content is renamed in the end opens; a file of the first version is there only until the one migration under way is written |
| `TypeCorrect` (`AttemptLimiterProofs`) | `TypeOK`: lockout lengths stay between base and cap, the map within its limit | evicting one makes room for one; doubling is capped |
| `LadderAlwaysResetsClean` | `LadderResetsClean` | quiet time counts from the last failure or the end of the lockout, and the reset time is at least the window, so the filter on the window leaves nothing |
| `GateInvariant`, `OnlyOneDerivation` | `OneDerivation` | whoever derives was let in under no lockout and the flag is theirs |
| `BurstsCannotOutrun` | `CountedOutsideLockout` | the one derivation under way is the only thing that can start a lockout, and a lockout that is over stays over (`ExpiryIsFinal`) |
| `BudgetInvariant`, `BudgetNeverExceeded` | `GlobalBudget`: one wrong code too many in a window, by all clients together, has a global lockout between | `BudgetInv`: bucket and history agree: the failures it holds are the last ones of the history, those it dropped have left the window or were spent on a lockout |
| `LockoutsEscalate` | `Escalates` | the same invariant: and what the bucket will ask for next is twice the last lockout or the cap, unless a quiet time can be pointed at in the history |
| `OneClaimAtATime` (`CredentialHandoffProofs`) | `ClaimsExclusive` | an outcome implies a claim that was kept; a submission at work has a link, and nobody else has it |
| `OutcomesAreFinal` | `OutcomesFinal` | the same invariant, per step |
| `OwnNamesStayUnique`, `OutcomesAreTrue`, `RefillsKeepTheRest` | `NamesUnique`, `DoneMeansStored`, `NothingTakenBack` where the links that create have names of their own (`OwnNames`); any number may re-fill one item | `ItemInv`: items differ in name and id, and each, as it is and as a submission about to write has read it, has in every field the latest value written to it, but for what was written since and is recorded in `missed` |
| `ConsentsHaveOneLineage` (`OAuthProofs`) | `OneLineage` | numbers are drawn once, and a lineage is in one place: the unused code, the call under way, or one refresh token |
| `RevocationIsComplete` | `RevokedForGood` | a row of a revoked family is never written again, also by a call that stopped and is replayed |
| `ConsentsStayUsedUp` | `UsedUpForGood` | a code that was used stays used whatever stops |
| `KeysAreKept` (`SkeletonsProofs`) | `KeyKept` | `KeyInv`: memory is never behind the file, a key on its way to the file is the one in memory, and a payload without one was sealed before there was any |
| `OneJobAtATime` | `RunningReported` | `RunInv`: a job at work is the running one and its report says so |
| `NoTargetLeftOut` | `EveryTargetTold` | `ListInv`: the entries are those of the first targets in order, and targets only grow at the end |
| `ListedSkeletonsAreWhole` | `ListedIsWhole` | `FileInv`: the files written so far are under the one key held; it needs `KeyInv` |
| `DoneIsListed` | `DoneMeansListed` | the report's counts are those of the list when the manifest was put together |
| `DownIsExplained` (`ServerProofs`) | `LockedIsExplained`, assuming `~ChangesOverlap` | `VaultInv`: what each request still has to do accounts for a vault that is down without a reason |
| `DeletionsAreHarmless` | `DeletionHarmless` | a deletion that goes on has looked at every target up to the one it stands at, and `calm` keeps what it saw true; no assumption |
| `NobodyIsForgotten` | `ToldOfTools`, assuming `~ChangesOverlap` | `ToldInv`: whoever wants to tell has risen, and an entry that knows too little is still going to be told |
| `BaseInvariant` (`ConnectorsProofs`; what the proofs speak of, the inductive invariants among it, is in `ConnectorsInvariants`) | `BaseInv`: the other system stays the one it is, and a call that was begun has arguments its schema accepts | what the ones below start from; any number of calls and edits, any of the systems |
| `KumaInvariant`, `PausedMonitorsAreTold` | `PausedIsAccounted` | `KumaInv`: for each monitor that is paused, who is about to resume it, or which answer, handle or request accounts for it, at each await of a session |
| `RestInvariant`, `DocumentsKeepTheRest` | `KeepsTheRest` | `Rest`: what each handler sent is what it had read last with what was asked put over it |
| `ForwardsInvariant`, `ForwardsAreScreened` | `ForwardsScreened` | a call past its first answer has passed the checks on the rule it is going to write |
| `StacksInvariant`, `OnlyTheNamedIsHit` | `OnlyWhatWasNamed` | what the handler compared is what is there, unless it was changed since it looked |
| `RealInvariant`, `SuccessCanBeReliedOn` | `SuccessIsReal` | `RealInv`, a conjunct for each tool that claims something: how far its work has come at each await; for a signal, which processes the server has been through and still will, from any state it was in |
| `ShownAsRead` | `ShownFaithfully`, for log streams, files and bodies of any length | the property is inductive once it is known what the reading of a stream, a file and a body computes (`LogsWhole`, `FileMasked`, `ReadWhole`), of which the first and the last are proved by induction over the length; that a frame cut out of a stream keeps its whole characters is part of the first |
| `RuntimeInvariant`, `RuntimeAlwaysFits` | `RuntimeFits` | `RuntimeInv`: what a handler found out about PHP and requirement stays true until its helper runs, whoever else is at work, or the state is `PatchedBack` or `SwitchedForAnother`; `SatisfiedIsAdmitted`: what the code's parser of constraints accepts, in each of its eleven kinds of token, the constraint admits |
| `ReadonlyOnlyReads` | a command line of any length that `checkReadonly` lets pass and that escapes no option, `OnlyReads` | by induction over the tokens: the splitter of the policy and the shell agree on quote and escape at each place (`QuotesMatch`), and as long as nothing was refused each program the shell has met so far stands first in a segment the policy has cut, with no redirection behind it and no option that stands open (`Vetted`) |
| `AllowedPathFiresNothing` | a path of any length that `isAllowedReadPath` lets through and that is `InStep`, not `FiresAutomation` | by induction over the segments: up to the last `..` the form of the list and that of the server are the same, and after it the server's form only gains segments the list dropped, so that a `webhook` served behind `api` is one the list has seen there (`Late`) |
| `UnaskedInvariant`, `NothingIsDoneUnasked` | `NothingUnasked` | `UnaskedInv`: a call that waits where it may still decline has touched nothing; one that declined has touched nothing, or its helper refused before its first step and will not take one; a call of a tool that reads touches nothing at all, unless its text is `Misread`; and the line of a target is one a caller may pass. The answer and the touched set are written in different steps, so the property alone does not survive a step of the handler in between. The two theorems above are what it needs of commands and paths, `RuntimeInv` what it needs of the helpers |

What is checked by TLC only: liveness (`CallsReturn`, `RequestsEnd`, `GateReopens`,
`ClaimsResolve`, `JobEnds`), which the provers at hand do not handle; and what the three
runs that expect a violation show. Every other property of a run is stated by a theorem,
some under the hypotheses that section 6 lists.

Induction over data needs a word, since the library's theorems for it take an operator
as a parameter, which the provers cannot instantiate. `LeastNumber` says instead that a
set of numbers that is not empty has a least one, and follows from the library's
`NatLessThanWellFounded` and `WFMin`; `UptoInduction` is induction for a set that holds
what is to be shown. A function that is defined recursively is a `CHOOSE` in TLA+, so
that it has to be shown to exist before anything follows from its definition:
`RecursionExists` does so for one that goes from place to place, `DescentExists` for one
that jumps ahead by what it reads, as the frames of a log stream do.

## 6. Assumptions

Cryptography is perfect and random values do not repeat. A `bw` command takes effect at
the instant its exit is handled; one that fails has changed nothing, except where a
module says so; the CLI's offline cache is in step with its server. In the hand-off
nobody edits the vault by hand meanwhile; in `Targets` anybody does, at any time.
SQLite statements are atomic and durable. In `Skeletons` an upsert reaches the
registry's file, and the store is unlocked again after a restart. In `OAuth` a call ends
or stops within one second. A clock does not go backwards. The gate of a request (bearer
token, setup complete, not locked) is passed in the request's first action, as the code
does before its first await.
The promises of `BootstrapStore` except `Openable` and `RequestsEnd` are stated for one
request at a time (overlapping ones are what `StoreRaces.cfg` has), and
`OpensWhateverOverlaps` for a store that is there, of the second version and not
initialized again if the disk may fail: an initialization after a read error, or a
migration that is tried again after its write failed, draws a second data key. `LockedIsExplained` and `ToldOfTools` are stated for one
change of the vault server at a time (several are what `ServerRaces.cfg` has);
`NamesUnique`, `DoneMeansStored` and `NothingTakenBack` where the links that create have
names of their own (others are what `handoff_duplicate` has);
`DeletionHarmless` for a vault that answers the call and a registry and vault nobody
changes while it runs.

The theorems about connectors assume of the systems that a call meets, besides that they
have the fields their handlers read: that no helper is at work on the panel's host when
the calls begin (`HostAssumption`); that the panel then runs on the PHP it is found
with, that command line and socket agree, that no release of the panel asks for an old
patch of a PHP and refuses the newest, which the code relies on as well where it lets a
patch update pass without a look at the requirement (`connectors/pelican/index.ts:2486`),
and that the numbers of a version stay below a hundred, so that the specification of
what a requirement admits may weigh them as one number (`RuntimeAssumption`);
that monitors have ids that can be ordered and that there is one (`KumaAssumption`);
that ids of rules are finitely many, denied ports are ports, and sizes and limits are
numbers (`UniFiAssumption`, `PanelAssumption`); that texts, log streams, the sizes of
chunks, command lines and paths are sequences, of any length (`PanelAssumption`,
`PortainerAssumption`, `HomeAssistantAssumption`, `SshAssumption`); and, so that values of
the model are told apart, that no answer is no value and no variable of an egg has the
name of an effect (`CallAssumption`, `PanelAssumption`).

## 7. Not modelled, and the plan

Not modelled: the HTTP connector and the tools that are one request each (nothing is
kept between two steps); network discovery; the audit log (one insert); page rendering
and form parsing; TLS certificate issuing, fingerprints and the public URL (wrappers of
libraries, checked once at boot); secret references and address ranges except as
connectors use them; `RequestLimiter`, `RefusalCoalescer` and the heartbeat; the
scoping checks of the wizard. Three hazards met on the way are in none of the modules:
two unlocks that write the bearer hash at once with a write that is not atomic
(`app.ts:104`; its failure is modelled, its overlap is not), `guardSetup` before the
handlers' awaits (`web/routes.ts:266`), and two writers of `targets.yaml` whose bytes
mix (`config/registry.ts:81`; the order of whole writes is modelled).

In order of importance:

1. Three calls on the panel's host as a run of its own, which ends in the state
   `PatchedBack` names.
2. `guardSetup` and the wizard's handlers as requests with their own awaits.
3. The offline cache of the CLI as a second copy of the vault, refreshed by `sync`.
4. The socket client of Uptime Kuma below the acknowledgement: ids, time-outs and late
   replies.
