# A TLA+ development of rvs

`rvs` is the Ravenstash command-line client: it logs a profile in with a
device code, keeps the resulting credential fresh, selects accounts and
artifact repositories, runs package tools (pip, npm, Maven, Docker, Helm, ...)
with short-lived tokens, installs runtimes and updates itself. Every command
is a short-lived process. There is no daemon except the encrypted vault's
agent; processes meet only in files, in the credential store and at the API.
What is hard about the program is exactly that: several processes, killed or
failing at any moment, sharing files with few locks, with a remote service
whose answers can be lost.

Paths below are relative to the repository root.

## 1. Inventory

| Component | Source | State | Operations | What makes it hard |
|---|---|---|---|---|
| Device credential lifecycle | `rvs/auth/credentials.py`, `refresh_operation.py`, `device.py` | two store entries (access token, refresh token), the pending-operation file, the lock file | get or refresh a token, log in, revoke, discard, delete | several processes, one advisory lock that login and logout do not take, kills between writes, lost answers |
| Auth commands | `rvs/auth/commands.py` | - | login, logout, status, profile use/delete/rename, storage setup | multi-step removal, best-effort revocation |
| Profile configuration | `rvs/config.py` | `config.toml`, session file | load, save, set, delete, select account/target | whole-file load-modify-save without a lock; four sources of precedence |
| HTTP client | `rvs/client.py`, `rvs/api.py` | the current token | request, retry, refresh on 401, mint, read a collection | which requests may be repeated; deadlines; pagination that must end |
| Registry discovery | `rvs/artifacts/meta.py`, `discovery.py` | endpoints in the profile | sync after login and refresh | runs outside the refresh lock, saves a whole profile |
| Vault and agent | `rvs/auth/vault.py` | encrypted file, agent process, socket | initialize, unlock, lock, get/set/delete, change passphrase | a forked server beside processes that rewrite its file and its socket |
| Plaintext and system stores | `rvs/auth/plaintext_store.py`, `stores.py` | one JSON file; keyring, pass | get, set, delete, preflight | unlocked read-modify-write |
| Portable update | `rvs/portable_update.py`, `installations.py`, `update_trust.py` | version directories, `current` link, receipts, manifest time, update lock | check, download, extract, activate, roll back, Windows helper | crashes and failures between renames |
| Update command | `rvs/update.py`, `apt_channels.py`, `status.py` | package-manager state | update, series migration | remove before install, restore that can fail |
| Targets and minting | `rvs/artifacts/targets.py`, `routing.py` | selected target in the profile | resolve, select, mint | a cached target that is stale at the service |
| Evidence intents | `rvs/artifacts/evidence_commands.py` | local files, remote intent | hash, stage, upload, complete, wait | files that change under it, deadlines |
| Artifact commands | `rvs/artifacts/commands.py`, `oci_commands.py`, ... | - | single API calls | - |
| Account selection | `rvs/account/` | account in session or profile | list, switch, match | precedence and ambiguity |
| Native and OCI runners | `rvs/native/`, `rvs/oci/` | temporary configuration, broker file | read the tool's line, mint, route, run the child, clean up | a grammar that is not rvs's; names that change; clean-up on every path; signals |
| Runtime installation | `rvs/runtime/` | installed trees, shims | download, extract, rename, select | two installers of one destination |
| Shell, output, publishing | `rvs/cli.py`, `output.py`, `publishing.py`, ... | - | parse, render, check a package | - |
| Packaging | `packaging/`, `.github/` | - | build and sign | not part of the running program |

How they interact: a command asks the HTTP client for a profile's token; the
client asks the credential lifecycle, which reads the configuration and the
store, may refresh at the API, writes store and configuration, and then has
discovery rewrite the profile. Minting, evidence, accounts and runners are
clients of the HTTP client. The updater is independent of all that.

What correctness means, per component:

- *Credential lifecycle*: no kill, failure, lost answer or concurrent command
  strands a session the service still serves; no refresh token is spent under
  two operations; a token goes only to its issuer; the lock is exclusive and
  always given back; every command ends.
- *Configuration*: a change of one field survives a concurrent change of
  another; the credential metadata describes the stored credential.
- *HTTP client*: a mutation is sent at most once more, and only after a 401;
  retries and waits are bounded; pagination ends and returns what was asked.
- *Vault and plaintext store*: a stored secret is not lost and stays readable
  with the current passphrase; a started agent is reachable.
- *Portable update*: `current` always names a whole version that passed its
  smoke test; a rollback leaves everything as it was found; an update never
  replaces a release by an older one.
- *Update command*: a migration ends with the new or the old series, or says
  that neither is installed.
- *Minting and evidence*: what is minted or uploaded is what the user selected
  and what was hashed.
- *Runners*: a tool gets the rights its command needs for the repository the
  user was shown, works with that repository, and its temporary secrets are
  removed on every path.
- *Runtimes*: an installed tree is complete, and what is looked up is installed.

The hazards, each at its line with the properties that watch it, are in
`PROJECT.json`.

## 2. Plan

Order of work, most important behaviour first. Items marked (done) exist.

1. (done) `AuthServer`, `DeviceSession`: the credential lifecycle; abstract
   specification `RotationChain`, refinement `SessionAsChain`, invariant
   `DeviceSessionInv`, proofs `DeviceSession_proofs`.
2. (done) `PortableUpdate`: the lock, activation, rollback and kills on POSIX
   systems, with its proofs.
3. (done) `VaultAgent`: agent, socket, file, passphrase change.
4. (done) `Profiles`: concurrent load-modify-save of the configuration, the
   shells' sessions, login, logout, profile, account and target commands.
5. (done) `Commands`, which composes one command of each remaining kind:
   `ApiRequest`, `Listing`, `DevicePoll`, `Evidence`; `ToolRun` on
   `ToolArguments`, `NativeRouting` and `OciReferences`; `ManagedUpdate`,
   `WindowsUpdate` and `ReleaseChoice`; `RuntimeInstall`; `CredentialStores`.
6. (done) Proofs: the safety of `DeviceSession`, its refinement, that of
   `PortableUpdate`, and the safety of every part of `Commands` but the
   reading of a tool's line.
7. (done) Proofs: the invariants of `VaultAgent`; the invariants and the action
   properties of `Profiles`; the journal of `DeviceSession`; the types of
   `Commands`.
8. (done) Abstract specifications, checked and proved to be implemented:
   `SecretRegisters`, one register per account, for `VaultAgent` while it is
   undisturbed, and `VersionSwitch` for `PortableUpdate`.

## 3. The modules

| Module | Role |
|---|---|
| `AuthServer` | The API routes `auth/device/{token,refresh,revoke}` as rvs uses them. External: the service is not in this repository. |
| `DeviceSession` | One profile and the processes that use it: the component itself and its properties. |
| `RotationChain` | Abstract specification: what the refresh protocol promises about one session. |
| `SessionAsChain` | The refinement mapping from `DeviceSession` to `RotationChain`. |
| `DeviceSessionInv` | The inductive invariant `IInv`, in named parts. |
| `DeviceSession_proofs` | The theorems about it and their proofs, and that it implements `RotationChain`. |
| `MCDeviceSession` | Values of `Issuer` and the symmetry for TLC. |
| `PortableUpdate` | Updating a portable installation on POSIX systems. |
| `VersionSwitch`, `UpdateAsSwitch` | Abstract specification: what updates promise about the active version; the refinement mapping. |
| `PortableUpdateInv` | Its inductive invariant `UpdateInv`, in named parts. |
| `PortableUpdate_proofs` | The theorems and their proofs. |
| `MCPortableUpdate` | The symmetry for TLC. |
| `VaultAgent`, `MCVaultAgent` | The encrypted vault, its agent and their clients. |
| `SecretRegisters`, `VaultAsRegisters` | Abstract specification: the vault as one register per account; the refinement mapping. |
| `VaultAgentInv`, `VaultAgent_proofs` | Its inductive invariant `VaultInv`, in named parts; the theorems and their proofs. |
| `Profiles`, `MCProfiles` | Configuration file, sessions and stores under the commands of several shells. |
| `ProfilesInv`, `Profiles_proofs` | Its inductive invariant `ProfilesInv`, in named parts; the theorems and their proofs. |
| `ApiRequest` | One request of the API client, with refresh, repetition and minting. |
| `Listing` | Reading a collection page by page. |
| `DevicePoll` | The wait for the approval of a login. |
| `Evidence` | Hashing, declaring, uploading and completing files. |
| `ToolRun` | One run of a wrapped package tool. |
| `ToolArguments`, `NativeRouting`, `OciReferences` | What a run reads from the tool's line, which registry the tool then uses, and what an OCI line may refer to. Pure operators. |
| `ReleaseChoice` | From the signed manifest to the release and its archive. |
| `ManagedUpdate`, `WindowsUpdate` | Carrying an update out through a package manager, and on Windows. |
| `RuntimeInstall` | Installing, removing and finding runtimes. |
| `CredentialStores` | The stores behind a login, their probe and their entries. |
| `Commands`, `MCCommands` | One command of the kinds above at a time; the values for TLC. |
| `ServiceCommands_proofs` | Theorems about requests, listings, the wait for a login, evidence and the stores. |
| `ToolRun_proofs` | Theorems about a tool's run. |
| `PackageCommands_proofs` | Theorems about updates through a manager, on Windows, runtimes, and the release taken. |
| `Commands_proofs` | That they hold of the composition. |

### AuthServer

A session is a chain of credential pairs, numbered from 0; `[sess, gen]`
stands for an access token and the refresh token issued with it. A refresh
with the newest token (`Rotates`) moves the chain on; a repetition of the
*same operation* with the token just retired (`Replays`) gets the same pair
again; anything else is refused. That is the contract the code relies on ("The
operation ID makes a resent refresh safe after 429 or 503",
`rvs/auth/credentials.py:541`) and its tests exercise. Operation IDs are
`uuid4` values in the code and a counter here: both never repeat. The service
may end any session at any time (`EndSession`): expiry, revocation in the web
interface, or asking for a new sign-in.

### DeviceSession

| Variable | In the code |
|---|---|
| `access`, `refresh` | the entries `<profile>` and `<profile>:refresh` of the credential store |
| `cfg` | the profile in `config.toml`: `api` is `api_url`; `meta` is the pair for which `credential_type`, `credential_api_url` and the expiry times were written |
| `pending` | `.refresh-<digest>.pending.json`: operation ID and digest of the refresh token |
| `lock` | who holds `.refresh-<digest>.lock` |
| `sent` | refresh requests on the wire; never removed, since a request may arrive late or more than once |
| `lastOp` | the `uuid4` source |
| `started` | bound only: commands begun and configuration edits |
| `cmd[p]` | program counter and locals of process `p` |

Each action is one store, file or network operation, so that another process
can run, or the process can be killed (`Crash`), between any two.

| Actions | Code |
|---|---|
| `BeginRefresh`, `BeginRequest`, `ReadInitial` | `get_token`, `ApiClient._refresh`, and the read before the lock |
| `Acquire` ... `ClaimOperation`, `ClaimFails` | `refresh_expiring_credential` up to the durable operation ID, `pending_refresh_operation` |
| `Send`, `AnsweredBusy`, `Unanswered`, `AnsweredPair`, `AnsweredUnusable`, `AnsweredDenied` | the request under `retry_rate_limited` and the outcomes the code tells apart |
| `StoreRefresh`, `StoreAccess`, `LoadMeta`, `SaveMeta`, `Settle`, `StoreFails` | the four durable writes and the one handler of their failures |
| `Release`, `SkipSync`, `LoadSync`, `SaveSync` | end of the lock and `sync_native_registries` |
| `Discard`, `DeleteAccess`, `DeleteRefresh`, `LoadClear`, `SaveClear`, `DropClaim` | `discard_device_refresh_token`, `delete_token_from_store`, `clear_profile_credential_metadata`, on behalf of a refresh, a login or a logout |
| `BeginLogin`, `Approved`, `NotApproved`, `LoginAccess`, `LoginRefresh`, `LoginMeta`, `LoginStoreFails`, `RevokePrevious` | `perform_device_login`, `_store_expiring_credential` |
| `BeginLogout`, `RevokeStored` | `logout`, `_revoke_server_session`, `revoke_stored_refresh_token` |
| `ArriveLate`, `ServerEnds`, `EditApi` | the environment: the network, the service, the user's editor |

Simplifications, and what they leave out:

- Reads of an entry may answer nothing (`Reads`), writes may fail, deletes may
  silently do nothing (`Deletes`); a store never returns a wrong value and a
  single write is atomic. All of a profile's commands use one store.
- Expiry times are not modelled: a refresh may begin at any time, the service
  may end a session at any time, and a refresh token may be taken for expired
  by login and logout at any time.
- `BeginLogin` and `BeginLogout` take the profile and the refresh token in one
  step although the code reads them one after the other.
- The device-code polling loop is one step, `Approved` or `NotApproved`.
- A request answers out of the state of the service at the moment the answer
  is taken; the interval between is covered by `ArriveLate`, which may let the
  request take effect before, after or without an answer.
- An exception that is not caught (an undecodable success body, a failing
  `config.toml`, a keyboard interrupt) ends the process like a kill does: it is
  `Crash`. The operating system releases the lock of a dead process.

### RotationChain

One session with no processes, files or messages: `head` is the service's
newest pair, `held` the holder's, `claimed` whether the move past `held` is
durably recorded. The service advances past a held token only if the move is
claimed; a claim is dropped only when it is not needed. `SessionAsChain` maps
`held` to the stored refresh token when it is of the watched session and
`claimed` to "the pending-operation file is for that very token".

### PortableUpdate

| Variable | In the code |
|---|---|
| `dir` | the version directories under the install root; `partial` while `shutil.move` copies, or when `rmtree` left something |
| `current` | the version the link `current` names |
| `link` | the three commands of the bin directory: absent, a link, or a file of the user |
| `lock` | who holds `.update.lock` |
| `cmd[p]` | program counter and locals of `_portable_update` and `activate_posix` |
| `passed`, `found` | history: versions that passed `_smoke`; what the lock holder found |
| `started` | bound only |

| Actions | Code |
|---|---|
| `Start`, `Stop` | `_portable_update` up to the confirmation: which release, and whether it is newer than the one that runs |
| `Acquire`, `Release` | `update_lock` |
| `Download`, `PlacingFails` | `download_release`, `extract_release`, the checks and the move before the `try` of `activate_posix` |
| `MoveBegins`, `MoveEnds` | `shutil.move`, which copies when the temporary directory is on another file system |
| `Smoke`, `ReadOld`, `Switch`, `Relink`, `FinalSmoke` | the body of the `try` |
| `ActivationFails`, `RestoreCurrent`, `RestoreLink`, `RollbackFails`, `Remove` | its `except` |
| `Crash` | a kill or a keyboard interrupt, which the `except Exception` does not catch |

Simplifications: the installed version's directory and the bin directory are
changed by updates only; `current` is a link that exists; a release that passed
its check keeps passing it; the manifest, `--to` and `--candidate` together
choose any release newer than the running one; receipts and stray temporary
links are left out.

### VersionSwitch

An update with no processes, lock or links: the active version, the versions
found good, and the one an unsettled switch would return to (`back`). A switch
begins only when none is unsettled and goes to a good version; it is settled,
or undone by returning to that version and no other; what is active and what can
be returned to is never discarded. `UpdateAsSwitch` maps `good` to the version
directories that are whole and have passed `_smoke`, and `back` to what the
update that has replaced `current`, and has neither finished nor been killed,
read from the link before.

### VaultAgent

| Variable | In the code |
|---|---|
| `file` | `credentials.vault`: the key it is sealed with and its entries |
| `path` | the process whose socket has the path, dead or alive |
| `agent[a]` | a forked agent: where it is, its key, the connections waiting, the copy it is about to write |
| `client[c]` | a command: where it is, its request, the key it derived |
| `newest`, `may`, `disturbed` | history: the key last written by a set-up or a change; what each account may be left with; whether something below the promises has happened |

| Actions | Code |
|---|---|
| `Begin`, `Connect`, `Unanswered` | `_request_with_unlock`, `_request`: one prompt when no agent answers, five seconds for an answer |
| `Check`, `Derive`, `Ping`, `Fork`, `Poll` | `agent_running`, `unlock`, `_start_agent` |
| `ChangeRead`, `ChangeWrite`, `SetupWrite` | `change_passphrase`, `initialize`, which write the file themselves |
| `Bind`, `Handle`, `Write`, `Reply`, `Expire`, `Finish` | `_serve`, `_handle_request`: the request, the file's replacement and the answer are three steps, and the agent may be killed between them |
| `KillAgent`, `KillClient` | the environment |

The cryptography is a key that opens what it has sealed; a passphrase with its
salt is a key. Bind, unlink and the broken pipe are modelled as the operating
system does them, and this is where the agent's promises have their limits:

- two commands that start an agent at once can each find none, unlink the path
  and fork (`vault.py:403-410`); the first agent then keeps the key, out of
  reach of `lock`, until it expires;
- a set that the agent carries out between the read and the write of
  `change_passphrase` is lost, or, if the agent writes last, brings the old
  passphrase back (`vault.py:125`); a change that reads the file while an agent is
  in the middle of an update counts as this, too;
- an agent that ends unlinks the path whoever owns it by then (`vault.py:443`);
- a client that stops waiting makes the agent fail when it answers, and end.

The properties are therefore about histories in which none of this has
happened (`~disturbed`); kills of clients and agents, locks, expiries and
failing writes do not count as disturbance.

### SecretRegisters

The vault with no files, sockets, keys or agents: one register per account and
what is known about it (`possible`). A client asks for an update (`Ask`); it is
put into the register (`Land`) before its client learns of it, which it may never
do, and is acknowledged only while the register holds it (`Acknowledge`). An
update whose client has given up (`GiveUp`) is `adrift`, unless it has landed: at
most one of those takes effect, and whoever served it serves nothing more
(`TakeEffect`: the agent fails when it answers nobody, and ends); a lock or the end
of an agent forgets them (`Forget`), and so does a new passphrase (`Rekey`), after
which no agent with the old key can open the file. Nothing else changes a
register. `VaultAsRegisters` maps `secret` to the entries of the file, `asking` to
the clients' commands, and `adrift` to the requests without a client in the queue
of an agent whose key opens the file and which has not carried one out for nobody
already. Once the vault is disturbed, everything is allowed (`Disturbed`).

### Profiles

| Variable | In the code |
|---|---|
| `cfg` | `config.toml`: default profile, configured store, and per profile its store, its user, the active account, the API URL and the target selected per account |
| `session[s]` | the session file of an integrated shell |
| `held` | which store has a credential of which profile |
| `client[s]` | the steps the shell's command still has to do, and the configuration it has loaded |
| `raced`, `unsettled` | history: a save replaced a change it had not seen, or took a profile from a running command; profiles whose credentials a kill or an overlap may have left elsewhere |

A command is a sequence of named steps (`Login`, `Logout`, `DeleteProfile`,
`DeleteAll`, `Rename`, `UseProfile`, `SwitchAccount`, `SelectTarget`,
`StorageSet`). `Load` and `Save` are `config.load` and `config.save`, between
which another shell's command may save; `Changed` says what each setter does;
`SaveSession`, `Hold` and `Drop` are the session file and the stores. A
command that is killed leaves the rest undone. `Login` records the API URL its
hidden option `--api-url` gives, or the profile's own.

Seen while modelling, and part of the model: a login to another store leaves
the entry in the old one; a one-off command with `RVS_ACCOUNT_REF` and an
account that is not cached yet makes that account the active one, and in an
integrated shell with `--profile` also switches the session to that profile
(`account/commands.py:211-216`, `config.py:1147-1159`); `profile use` checks
the name in one load and saves another. Two saves that overlap lose one of the
changes: there is no lock, and `raced` marks it.

### Commands and its parts

`Commands` runs one command of one kind in a behaviour, except that stores,
checks for updates and runtimes have two processes. The kinds share no state
of rvs but what the other modules cover (`Profiles`, `DeviceSession`), so that
running two kinds side by side would multiply states and show nothing new.

| Module | State | Its actions are |
|---|---|---|
| `ApiRequest` | the request, its attempts, what the service applied | `ApiClient._request`, `_refresh`, `issue_native`. A change may be applied although its answer is lost or is a gateway's error |
| `Listing` | cursor, items, cursors seen | `collection_page`, `read_collection`, `collection_all`, against an honest service and against any other |
| `DevicePoll` | clock, interval, deadline | the loop of `perform_device_login`: `slow_down`, `Retry-After`, the deadline; a request takes up to the client's 15 s, and the service decides its answer at some moment of that |
| `Evidence` | files on disk, what was hashed, what the service stored | `_hash_file`, `_require_unchanged`, `_upload_evidence`, `_wait`, beside a program that edits the files |
| `ToolRun` | the service's names, the selected target, the run, its files and its child | resolve, mint under `expected_target`, check references, confirm, write, tag, launch, wait, clean up; signals, renames and selections in between |
| `ReleaseChoice` | accepted manifest time, checks, the choice | the fetch and its freshness test, `_requested_target`, download against the inventory, unpacking |
| `ManagedUpdate` | the installed package | `update`, `_update_series`, `_replace_managed_series`, `_replace_nix_profile`, `_restore_apt_version`; a failing step of a manager leaves the package there or not, and Homebrew and WinGet, told only the series, may install any release of it |
| `WindowsUpdate` | `bin`, staged and previous directories, the pending mark | `stage_windows` and the helper's script, each move of it a step; a failing stage and its `except` may leave what they could not remove |
| `RuntimeInstall` | a directory per version, the temporary directories | install, `--force`, uninstall, which, for any version asked for, the empty one included; two at a time |
| `CredentialStores` | entries per store | the preflight's probe, the choice of a store, set and delete; the plaintext file as its read and its replacement |

`ToolArguments` builds lines of each tool from words, and from options wherever the
tool takes them, whose meaning is known, and compares what rvs reads from them
with it: the rights to mint, the
npm host, whether to ask, the files a preview names. `NativeRouting` adds which
registry the tool ends up using when the line or the user's Maven settings name
another one, and `OciReferences` which repositories an OCI line may name.
`ToolRun` carries such a line through the run.

What the modules leave open because the code does:

- Minting: a 502 on a successful mint, like a gateway's error, is retried, so up
  to three tokens can be minted; a mint never refreshes after a 401.
- Lines: three kinds are built and named as misread (`Misread`): an npm option with
  a value that rvs does not list hides the command (`npm --omit publish install`)
  or shifts the words of a change of a tag; so does a uv option before the command
  (`uv --cache-dir publish add pkg`); and an option between the words of a docker or
  oras command hides it (`docker buildx --builder x build --push` is read as
  read-only). uv, mvn and twine are read generously (`uv add publish` asks for the
  right to publish); pip keeps its own `--index-url` when an option stands before
  the command; a Maven mirror for one repository alone, listed behind one for
  everything, loses to it once rvs has rewritten the list.
- OCI references: an issued path of another repository that does not look like a
  root, and a host spelled in another case, are not refused by rvs. The service
  still is: the token is of the target only.
- Signals: SIGTERM and SIGHUP outside the window in which the OCI runner
  forwards them, and SIGKILL anywhere, leave the credential files.
- `ManagedUpdate`: an upgrade by another program between rvs's refresh and its
  install can be undone by `_restore_apt_version`; a plain APT update, a
  candidate and an upgrade within a series restore nothing when they fail; with
  Homebrew and WinGet the release installed or restored may be another one of the
  series than was shown or found; a removal that fails is not undone, whatever it
  has removed.
- `WindowsUpdate`: rvs killed between the mark and the start of the helper, a
  killed helper, or a mark that cannot be removed leaves the pending mark, which
  refuses later updates; a bundle that could not be staged may leave its directory.
- `RuntimeInstall`: a directory half removed is taken for an installed version.
  `uninstall` and `install --force` of an empty version take the last directory
  listed, which is the temporary directory of an install at work, if there is one:
  the install then fails, or moves what is left of the archive into place.
- `CredentialStores`: a logout passes over a store whose delete fails; two
  processes that change the plaintext file at once lose an entry.
- `ReleaseChoice`: two checks at once can move the remembered time back; a file
  with that time that cannot be read, or holds something else, counts as none, so
  that an older manifest is accepted and remembered; an update to a candidate is not bound to a channel.

## 4. What is model-checked

| Run | Bounds | Checks | States, about |
|---|---|---|---|
| `refresh` | one session, 4 refreshes or requests | `TypeOK`, `NoClaimMeansWholePair`, `ImplementsRotationChain` | 190 000 |
| `sessions` | two sessions of one deployment, 3 commands out of refresh, login, logout | `OneOperationPerToken`, `Recoverable`, `AccessNotAhead` | 1.9 million |
| `sessions_end` | one session, two deployments to point at, all commands, 2 commands or edits | `IInv`, `CommandsEnd` | 39 000 |
| `stale_token` | one session, 2 refreshes | `NeverReturnsStale`: violated | stops early |
| `two_deployments` | two sessions of two deployments, 2 commands | `SentToIssuerOnly`: violated | stops early |
| `update` | three releases, 3 updates | `TypeOK`, `ActiveRuns`, `FailureRestores`, `ImplementsVersionSwitch` | 64 000 |
| `downgrade` | three releases, 2 updates | `SwitchesUp`: violated | stops early |
| `vault` | two clients, two agents, one account, 2 commands, 1 kill | `TypeOK`, `OneAgent`, `KeepsAcknowledged`, `PassphraseSticks`, `AgentOpens`, `CommandsEnd`, `ImplementsRegisters` | 670 000 |
| `profiles` | two shells (one integrated), two profiles, accounts and stores, 2 commands, 1 kill | `TypeOK`, `DefaultKnown`, `Paired`, `SelectionSurvives`, `ShellsApart`, `ApiUrlStays` | 1.4 million |
| `rename_leaves` | one shell, two stores, 1 command | `SignOutRemoves`: violated | stops early |
| `commands` | one command of every kind; see below | `TypeOK`, the thirteen properties of its parts, `CommandsEnd` | 272 000 |
| `find_runtime` | as `commands` | `FindsInstalled`: violated | stops early |

The credential lifecycle (`DeviceSession`):

- `OneOperationPerToken`: while its session lives, a refresh token is sent
  under one operation ID only.
- `Recoverable`: the stored refresh token of a live session is the newest, or
  the one before it with the operation on file that the service answers again.
- `AccessNotAhead`: of one session, the access token is never newer than the
  refresh token, which is what the order of the two writes is for.
- `NoClaimMeansWholePair`: among refreshes, if there is no pending-operation
  file, the stored tokens of a live session are one pair. (With logins this does
  not hold, and the code does not claim it: a login stores the access token
  first. Nor is there always metadata for the pair: discovery, which saves the
  whole profile without the lock, can bring back one that was loaded after
  another process had cleared it. That takes a third process, so the runs with
  two did not show it; the proof did.)
- `ImplementsRotationChain`: the refinement above.
- `CommandsEnd`: every command ends.

Portable updates (`PortableUpdate`):

- `ActiveRuns`: the active version is whole and has passed its health check,
  wherever an update is killed or fails, its rollback included.
- `FailureRestores`: when a rollback comes to removing the new version, the
  active version and all three commands are as its update found them. (Short of
  an error in the rollback itself, which leaves the rest of it undone; even then
  `ActiveRuns` holds.)
- `ImplementsVersionSwitch`: the refinement above.
- `SwitchesUp`: an update never replaces the active release by an older one.

The vault (`VaultAgent`), while undisturbed:

- `OneAgent`: no second process has the vault's key.
- `KeepsAcknowledged`: a secret whose storing or removal was acknowledged stays
  so until a later update, through locks, kills, expiries and new passphrases.
- `PassphraseSticks`: the file is sealed with the passphrase last set.
- `AgentOpens`: once a change has ended, the agent that answers opens the file.
- `ImplementsRegisters`: the refinement above, disturbed or not: disturbance is
  a step of `SecretRegisters`.
- `CommandsEnd`: every command ends, even if an agent stalls.

Profiles (`Profiles`), while no saves raced:

- `DefaultKnown`: the default profile is saved, or is the one called `default`.
- `Paired`: a settled profile has its credential in exactly the store it names,
  and a profile that is signed out or gone has none.
- `SelectionSurvives`: a selected target changes only when a command selects or
  clears that very target, or removes or renames profiles.
- `ShellsApart`: what an integrated shell switches leaves the profile and the
  account that apply in other shells.
- `ApiUrlStays`: the API URL of a profile that is signed in changes only by a login
  that was given another one.

The parts of `Commands`:

- `SentSafely`: a change is applied at most once and sent at most twice; reads
  and minting attempts are bounded, and none starts after the deadline.
- `ListingExact`: a listing returns what the collection has, without gaps,
  repetitions or excess, and its cursor continues there.
- `PollsOnTime`: no poll is early or late, and an approval is missed only when it
  came no longer before the deadline than the last request and the interval took,
  or the service answered that request that it was busy.
- `StoredAsDeclared`: a completed entry has the bytes its digest declares.
- `WorksOnShown`: a tool works only on the repository that had the resolved name
  when its token was minted and that the user has confirmed.
- `CredentialsWithRun`: credential files exist while the tool runs and are gone
  when the run has ended in any way but a kill.
- `ArgumentsUnderstood`: of the lines built, rvs understands all but those of the
  three kinds above; whatever it understands, the tool uses the target, but for
  the exceptions of pip and Maven above.
- `ReleaseChosen`, `ManifestsFresh`: the release taken is newer and the one
  asked for, its archive the right one; no expired manifest is used, and no older
  one unless checks overlapped or the remembered time could not be read or written.
- `ManagedKept`: when the manager did its part, the release agreed to is installed,
  and when it could not install it, a migration has restored the one it found - with
  Homebrew and WinGet, a release of that series; nothing older is left but by such
  a restoration, one that fails or a kill.
- `WindowsKept`: there is always something to go back to, and an update that was not
  killed, and could undo what it had done, leaves a version that starts and nothing
  that blocks the next update.
- `RuntimesWhole`: a version's directory is whole unless a removal is in it, was cut
  off in it, or was in the archive it came from; a temporary directory has a running
  command or one that was killed; and no command that names a version takes a
  temporary directory for one.
- `EntriesKept`: a stored credential is there and a deleted one is not, whatever
  is done to other entries of the store; no probe outlives its command.
- `CommandsEnd`: every command comes to rest by itself; it may wait for its
  user or for a tool.

Bounds. There are two processes everywhere: the code has no operation that
involves three parties beside the service, and a third process only adds
waiters. `MaxCommands` counts the commands begun in a behaviour. Four refreshes
let one be killed after the service rotated, a second one repeat it, a third be
overtaken while it waits, and a late request of the first arrive afterwards;
three commands with two sessions let a login and a logout surround a refresh.
`MaxSends = 3` is the code's own number of attempts. Generations and operation
IDs grow only with commands, so no other bound is needed. `MaxUpdates = 3` lets
one update succeed, one be killed and one roll back, in any order; three
releases are the fewest with which an older target is not the installed one.

In `vault`, two commands and one kill suffice for a start beside another start,
an orphan and its successor, and a change of the passphrase beside a set; an
agent identity is free again once it is gone and its socket path is cleared. In
`profiles`, a second command runs at any point of the first, or after its kill;
it starts with no, one or two profiles of users that are signed in, or with a
configuration that cannot be loaded. In `commands`, `Size`, `PageLimit` and
`MaxPages` let a listing need three pages and let an honest service reach the
page limit; `RetryAfter` has two values within the code's limit and one beyond it;
`Expires = 14` is several intervals and a rest, and requests take 0, 1, 3
or 15 seconds: none, less and more than an interval, and past the deadline; one rename (`MaxChanges`) may
exchange both names of two repositories; three runtimes are two lines of which
one has two versions; four manifests are the first release, a second minor
line, a new major version that ends the support of the old one, and an invalid
one; `MaxDay = 4` lets the first two expire; three runtime commands and three checks let
two overlap and a third find what they left.

Deadlock checking is off because the system may stop: nobody has to start
another command.

Fairness. `DeviceSession`'s `FairSpec` has weak fairness of `Run(p)`, the steps
of a running command: the operating system schedules running processes, every
HTTP request has a timeout of 15 s (5 to 15 s for discovery), retries end after
three attempts, and the poll loop has a deadline (`device.py:259`). Nothing is
assumed of users, of kills, or of the service. Weak fairness is enough for the
blocking lock because a waiter can be passed only by a command that has begun,
and there are finitely many of those; the run does not show freedom from
starvation under an endless stream of commands, which `flock` does not promise
either. `VaultAgent` assumes the same of its clients and nothing of the agents,
which may stall; `Commands` of `Step`, what rvs does by itself, and nothing of
users, tools, signals and other programs. A service that never answers is
covered by the time limits, each of which is a step.

### What the violations show

- `stale_token`: two refreshes start with the same pair. The first rotates,
  stores the new refresh token and is killed before the access token. The
  second, waiting for the lock, sees a changed refresh token, concludes that
  the pair is fresh (`credentials.py:508-517`) and returns the old access token,
  the one its caller had just declared stale. The session is not lost: the next
  refresh recovers it. A single command fails with a 401 it need not have had.
- `two_deployments`: the origin check at `credentials.py:497` uses the
  profile's metadata; the token it protects is read after it from the store. A
  login at another deployment writes the tokens before the metadata
  (`device.py:117-131`) and takes no lock, so a refresh in between, or after a
  login killed in between, sends the new refresh token to the old API.
- `downgrade`: two processes of release 1 start. One is asked to confirm
  release 2 and waits at the prompt; the other installs release 3 (or is killed
  after its switch). The first then takes the free lock and switches `current`
  from 3 back to 2: the comparison at `update.py:372` was made before the
  prompt and is not repeated under the lock.
- `rename_leaves`: a profile with its credential in the plaintext store is
  renamed. The configuration is saved without the old name, and then the old
  name's credential is deleted: its store is looked up under a name that has
  gone (`auth/commands.py:719-724`), so only the stores that are used without
  being named are tried, and the plaintext entry stays.
- `find_runtime`: while an archive is unpacked, or after an install was killed,
  `rvs runtime which python` and shims without a version find the temporary
  directory: it is listed beside the versions (`python.py:139-147`,
  `_install.py:153`; `node.py` and `java.py` do the same) and sorts last.

All are quoted in `PROJECT.json` under `findings`.

## 5. What is proved

The modules whose names end in `_proofs` are checked by the TLA+ proof system:
what they state holds for every number of processes, sessions, deployments,
commands, releases, updates, files and repositories, for any clock values, and
for any set of lines, not only for the instances TLC has enumerated.

| Theorem | States |
|---|---|
| `TypeCorrect` | `Spec => []TypeOK` |
| `LocalsCorrect` | `Spec => []LocalsOK`: each step of a command has the locals it uses |
| `LockExclusive` | `Spec => []LockHeld`: whoever is in the locked part holds the lock |
| `ChainCorrect` | with `OneDeployment`, `Spec => []IInv` |
| `OneOperation` | with `OneDeployment`, `Spec => []OneOperationPerToken` |
| `NeverStranded` | with `OneDeployment`, `Spec => []Recoverable` |
| `AccessBehind` | `Spec => []AccessNotAhead`, for any deployments |
| `NoClaimWholePair` | with `OneDeployment` and `RefreshesOnly`, `Spec => []NoClaimMeansWholePair` |
| `Implements` | with `OneDeployment`, `Spec => ImplementsRotationChain` |
| `TypeCorrect` | of `PortableUpdate`, `Spec => []TypeOK` |
| `UpdateCorrect` | of `PortableUpdate`, `Spec => []UpdateInv` |
| `AlwaysRuns` | of `PortableUpdate`, `Spec => []ActiveRuns` |
| `RollbackRestores` | of `PortableUpdate`, `Spec => []FailureRestores` |
| `UpdateImplementsSwitch` | of `PortableUpdate`, `Spec => ImplementsVersionSwitch` |
| `RollbackHasWayBack` | of `PortableUpdate`, `Spec => []Switching!StaysGood`: what is active is good, and so is the other version that an unsettled switch returns to |
| `VaultCorrect` | of `VaultAgent`, `Spec => []VaultInv` |
| `TypeCorrect` | of `VaultAgent`, `Spec => []TypeOK` |
| `OneAgentOnly` | of `VaultAgent`, `Spec => []OneAgent` |
| `AcknowledgedKept` | of `VaultAgent`, `Spec => []KeepsAcknowledged` |
| `PassphraseKept` | of `VaultAgent`, `Spec => []PassphraseSticks` |
| `ServingAgentOpens` | of `VaultAgent`, `Spec => []AgentOpens` |
| `VaultImplementsRegisters` | of `VaultAgent`, `Spec => ImplementsRegisters` |
| `RegistersKeep` | of `SecretRegisters` under the mapping, `Registers!Spec => []Registers!Kept`: a register holds what was acknowledged last or asked for since |
| `ProfilesCorrect` | of `Profiles`, `Spec => []ProfilesInv` |
| `TypeCorrect` | of `Profiles`, `Spec => []TypeOK` |
| `DefaultStaysKnown` | of `Profiles`, `Spec => []DefaultKnown` |
| `CredentialsPaired` | of `Profiles`, `Spec => []Paired` |
| `SessionsOwnAccounts` | of `Profiles`, `Spec => []SessionOwnsAccount` |
| `ApiUrlKept` | of `Profiles`, `Spec => ApiUrlStays`, an action property |
| `SelectionsSurvive` | of `Profiles`, `Spec => SelectionSurvives`, an action property |
| `ShellsStayApart` | of `Profiles`, `Spec => ShellsApart`, an action property |
| `SendsSafely` | `RequestSpec => []SentSafely` |
| `PollsInTime` | `PollSpec => []PollsOnTime` |
| `StoresAsDeclared` | `EvidenceSpec => []StoredAsDeclared` |
| `ToolCorrect` | `ToolSpec => []ToolInv` |
| `ToolWorksOnShown` | `ToolSpec => []WorksOnShown` |
| `ToolCredentials` | `ToolSpec => []CredentialsWithRun` |
| `ManagedStaysKept` | `ManagedSpec => []ManagedKept` |
| `WindowsStaysKept` | `WindowsSpec => []WindowsKept` |
| `RuntimesStayWhole` | `RuntimeSpec => []RuntimesWhole` |
| `ListsExactly` | `ListingSpec => []ListingExact` |
| `ManifestsStayFresh` | `ReleaseSpec => []ManifestsFresh` |
| `TakesChosen` | `ReleaseSpec => []ReleaseChosen` |
| `StoresKeepEntries` | `StoresSpec => []EntriesKept` |
| `CommandsCorrect` | of `Commands`, `Spec` implies the twelve properties above of its parts |
| `TypeCorrect` | of `Commands`, `Spec => []TypeOK` |

Assumptions: those the modules declare on their constants, which TLC evaluates
in every run. Most say that a value for "none" is not one of the values it
stands beside (`NoToken`, `NoProc`, `NoClaim`, `NoVersion`, `NoPackage`, and for
the refinement that `NoToken` is no number) or that a bound is a number; the
others are that `Issuer` is a function of sessions, `Commands` are command
names, repositories start with different names, profiles are not processes,
releases are given in their order, and a signed manifest names releases; that
there is an agent, an account, a shell, a target and a first day to speak of; and
that there are finitely many profile names. `ChainCorrect`, `OneOperation`,
`NeverStranded`, `NoClaimWholePair` and `Implements` also assume `OneDeployment`:
all sessions have one issuer. It is needed because of what `two_deployments`
shows: a token sent to a deployment that did not issue it is refused there, rvs
then removes the operation from file, and the promises about that token are
gone. `NoClaimWholePair` assumes `RefreshesOnly` besides: no logins and logouts
among the commands, for the reason given with the property.

The argument for `DeviceSession`. `TypeOK` is not inductive by itself: `StoreRefresh` writes
`cmd[p].pair`, which its type allows to be `NoToken`. `LocalsOK` says which
locals are present at which step and makes the types inductive. `LockHeld`
then says that a process in the locked part holds the lock, so that two such
processes are the same process; this is what lets the rest speak of *the*
refresh in progress.

`Recoverable` and `OneOperationPerToken` each need the other, and both need to
know what the refresh in progress is about. `IInv` has one part per phase:

- `Known`: tokens in the store, on the wire and in the hands of a refresh or a
  login are of sessions the service has created;
- `StoredUsable`, `WorkingUsable`: the stored token, and the one a refresh
  works on, is `Usable`: the newest of its session, or one behind with its
  operation on file, and whatever request on the wire carries it carries the
  operation on file, so that a late arrival does what the file says;
- `ClaimOnFile`: between claiming and the answer, the operation in the locals
  is the one on file;
- `StoringFresh`, `SettlingFresh`: a pair about to be stored, and the stored
  one when the file is about to be removed, is `Fresh`: the newest of its
  session and never sent, so it does not need the file;
- `LoginPrivate`: the pair a login is about to store is of a session no other
  process or request has seen, so a login, which takes no lock, cannot
  interfere with a refresh of its own session.

Each action is a lemma over the parts it disturbs; those that change nothing
the chain is about are treated together. TLC checked `IInv` (run
`sessions_end`, and on the larger instance of `sessions`) before it was proved.

`AccessNotAhead` needs none of this about claims and answers, and so no
`OneDeployment`. Its invariant, `AccessInv`, follows the token instead: what a
refresh works on is not older than the stored access token, the pair it stores
is the successor of that, and between its two writes the stored refresh token is
not older than the pair (`InOrder`); logins write without the lock, but the
first pair of a session nobody else has a token of (`LoginApart`).

`NoClaimWholePair` rests on `JournalInv`: the operation is on file from before
the request until the last of the writes (`ClaimOnFile` says so up to the
answer, `InJournal` after it), and a process that has written part of a pair is
in the locked part, so that no other process is. The one hard case is a
denied refresh, which drops the operation although deleting the tokens may have
failed in silence: its session has ended.

`Implements` maps each step to one of `RotationChain` or to none. The service
advances only past a token that is claimed, because a request for the stored
token carries the operation on file (`Usable`, `ClaimOnFile`); a claim is
replaced or dropped only when the stored token is the newest (`WorkingUsable`,
`SettlingFresh`); a login or a refresh stores the newest pair
(`StoringFresh`). One more part is needed, `PairUnclaimed`: no operation is on
file for a pair that has not been stored, or storing it would adopt a claim
with it.

`UpdateInv` is needed because neither property is inductive: that `current` is
runnable after `RestoreCurrent` depends on what `ReadOld` read, on nobody else
having changed it since (`LockHeld`), and on the version it names not being the
one `Remove` will delete (`Apart`). The parts follow an update through its
phases: `Untouched` until the switch, `Checked` before it, `CanGoBack` after
it, `GoingBack` during the rollback. Lemma `Alone` is the one argument about
interference: whoever acts in the locked part holds the lock, so all others
wait and nothing is claimed of them.

`UpdateImplementsSwitch` rests on `UpdateInv` in the states before and after a
step. One update at most is unsettled, since it holds the lock, so that `back` is
well defined (lemma `Alone` again); the old version it remembers is whole, has
passed its check and is not the one it has placed (`CanGoBack`), so that
`RestoreCurrent` is `GoBack`; the version switched to is good (`Checked`), and
one that is being put in place or removed is not the active one (`Apart`).
`RollbackHasWayBack` follows without another look at `PortableUpdate`:
`StaysGood` is inductive in `VersionSwitch`.

`VaultInv` has a part that holds in every state and one that holds while nothing
has disturbed the vault. `Structure` says that a client has the file and the
secret its step needs, that every request in an agent's queue is that of the
client that waits for it or of one that has given up, and that a copy about to
be written carries what its request asked for. `Calm` says that one client at
most is on its way to a new agent or a new file (`OneHot`), that it finds no
other agent when it forks (`AloneAtFork`, hence `OneAlive`), that keys in the
hands of clients and agents are the newest unless a change has written the file
and not yet ended the agent (`ClientKeys`, `AgentKeys`), that a copy about to be
written is of the file as it is (`CopyCurrent`, `WriteCurrent`), and that one that
has been written is still there when it is answered (`WrittenStays`). The four
properties are conjuncts of `Calm` or follow from two of them; none is
inductive without the others, since who may write the file depends on who has
which key, and that on who may start an agent.

`VaultImplementsRegisters` needs one more invariant, `IdleRests`: a client that
rests has no command, or an update it has finished with would still be asked for.
A step that leaves the vault disturbed is `Disturbed`; for the others `Calm`
holds before and after. A secret changes only in `Write`, with a copy that
is the file as it is with one entry replaced (`WriteCurrent`); whether this is
`Land` or `TakeEffect` depends on whether a client still waits (`QueuesKept`). An
agent that has written for nobody is `Doomed`: what else waits in its queue will
not take effect, so nothing is adrift from then on. `Reply` is `Acknowledge`,
since what was written is still in the file (`WrittenStays`), or `GiveUp`, when the
answer is an error; that the secrets left possible are the abstract ones is lemma
`SettledAsRivals`. An agent killed between the two steps makes its client give up
an update that has landed. A change of the passphrase or a
set-up is `Rekey`: keys are numbered in the order they are written, and no
agent's key is the new one. Requests without a client appear in a queue when a
client is killed (`AbandonAdrift`), and all of them vanish when the
only agent ends (`NoneAdrift`). `RegistersKeep` is about `SecretRegisters`
alone: every update asked for or adrift is possible, which `Ask` establishes and
`Acknowledge` keeps for the rivals of the update it acknowledges.

`ProfilesInv` is about the steps a command has left. `WellFormed` says what may
follow what: a credential is stored before the metadata that names its store,
and removed before the profile is cleared or removed; a command that
begins such a sequence ends it; nothing follows a final step that depends on what
it changed. It is kept because every step removes a prefix of the list (lemma
`HeadRest`), whatever the list was. `Checked` says what a command has found in
the configuration it loaded, as long as it has not saved it. On these rests
`SettledKept`: while no saves raced, a settled profile has its credential where
the configuration says, unless a command has the rest of the work still to do
(`Promised`). `Paired` is that with no command on the profile. `DefaultKnown`
needs `NamesThere`, that a profile about to become the default is there.
The three action properties rest on its types and on `Checked`, and on lemmas
about what each setter does to a configuration, one per field.

The parts of `Commands` are proved separately, and lemma `PartsApart` carries
the results over: a step of rvs takes a step of one part and leaves the
variables of the others alone, so a run of `Commands` is a run of each.

- Requests: `RequestInv` counts. A read has six sends in each of its rounds,
  three before and three after a refresh; a change has one of each; a minting
  attempt has one, and none is refreshed once it has been sent.
- Logins and runtimes: `PollsOnTime` and `RuntimesWhole` are inductive with
  their types (`PollInv`, `RuntimeInv`). Lemma `OneJob` says what one runtime command may leave to the
  others.
- Evidence: `InHand` says that, unless a file is edited while it is streamed,
  the file in hand is the one that was hashed, and that its upload has stored
  the hashed bytes before it is completed.
- Tools: `ToolInv` follows target, token, confirmation and files through the
  run; the token's guard (`expected_target`) is what turns "the name was right
  when it was resolved" into "the name was right when it was minted".
- Listings: `ListingReads` says that what an honest service gave so far ends
  where the cursor is, so that it cannot repeat a cursor; lemma `Continue` is
  about the items of two pages that follow each other.
- Releases: unless checks overlapped or could not use the file, one that has read the file is alone with
  it, so that what it read is not older than anything accepted (`Remembered`).
  That a release comes later in the order of releases than the installed one
  follows from the comparison of its numbers (`AboveIsOrder`, `PlaceIsOrder`).
- Stores: lemma `OneCall` has what any call, successful or not, does to the
  entries of one store, to what is known of them, and to the command's probe.
- Updates: `ManagedInv` and `WindowsInv` say for each step what has been moved
  away and what could be put back. A release a manager may install instead of the one it was
  asked for is of the same series, and not older than what it
  replaces (`OfferedTyped`). On Windows
  rvs and its helper take turns, and the pending mark is there from the one to the
  other.

`TypeOK` of `Commands` is the conjunction of its parts' types. Three of those
needed more than the invariant of their part: `ListingBounded` (a page is asked
for only below the page limit), `StoresTyped` (a
command that has begun has a login's value to store) and `ReleaseTyped` (a
remembered time is that of a signed manifest).

`VaultInv`, `UpdateInv`, `ProfilesInv`, `JournalInv` and the strengthened types were
checked by TLC on the instances of the runs, `JournalInv` also with three
processes, before they were proved; both refinements are checked by a run too.

Only model-checked: `CommandsEnd` of `DeviceSession`, `VaultAgent` and
`Commands`, and `ArgumentsUnderstood` of `Commands`. `CommandsEnd` is
liveness under fairness, which the prover does not handle; nor does it reach
`ENABLED` or induction over data: `ArgumentsUnderstood` compares the scan of a
line, a recursion over its words, with a reference on the enumerated lines, and
stays with TLC. The five violations are TLC's too: each is one behaviour.

## 6. What is not modelled, and why

Components without a module, and what is left out of the others, are listed
with their reason in `PROJECT.json`. In short:

- Cryptography and signatures: a signature is a property an answer has or lacks,
  a key opens what it has sealed.
- Archive formats: a name and a content that are the right ones or not.
- Commands that only read (status, whoami, listings, the notice of a new
  release) and commands that are one request: the request loop is in
  `ApiRequest`, the rest is rendering.
- The Docker credential helper, which only reads the broker file.
- The advisory search for additional sources, and the metadata shown in the
  preview of a publication.
- Pin files, and the search for a tool on the path.
- Prompting, rendering and shell integration: no protocol.
- Build, packaging and release scripts: not part of the running program.

## 7. Running it

    tlc -workers 2 -config refresh.cfg MCDeviceSession.tla
    tlc -workers 2 -config update.cfg MCPortableUpdate.tla
    tlc -workers 2 -config vault.cfg MCVaultAgent.tla
    tlc -workers 2 -config profiles.cfg MCProfiles.tla
    tlc -workers 2 -config commands.cfg MCCommands.tla
    tlapm DeviceSession_proofs.tla
    tlapm PortableUpdate_proofs.tla
    tlapm VaultAgent_proofs.tla
    tlapm Profiles_proofs.tla
    tlapm Commands_proofs.tla

and likewise with the other configurations and proof modules; a call checks
the proofs of the module it names. On two cores the longest runs, `sessions`,
`vault`, `profiles` and `commands`, take one to three minutes each; the proofs take
about twenty minutes in all, most of it for `Profiles_proofs`,
`VaultAgent_proofs` and `DeviceSession_proofs`.
