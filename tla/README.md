# Dragon VPS Manager NG: verification project

TLA+ models of the Makia (Dragon) VPS manager, the TLC configurations that
check them on small instances, and TLAPS proofs of the properties that matter
most for instances of every size. Paths below are relative to the repository
(`app/...`, `owner_console/...`, `scripts/...`).

## 1. The system

One server runs four independent processes of the panel, all as root, plus the
services they manage:

| process | code | what it does |
|---|---|---|
| web panel (`makia-vps-manager`) | `app/main.py` and the `*_ops.py` it calls | FastAPI; synchronous handlers run in a pool of threads, one per request; a daemon thread synchronises the licence every 900 s |
| traffic collector (`makia-protocol-traffic`) | `app/protocol_traffic.py` | every 30 s, a pass over the metered Xray clients |
| policy enforcer (`makia-policy-enforcer`) | `app/policy_enforcer.py` | every 12 s, locks expired SSH users, limits their sessions |
| metrics sampler (`makia-metrics-sampler`) | `app/metrics_sampler.py` | every 60 s, one sample of load and memory |

They share one SQLite database (`app/db.py`), the configuration files of Xray,
WireGuard, OpenVPN and nginx, and the accounts of the operating system. There is
**no lock** between them, or between two requests. `with connect()` gives each
group of statements a connection of its own, and Python's `sqlite3` opens a
transaction at the first write only: a SELECT and the UPDATE it motivates are
two steps, between which any other process may run. systemd restarts a process
that dies (`Restart=always` or `on-failure`) with nothing of what it was doing.

A second, separate application, the owner's control centre (`owner_console/`),
issues signed licences and answers the panels' lease requests over HTTPS.

### 1.1 Components

For each: its state, its operations, what it interacts with, what is hard, and
what makes it correct. `PROJECT.json` has the same list with the status of each.

**Metered Xray clients and the traffic collector** (modelled).
State: the rows of `protocol_clients` (enabled, reason of suspension, usage,
quota, expiry, reset period and next boundary), `config.json`, the
configuration Xray has loaded, and Xray's own counters, which a query with
`-reset` clears and a restart loses. Operations: create (guided form), edit,
manual suspension and reactivation, traffic reset, revocation, subscription and
client list; the collector's renewal, period reset, metering, suspension.
Interactions: SQL, the configuration transaction (read, edit, back up, test,
replace, restart, roll back), `xray api statsquery`. Hard: the collector works
from a snapshot of the table taken at the start of its pass, and each of its
steps (query, add, verdict, apply, update) interleaves with every handler;
queries fail before or after they clear the counters; restarts fail and roll
back; every process may die in between. Correct when: no traffic is billed
twice, verdicts and reports never exceed what was carried, quota and expiry are
enforced in the end, suspended plans are renewed, and the table and the
configuration agree.

**Remote support grants and support login** (modelled).
State: `support_grants`, the cookies issued, one `login_rate_limits` row.
Operations: creation (which sweeps the live grant), revocation, login with a
code, the check made on every request of a session. Hard: the claim of a code is
a SELECT followed by an UPDATE; revocation, a new grant, a second login or a
crash fit between them; the cookie's lifetime is computed from one reading of
the clock and applied at another. Correct when: at most one grant is live, a
dead one stays dead, a session lasts as long as its grant, and a grant that has
been used admits nobody any more who was not already being let in.

**Licence and online lease** (modelled).
State: at the owner, the `licenses` table (status, revision, current code); at
the panel, two settings, the code and the last lease. Operations: issue, renew,
revoke, restore; activate, remove, synchronise (loop, handler, activation), and
the entitlement check of every premium request. Interactions: one HTTPS request
whose answer holds a signed lease and possibly a newer code. Hard: late and
lost answers, synchronisations that race each other and with activation and
removal, renewals that race with revocations, outages, expiry, boundaries of
lease, grace and bootstrap. Correct when: the panel's independence from the
owner is bounded, revocations and restorations reach it, renewals are delivered.

**Login throttle and administrator login** (partly).
State: `login_rate_limits` rows, the TOTP secret, session cookies. The rows and
the two functions over them are operators of `RateLimit`, exercised by the
support login. Hard: read, hash for a long time, write. Correct when: no
interleaving gives more attempts than the documented number times the number of
threads, and a block always ends.

**Xray configuration transaction** (modelled).
State: `config.json` and its owner, its backups, what Xray has loaded.
Operations: repair, inbound and tunnel creation and removal, client enabling and
disabling, expert apply, all of one shape: read, edit, back up, test a candidate,
replace the file, hand it to Xray's user, test again, restart, or roll back.
Hard: failures at every step, crashes between replacement and restart, two
transactions at once, rollbacks over what others have done since, backups named
by the second, truncated copies, a first configuration without a backup. Correct
when: only what was tested is written or served, what an administrator was told
stays so until it is changed, and Xray serves the file.

**SSH accounts and the policy enforcer** (modelled).
State: system users (password, lock, expiry in the shadow file), their sessions
as `who` lists them, and the rows of `account_profiles`, which the host knows
nothing of. Operations: create, edit, lock, unlock, delete, disconnect, the same
in bulk, extension; the enforcer's pass. Interactions: `useradd`, `chpasswd`,
`usermod`, `userdel`, `who`, `pkill`, then SQL. Hard: host commands and row are
separate steps of a request; a pass reads the rows, then the sessions, then acts
by both; terminals change hands in between; every command may fail. Correct when:
a suspended account stays closed until somebody opens it, an account is locked
by the enforcer only for an end it has had, expired accounts are closed and
limits are kept in the end, and sessions within their limits are left alone.

**WireGuard peers** (modelled, without the bootstrap).
State: `wg0.conf`, the running interface and one access artifact per name.
Operations: create (choose an address, set the peer, append to the file, save the
artifact), revoke (find the key, unset the peer, rewrite the file, delete the
artifact), restart of the interface. Hard: two creations read the same file, a
removal rewrites it from an old reading, crashes between interface and file, and
names that are kept in comments. Correct when: what an administrator has been
told of a peer stands: it is served with an address of its own until it is
revoked, and then for ever not.

**OpenVPN** (not modelled). Certificates of an Easy-RSA PKI and one artifact per
client; what is hard is done by Easy-RSA, outside the repository.

**Panel domain and certificates** (partly). State: the nginx site of the panel,
what nginx serves, the setting `panel_domain`. Operations: a domain is applied
(write, test, reload, or put back), certbot installs a certificate into the same
file. Hard: both hold what they have read while another request, or the updater,
writes the file, and file, nginx and setting change one after the other, with
nothing that mends them when a write, the database or the panel fails between. Correct
when: what a request is answered is true of all three. The copies of certificates
for Xray and `domain_status`, which only reads, are left out.

**Installer, updater, backup and portable restore** (partly: the updater, the
portable export and restore). These are scripts an operator runs on the host.
*Updater.* State: the application, its requirements, version, libraries, units
and tools, the rollback point, the site. Operations: one long script under
`set -e` with an exit trap that rolls back once it is armed. Hard: a command may
fail anywhere, the rollback itself may, power may be lost, and the panel edits
the site while the rollback point is taken. Correct when: an update leaves all
of one new release or what was there, its verdicts are true and the panel runs
again. *Portable migration.* State: at the source the database, the system users
and the directories of the engines, which change while they are read one after
another; at the destination the same, replaced one after another. Hard:
requests during the export, failures and power losses during the restore, which
is then repeated over what it left. Correct when: everybody's credential works
afterwards, and the services never run on a mixture. Installation and removal are
linear scripts over apt and systemd; the local data backup is one copy.

**Support tickets** (not modelled). Three statements: insert, deliver to the owner
over HTTP, mark; nothing reads the outcome but the list of tickets.

**Owner console web application** (partly): its licence operations are in
`LicenseLease`; customers and its login page are plain rows and forms.

**Not modelled either**: nodes and their agent (a heartbeat overwrites
one row), metrics sampler (append and delete by age), API tokens, settings, 2FA
set-up and audit log (single statements), access packages, share links and
protected exports (pure formatting and encryption), templates and scripts of the
web interface.

### 1.2 Hazards

`PROJECT.json`, `hazards`, lists at its line everything in this code that tests
hardly reach, with the properties that cover it or a note that says why none does.

## 2. Modules

| module | what it is |
|---|---|
| `RateLimit` | operators on one row of `login_rate_limits` |
| `SupportGrants` | grants, logins in their SQL steps, cookies; extends `RateLimit` |
| `SupportGrantsProofs` | its five properties, proved |
| `TrafficMeter` | what metering promises of usage, abstractly |
| `ProtocolClients` | table, collector, handlers, configuration transaction, Xray; implements `TrafficMeter` |
| `ProtocolClientsProofs` | its accounting invariants, the decisions made from them and the refinement, proved |
| `LicenseLease` | owner, panel and the answers between them |
| `LicenseLeaseProofs` | the bound on offline use, proved |
| `WireGuardPeers` | file, interface, artifacts and the two requests that change them |
| `WireGuardPeersProofs` | its four invariants, proved |
| `XrayConfig` | `config.json`, backups, Xray, and the seven operations that change them |
| `XrayConfigProofs` | its four properties, proved |
| `SshPolicy` | system users, rows, sessions, the handlers and the enforcer |
| `SshPolicyProofs` | its type invariant and what holds of suspensions, locks and sessions, proved |
| `PanelSite` | the nginx site under the panel's requests and certbot; a component of `ReleaseUpdate` |
| `AtomicRelease` | what an update promises of the installed files, abstractly |
| `ReleaseUpdate` | the updater beside a running panel (extends `PanelSite`); implements `AtomicRelease` |
| `ReleaseUpdateProofs` | its three invariants, the answers about the site and the refinement, proved |
| `PortableMigration` | the export at the source and the restore at the destination |
| `PortableMigrationProofs` | its three invariants, proved |
| `MC...` | values for the constants that a `.cfg` cannot write down |

Conventions. A step is what one actor does between two points at which another
can see or change shared state: one SQL transaction, one read or replacement of
a file, one restart, one query, one HTTP exchange. Each actor is a record in the
variable `proc` (`login` in `SupportGrants`) that holds its program counter and
what it has read: stale data is data kept there. Clocks start at 1, because 0
is "no date" in the tables. Operators ending in a word that does not occur in
the code (`SweptNothing`, `TotalTwice`, ...) and commented `Mutant of` are the
faulty variants the properties are tested against (section 3.4); nothing else
uses them.

### 2.1 SupportGrants

| code | model |
|---|---|
| `create_support_grant` (`app/db.py`) | `CreateGrant`, with the sweep `Swept` |
| `revoke_support_grant` | `RevokeGrant` |
| `support_login` (`app/main.py`) | `BeginLogin`, `DropStaleRate`, `SelectGrant`, `ClaimGrant`, `ClearFailures`, `IssueCookie`; on failure `ReadFailures`, `WriteFailure` |
| `consume_support_grant` | `SelectGrant` (SELECT and checks), `ClaimGrant` (UPDATE without a condition) |
| `login_rate_state`, `record_login_failure` | `RateAfterRead`, `RateAfterFailure` |
| `current_user`, `support_grant_by_id` | `Authorised`, `Active` |
| death of the web process | `Restart`: requests are lost, rows and cookies stay |

The scopes "readonly" and "operator" are not told apart: no step above depends
on the scope. Codes are grant ids; code 0 is any string that hashes to no row.

### 2.2 ProtocolClients

| code | model |
|---|---|
| `collect_once` | `Wake` (clock and snapshot), `TakeClient` (which branch: `Task`), then `StatsAnswered` / `StatsUnavailable` / `StatsBroken`, `Add` with the verdict `SuspendReason`, `Zero`, `Advance`, the configuration steps and `Write`; `Sleep` |
| `xray_client_traffic` with and without reset | the three `Stats...` actions; `Usage` |
| `create_xray_inbound`, `remove_xray_inbound`, `enable_xray_client`, `disable_xray_client` | `ConfigRead` (with `EditRefused`, `EditNeedless`, `Target`), `ConfigWrite`, `ConfigRestart`, `ConfigRollback` |
| functions of `app/db.py` on `protocol_clients` | `Updated`, `Edited`, `Suspended`, `Reactivated`, `Inserted`, `Zero`, `Advance` |
| `xray_quick_inbound`, `protocol_client_update`, `protocol_client_reset_traffic`, `access_revoke` | `BeginCreate`, `BeginUpdate`, `BeginReset`, `BeginRevoke`, then the same steps |
| `_subscription_snapshot`, `protocol_clients_get` | `BeginReport`, `Usage`, `Answer` (`Reported`, `Serves`) |
| Xray, systemd, deaths | `Traffic`, `XrayDies`, `XrayStarts`, `CollectorDies`, `WebDies` (external where there is no code) |

Abstractions: one client per inbound, as the guided form creates it; upload and
download are one number; a unit of time is a day. History variable: `delivered`,
what a client has really carried, which only `Traffic` increases.

The refinement of `TrafficMeter` maps an account to the id of a client's row, its
bill to the usage in that row, what waits to Xray's counter, and the collection
under way (`Collection`) to what the collector holds at `add`: units, and the row
of its snapshot. Most steps stutter; a query of anybody but the metering
collector, a restart of Xray and the collector's death lose units.

### 2.3 LicenseLease

| code | model |
|---|---|
| `issue`, `renew` with `_resign`, `revoke`, `restore` | `Issue`, `BeginRenew` (SELECT, new code) then `FinishRenew` (UPDATE), `Revoke`, `Restore` |
| `lease` | `LeaseFor`, `Replacement`, inside `SyncAsk` |
| `_sync_license_lease_once` and `fetch_online_lease` | `SyncRead`, `SyncAsk` or `SyncFails`, `SyncStore`, `SyncReplace`; `DropLease` for an offline code |
| `_license_sync_loop` | `LoopWakes` |
| `license_sync`, `license_activate`, `license_remove` | `BeginSync`, `BeginActivate`, `BeginRemove`, then `DropLease`, then the synchronisation |
| `license_snapshot`, `license_status` | `BeginCheck` (reads the code), `Check` (reads the lease); `Entitled` |
| deaths | `DeskDies`, `PanelDies` |

Abstractions: a signature makes a code or a lease a value the owner has made, so
forging is not in the model; the features inside a code are left out, what is
asked is whether the panel grants what the code was sold for; both hosts read
one clock. History variables: `codes`, every code that has left the owner's
hands; `lastActive`, when the owner's record of a licence was last active.

### 2.4 WireGuardPeers

| code | model |
|---|---|
| `create_wireguard_peer` | `BeginCreate` (file read), `ChooseAddress` (read again: address and key chosen), `SetPeer` (`wg set`), `AppendPeer` |
| `artifact_save`, `upsert_access_artifact` | `SaveArtifact`, with which the request is answered |
| `access_revoke` | `BeginRevoke` (key from the artifact), `ListPeers` (key from the comments), `ForgetArtifact` |
| `remove_wireguard_peer` | `UnsetPeer` (`wg set ... remove`), `ReadFile`, `Truncate`, `Rewrite` (`Without`) / `RewriteFails` |
| `list_wireguard_peers` | `Named`, `KeyOf` |
| service action, boot | `RestartInterface`, which loads the file |
| death of the web process | `WebDies` |

The file is a sequence of blocks and the sequence of the comments between them,
because `remove_wireguard_peer` moves the comments: a comment belongs to the
block after it, but a block is dropped up to the next section header, with the
comment of its successor. Keys are numbers in the order of generation, addresses
numbers in the order of `network.hosts()`. `write_text` empties the file when it
opens it and fills it afterwards: two steps, between which the process may die, the
disk be full, the interface restart or another request read the file. The text
itself is one write, at the beginning of the file; what is left after it of a longer
text that others have appended in between is not in the model. History variables:
`madeFor`, the name a key was made for; `status`, what the administrator has been
told about it: `given`, until a removal begins with it, and `exposed` from the moment
at which somebody meets the file while a removal has it empty (`Seen`). Any of these
meetings may really lose the peers or give one's address away, so the properties
except them, and say that a removal which nobody meets there does no harm, whatever
else happens before and after. A request during which another one is under way, or the interface is
restarted, is not `alone`, and its key ends up as `raced`: two such requests may
really choose the same address or overwrite each other's file, and the
properties promise nothing to them. They do say that such a race does no harm to
the peers of all other requests.

### 2.5 XrayConfig

| code | model |
|---|---|
| reading and editing: `create_xray_inbound`, `create_xray_tunnel`, `remove_xray_inbound`, `disable_xray_client`, `enable_xray_client`, `repair_xray_runtime` | `BeginEdit` (with `Refused`, `Edited`, `Base`), `AnswerNeedless` for the answers that need no transaction |
| `apply_xray_config` | `BeginApply` |
| `shutil.copy2(path, backup)` | `BackUp`; `Kind` and `SameName` for the names `xray-<kind>-<second>.json` |
| `_xray_test_config`, `os.replace` | `Replace` |
| `_xray_secure_runtime_file` | `Own` |
| `_xray_test_config_as_service` | `Verify` |
| `systemctl restart`, `_active` | `Restart` |
| `_ufw_allow_if_active` and the answer | `Finish` |
| the `except` block | `Restore`, `Rerun` |
| service actions, `xray-cert-sync.sh`, systemd | `XrayRestarts` |
| deaths of the panel or the collector | `Dies`, of any set of threads |

`ProtocolClients` has the same transaction as part of the life of one client,
with its rows; this module has all of its steps, any number of threads and
several inbounds, and no rows. An inbound is absent, there without its client
(`off`) or with it (`on`). Whether the test accepts a configuration and whether
Xray stays up with it depend on two fixed sets of inbounds. Whole reads and
copies are atomic, except that a copy that dies or fails may leave its target
truncated. Two backups of one kind *may* be taken within one second; then the
later copy is what both operations find. The service user is not root, as in the
units the installer sets up; with root the step `Own` cannot fail and less can go
wrong. History: `alone` is true of an operation that has met no other; `told`
keeps what such an operation has answered of its inbounds, until another
operation about them begins. What operations that do meet each other answer is
not kept by this code (the later one writes back what it read before), and the
properties promise nothing to them: they say that such a race, its failures and
its rollbacks leave the answers given about *other* inbounds alone.

### 2.6 SshPolicy

| code | model |
|---|---|
| `enforce_once` (`app/policy_enforcer.py`) | `ReadRows`, `ListSessions` (with the verdicts `Decide`: `OverSessions`, `OverDevices`), `LockExpired`, `Disconnect`, `EndPass`; `AbortPass` for an exception or the end of the process |
| `create_account`, `update_account`, `account_action`, `bulk_account_action` (`app/main.py`) | `BeginCreate`, `BeginUpdate`, `BeginAction`, `BeginBulk` with `NextAccount` and `Extended` |
| `useradd`, `chpasswd`, `usermod`, `userdel` (`app/system_ops.py`) | `Run` and `RunFails` (`CanRun`, `After`, `Following`) |
| `account_rows` for one user, `upsert_profile`, `delete_profile` | `ReadRow`, `WriteRow`, `DeleteRow` |
| disconnecting an account | `ListOwn`, `CloseOwn` |
| sshd and pam, midnight, deaths | `Login`, `Logout`, `NewDay`, `Crash` |

One host command is one step. Terminals are numbered in the order in which `who`
lists them, which is all that the limits depend on. Quota (stored and read by
nobody), shells, PINs and notes are left out; a day is the unit of time. History
variables: `told`, the last answer about an account's lock to a request that met
no other on that account; `lapsed`, accounts whose row, in the table or as the
enforcer holds it, has ended while switched on; `steady`, the sessions that have
kept their account's limits, under the same row, since the pass began.

### 2.7 PanelSite and ReleaseUpdate

| code | model |
|---|---|
| `apply_domain` (`app/panel_ops.py`) and its handler | `BeginApply`, `Empty` and `WriteSite`, `Validate` / `ValidateFails`, `Empty` and `Undo`, `ReloadOriginal`, `Record` |
| a full disk, a locked database | `WriteFails`, `RecordFails` |
| `issue_certificate` | `BeginCertificate`, `Certbot` / `CertbotFails` / `CertbotTimesOut`, `Record` |
| death of the web process | `PanelDies`: the requests are lost, and certbot with them (`CertbotKilled`) |
| `scripts/update.sh` up to the rollback point | `Start`, `Snapshot` / `NoSnapshot`, `Download` |
| `ROLLBACK_ARMED=1` and the replacement | `Stop`, `Replace` (five parts of the script: `After`), `Pip`, `KeepSite` |
| gates, restart, polls, smoke test | `Gates`, `Restart`, `Health`, `Smoke` |
| a command that fails under `set -e` | `Fails` |
| the exit trap | `Exit`, `ClearApp`, `Untar`, `RePip`, `Rerun`, `Recheck`; `RollbackFails` under its `set +e` |
| power loss and boot | `Crash` |

What is installed is, for each part, the release it comes from, `Torn` or
nothing. A step that stops leaves any prefix of what it writes, in the script's
order, and one torn part (`Halfway`). What starts depends on the application and
its libraries (`Boots`). The steps of the panel are enabled while it runs, and a
stop ends its requests. The refinement of `AtomicRelease` maps `installed` to what
the disk holds, or, while the rollback is armed, to what it would bring back;
`busy` to an updater that runs; `harmed` to the history variable `harm`. The
abstract module says what is *not* promised: a power loss during the replacement,
or a rollback with a failure of its own, and a file the old installation did not
have. Not in the model: `/usr/local/sbin` has no part in the promise because the
rollback point does not hold it, the database schema, which is not rolled back
either, the content of unit files, and two updaters at a time. An engine's gate
that fails is a command that fails.

A write of the site by the panel is two steps, as `write_text` makes it: the file is
emptied (`Empty`), then filled. The panel may fail or die between the two, another
request or the rollback point may read the file there, and an empty file passes
`nginx -t`. The setting is stored after nginx has been reloaded, and that may fail too, or
never happen. Certbot is external: it goes by the file it has read when it began,
writes the site and reloads nginx in one step when it is left alone, and stops before, in
or after either when it is killed, by its timeout or with the panel; one that
refuses, or that `systemctl stop` terminates, undoes what it has begun. The copy of the
site in `.conf.makia-backup`, which nothing reads, is left out.

### 2.8 PortableMigration

| code | model |
|---|---|
| handlers at the source | `BeginCreate`, `BeginDelete`, `BeginPassword` (host or Xray first), `WriteRow` (row second), `RowFails` |
| `backup_portable` (`app/main.py`), `portable_migration_files`, `_managed_ssh_export` (`app/system_ops.py`) | `ReadNames`, `ReadData`, `ReadUsers`, `ReadTrees` |
| `scripts/restore-portable.py` | `Begin`, `Stop` / `StopFails`, `InstallEngines`, `RemoveData`, `CopyData`, `AddUser`, `SetHash`, `RemoveTree`, `CopyTree`, `WriteSite`, `StartStack`, `Validate` |
| an exception; a power loss | `Dies`; `Crash` |

Accounts and Xray clients are items with a row and a credential; which one tells
an old password from a new one. A directory is the destination's own, half there,
gone or the bundle's. The loops go through their items in a fixed order
(`CHOOSE`), because no property depends on it. The destination is a host with the
panel installed, with or without users and engines of its own; the source has
Xray and a site, and is left alone once the bundle is complete. `serving` is the
panel and its workers: OpenVPN and nginx, which the script does not stop, are not
part of it. History variables: `steady`, the items that were whole when the export
began and that no request has touched since; `harm`, a power loss or a failed stop
since the last restore began.

## 3. What is checked

### 3.1 Runs that pass

| run | properties | instance |
|---|---|---|
| `support_grants` | `TypeOK`, `OneLiveGrant`, `SessionCoversGrant`, `OneLoginPerThread`, `DeadStaysDead` | 2 threads (symmetric), 2 grants, 4 attempts, block after 2 failures, 3 instants |
| `protocol_clients` | `TypeOK`, `FiguresBacked`, `DecisionsExplained`, `MetersOnce` | 1 name, 2 accounts of it, collector and 1 thread, 3 changing requests, 3 units of traffic, 3 days, 1 fault |
| `protocol_clients_live` | `PolicyEnforced`, `PeriodsTurn` | the same with 1 account, 2 requests and 2 units |
| `license_lease` | `TypeOK`, `BoundedOffline` | 2 licences, 1 desk, loop and 1 thread, 3 operations of the owner, 2 requests, 1 fault, 4 instants |
| `license_lease_live` | `RevocationSticks`, `RenewalDelivered`, `RestoreReaches` | the same with 1 licence and 1 request |
| `xray_config` | `TypeOK`, `OnlyTested`, `Kept`, `Synced` | 2 threads (symmetric), 4 inbounds (one works, one is a tunnel, one fails the test, one keeps Xray from starting), 2 configurations from the editor, 3 requests, 1 fault |
| `wireguard_peers` | `TypeOK`, `AddressesUnique`, `GivenIsServed`, `RevokedStays` | 2 threads and 2 names (symmetric), 3 keys, 3 addresses, 5 requests, 1 fault |
| `ssh_accounts` | `TypeOK`, `SuspendedStays`, `OpenUnlessEnded` | 2 users and 2 threads (symmetric), a plan of one session that ends on day 1, the edit that suspends, 1 address, 2 terminals, 2 days, 2 requests, 2 logins, no fault |
| `ssh_enforcement` | `ExpiryEnforced`, `LimitsEnforced`, `ClosesOnlyOffenders` | 1 user, 1 thread, 2 addresses, that plan and one of two sessions from one address, 3 edits, 2 terminals, 2 days, 2 requests, 2 logins, 1 fault |
| `release_update` | `TypeOK`, `VerdictTrue`, `SiteKept`, `KeepsPromise`, `AnswersTrue`, `ServesAgain` | 3 releases, one of which does not start, a unit the old one may lack, 1 thread, a domain and one nginx refuses, 1 request, 2 updates, 1 fault, 1 power loss |
| `portable_migration` | `TypeOK`, `Migrates`, `ServesWhole`, `RestoreEnds` | 1 account, 1 client, 1 engine besides Xray, 2 requests, 1 fault, 1 power loss |

What they show:

- *Support*: the sweep of a new grant, a revocation and a login between its
  SELECT and its UPDATE never leave two live grants, nor bring one back. A code is
  good for as many logins as there are threads to overlap in, and no more
  (`OneLoginPerThread`): a login that begins after the claim is refused.
- *Accounting*: `MetersOnce`, the refinement of `TrafficMeter`, says that usage takes
  one way: carried, counted by Xray, collected in the name of a row, billed to that
  row. Queries that time out after they have cleared the counters, restarts, resets
  and crashes lose units on it, and nothing brings a unit back or bills it to a later
  account of the same name. `FiguresBacked` says that what is
  billed (its part `NoDoubleBilling`), and
  verdicts and reports, are backed by traffic that was carried, although the latter are put
  together from two instants; its part `StaleFiguresBacked` is the reason:
  usage only ever moves from the counters to the table, so a row of the past and
  counters of the present never overlap.
- *Decisions*: a client whose row has usage left is suspended for quota only if,
  since the snapshot of that pass, a reset took usage away or an edit raised the
  quota (`SuspensionExplained`, a part of `DecisionsExplained`). A payload is served to a
  client without quota left only if the collector took units out of Xray between
  the two readings of that request (`ServedHasQuota`, the other part).
- *Enforcement*: a client that stays over quota or past its end is suspended in
  the end (`PolicyEnforced`), and a plan is renewed and its boundary moved on
  (`PeriodsTurn`), whatever fails on the way; the model allows the failures of each
  statement, the run one of them per behaviour.
- *Licence*: `BoundedOffline` is the promise of a "bounded offline grace period"
  with its exact value: one lease and one grace period after the owner's record
  was last active. The live properties say that
  a lasting revocation wins in the end over every late answer, that a renewal
  is fetched while the old code is valid, and that a restoration needs nothing
  done on the panel.
- *WireGuard*: a creation that met no other request keeps its address, its place
  in the file and its service through crashes of other requests between
  interface and file, restarts, and races between other requests; only who meets
  the file in the moment in which a removal has it empty can take them away. A
  revocation is final, through such moments too.
- *Xray configuration*: `OnlyTested` survives rollbacks that restore what another
  operation has backed up, truncated copies included: a truncated file is refused
  by every reader. `Kept` says that a restart of Xray or a rollback of somebody
  else never shows an administrator another configuration than the one he was
  told of. `Synced` includes that `apply_xray_config`, which does not hand the
  file over after its rollback, leaves a root-owned one only when a command failed
  or somebody else is about to hand it over.
- *SSH*: a suspension answered to an administrator outlasts extensions and passes
  that hold older rows (`SuspendedStays`); an account answered to be open is
  locked only by the enforcer and only for an end it has had (`OpenUnlessEnded`).
  A new plan is not always such an end's cure: a pass may lock by the row of before
  it, and an extension does not unlock. An enabled account that has ended is locked
  with no session left, and one over its limits does not stay so, through failures
  of every command and of `who`. The terminals of a verdict are closed by number,
  whoever is on them by then; still no session within its limits is closed, unless
  its terminal was taken over within the pass (`ClosesOnlyOffenders`).
- *Updater*: the refinement `KeepsPromise` is the atomicity of an update, with its
  exceptions spelled out by `AtomicRelease`; `VerdictTrue` that "Update complete"
  and "Rollback successful" are printed only over a panel that runs the installed
  release; `SiteKept` that neither the update nor the rollback puts a site there
  that was not there since the update began; `ServesAgain`, that the panel is left
  running. `AnswersTrue` concerns the panel's own requests: a success means that the
  file, nginx and the setting have the domain, a refusal that the file has its text
  back and the setting its value, whatever requests that died or failed have left
  before. It speaks of requests that are answered, and that met no other and no update; one
  that dies or fails on its way may leave the three apart.
- *Migration*: `Migrates` relates the two hosts over a bundle that was collected
  while the source was changing: whoever was not touched in the meantime has his
  row and his credential, or neither. `ServesWhole` is why the restore stops the
  services first, and `RestoreEnds` that a restore can be repeated over whatever an
  earlier one left.

### 3.2 A run that finds a disagreement

`revokes_what_it_names` checks what the comment at `app/protocol_ops.py:629` says:
that the comment of a removed WireGuard peer goes with it. In the code the comment
stays and names the next peer, which a
second revocation of the first name then removes. It needs neither a second thread
nor a failed command.

Other behaviours of the models that a sentence of the repository excludes, met
while modelling; no run repeats them:

- two overlapping logins with one support code are both let in
  (`app/db.py:587`; the code is called single-use);
- counters are not kept across a restart of Xray (`app/protocol_ops.py:1489`;
  `README.md:125`);
- an expired code ends the synchronisation before it asks for the renewal
  (`app/main.py:77`; `README.md:13`);
- without a configuration file there is no backup to roll back to
  (`app/protocol_ops.py:1290`; `README.md:114`);
- an account that was suspended and is unlocked in bulk keeps its flag off, so the
  enforcer skips it (`app/main.py:794`, `app/policy_enforcer.py:26`);
- a panel that dies, or a database that is locked, between the reload of nginx and
  the setting (`app/main.py:1960-1962`, `1973-1975`), and a write that fails or a
  panel that dies while a domain is written, tested or put back
  (`app/panel_ops.py:75-80`), leave file, nginx and setting apart; and where the file was left
  empty, the next application is answered as a success though there is nothing in it
  to rename (`CHANGELOG.md:397`: "server_name apply with syntax validation and
  rollback").

Other races are in the models, break no checked property and are listed only as
hazards: a renewal, or a rollback, that puts a manually suspended client back, an
edit that writes `enabled` over a suspension it has not seen, a replacement code
that arrives after the licence was removed, two renewals of one licence that sign
the same revision, a renewal that overwrites a revocation, a removal of a WireGuard
peer whose write is read, or ends, while the file is empty, a rollback point that
holds the site of before another domain, or an emptied one.

### 3.3 Bounds and fairness

Every bound is a constant whose name begins with `Max` and appears as a guard:
rows, requests, faults, traffic, owner operations and the clock. Deadlock
checking is off because a bounded behaviour ends. They are chosen so that what
the properties are about happens within them: quota 2 with 3 units of traffic
lets a client pass its quota while counters are outstanding; three days cover a
term, a reset boundary and the day after; two requests and a pass of the
collector are what every race found needs, three (create, revoke, create) a second
account of the name while the collector holds units of the first; two grants are what `OneLiveGrant`
relates; a lease, a grace period and a bootstrap of one unit each and a term of
three let a lease run out, then the grace, then the code, within four instants.
One fault per behaviour covers a failure at every step; a second one repeats it.
A pool of three addresses with three keys lets an address be given back and given
again. Three operations on two threads are two that race and a third about
another inbound, which is what `Kept` relates. Two users on two threads are a
request that meets another on one account and one that does not; two days let an
account end. Two updates are one that fails and one that repairs, three releases an
old one, a new one and one that does not start. A fault and a power loss interrupt a
restore twice. The edits and devices that `ssh_enforcement` needs are left out of
`ssh_accounts`, whose invariants do not speak of them, to afford a second user and
a second thread. `MCReleaseUpdate` begins every behaviour with the same one of the
two releases that start, between which nothing else differs, and a site is missing at
first just when the unit is. One request meets every step of an update, a fault, a
power loss or a dying panel; what it finds that earlier requests have left, and what several
do at once, is covered by the proof. All passing safety
properties are also proved (section 4), without any bound on the sets and with the
bounds as arbitrary numbers.

Fairness is weak fairness of what a scheduler and systemd do:
`CollectorStep` (an endless loop under `Restart=always`), `ThreadStep` (a
request that has begun), `XrayStarts`, `LoopStep` (a daemon thread that sleeps
and wakes, in a service that is restarted), `FinishRenew` (a request that has
begun), `EnforcerStep` and `RequestStep` (the enforcer's loop and the requests of
SSH accounts), and, for metering only, `Tick`: days pass. `UpdaterStep` is fair
because a script that has begun runs on; that the operator repeats a restore until
it has passed (`WF_vars(Begin)`) is an assumption about him, made for `RestoreEnds`
only. Otherwise no fairness is assumed of administrators,
customers, the owner, of traffic, or of the success of any command: what bounds
the failures is `MaxFaults`. The liveness properties therefore mean: once failures
stop, it happens.

### 3.4 Mutants

Each property of a passing run has a mutant in `PROJECT.json`: a plausible bug in
one definition, under which TLC finds the property violated in the same run.
For instance a sweep that ends nothing (`OneLiveGrant`), counters read without
`-reset` (`FiguresBacked`), an UPDATE by name instead of id (`MetersOnce`), a panel that is stopped before the rollback is armed
(`KeepsPromise`), a restore that sets the hashes of new users only (`Migrates`).

## 4. What is proved

| theorem | property |
|---|---|
| `SupportGrantsProofs!TypeCorrect`, `AtMostOneLiveGrant`, `SessionsCoverTheirGrants`, `DeadGrantsStayDead`, `NoMoreLoginsThanThreads` | `TypeOK`, `OneLiveGrant`, `SessionCoversGrant`, `DeadStaysDead`, `OneLoginPerThread` |
| `ProtocolClientsProofs!TypeCorrect`, `NoUnitIsBilledTwice`, `FiguresAreBacked` (from `StaleFiguresAreBacked`, `QuotaDecisionsAreBacked`, `ReportsAreBacked`), `DecisionsAreExplained`, `UsageIsMeteredOnce` | `TypeOK`, `FiguresBacked` with its part `NoDoubleBilling`, `DecisionsExplained`, `MetersOnce` (the refinement) |
| `LicenseLeaseProofs!TypeCorrect`, `OfflineIsBounded`; `LeasesAreBacked`, about leases in use, which no run repeats | `TypeOK`, `BoundedOffline` |
| `XrayConfigProofs!TypeCorrect`, `OnlyTestedConfigurations`, `AnswersAreKept`, `XrayServesTheFile` | `TypeOK`, `OnlyTested`, `Kept`, `Synced` |
| `WireGuardPeersProofs!TypeCorrect`, `AddressesStayUnique`, `GivenStaysServed`, `RevokedIsFinal` | `TypeOK`, `AddressesUnique`, `GivenIsServed`, `RevokedStays` |
| `SshPolicyProofs!TypeCorrect`, `SuspensionsStay`, `LockedOnlyAfterItsEnd`, `SteadySessionsStay` | `TypeOK`, `SuspendedStays`, `OpenUnlessEnded`, `ClosesOnlyOffenders` |
| `ReleaseUpdateProofs!TypeCorrect`, `VerdictCorrect`, `SiteKeptCorrect`, `AnswersTrueCorrect`, `PromiseKept` | `TypeOK`, `VerdictTrue`, `SiteKept`, `AnswersTrue`, `KeepsPromise` (the refinement) |
| `PortableMigrationProofs!TypeCorrect`, `MigratesCorrect`, `ServesWholeCorrect` | `TypeOK`, `Migrates`, `ServesWhole` |

Assumptions are those the modules state of their constants (`SupportConstants`,
`ProtocolConstants`, `LicenseConstants`, `WireGuardConstants`, `XrayConstants`, `SshConstants`, `PanelSiteAssumption`,
`ReleaseAssumption`, `MigrationAssumption`): sets of the right shape, natural numbers, durations of grants at least 1, a finite pool of threads for the
logins of a grant, a bootstrap no longer than the grace period
(`min(grace, 21600)` in `license_status`). TLC evaluates them in the runs.

*Support.* Ids are handed out in order, so only the last created grant can be
live: the sweep has ended all earlier ones, and the unconditional UPDATE of a
claim writes `used_at`, which never makes an expired or revoked grant live. For
the cookies the invariant also holds what a login in progress carries: the
expiry it has read is that of its grant, and its cookie, issued at a later
reading of the clock, reaches at least that far. `OneLoginPerThread` is a count:
only an unused row is selected, so nobody has been let in while a row is unused
(`UnusedLetsNobodyIn`), the threads that may be let in are those in flight when the
first claim is written, and logins and threads in flight together never outnumber
the pool (`Room`). A claim must be told from no claim for this, hence
`ClaimStamped`.

*Accounting.* `NoDoubleBilling` is not inductive: a verdict or a report uses a
row of the past. The invariant `Accounting` adds `StaleFiguresBacked`, for the
snapshot of the pass and for the row every actor holds, with the places at which
an actor holds units or a verdict. Most steps only lower figures; the lemma
`Frame` says that any such step preserves the invariant, and only `Add`,
`StatsAnswered`, `Traffic`, and the reading steps need an argument of their own.
`DecisionsExplained` speaks of steps, and what each may do must be seen through
whatever the other processes hold: a verdict for quota is about the total of the row
and the answer that the collector has in its own hands, from the step that forms it
to the one that writes it, and no request ever has the collector's tasks
(`Verdicts`). `SuspensionStep` then compares that total with the row the
verdict is written to, `ServingStep` the last counter a request reads with the row
it has read before. For the refinement `MetersOnce` the invariant `Numbered` says that
every id in use, in a snapshot or in the collector's hands has been given out
(so no later row has it), and that only an insertion gives one out: whoever is at an
UPDATE or an INSERT is about one of five operations (`OnCourse`). The lemmas
`...Metered` then map each step.

*Licence.* `BoundedOffline` follows from what a stored lease says, and stored
leases come from answers that were made at an earlier instant, so the invariant
`Sound` follows every lease and every code back to the owner: `OwnerSound` ties
the records and the codes given away to the history `lastActive`, `PanelSound`
says that the settings, and what each synchronisation holds in flight, are
`Backed`. `PanelFrame` covers the steps of the panel, `RowSound` those of the
owner that write a row, `PanelKept` is why what the panel holds stays backed
while the history grows.

*WireGuard.* None of the three properties is inductive, because a removal under way
holds a copy of the file that it will write back. `Settled` says of a peer that was
given that it owns its address in the file, unless a removal has just emptied that
(`Quiet`), and in every copy that a removal holds (`Holding`), and that no
creation under way has chosen its address; `Gone` says of a revoked one that it is
in none of them. Both are established by requests that were alone from beginning to
end: `Apart` (such a request is the only one), `Creating` and `Removing` (what it
has done so far). `Numbered`, `Unwritten` and `OneBlock` follow the keys, of which a
file never has two blocks, so that removing one removes the peer. A peer counts as
given only as long as nobody goes by an emptied file (lemma `SeenIs`). The lemmas
`AppendedKeeps`, `WithoutKeeps` and `LoadedServes` say what appending, removing and
loading do to keys and owners of addresses in a file of any length; the least free
address and the last block with an address exist by the well-foundedness of `<`.

*Xray configuration.* `LineageStep` says once for every step where a
configuration may come from: the file, a backup, a tested candidate. `Tests` (all
of these have passed the test) follows. `Kept` needs `Turns` (while an operation
is alone, the file is what it wrote or put back) for the step that answers, and
`Words` for all others: every operation under way *respects* what was told, that
is, it is about other inbounds, and its candidate and its backup agree with it.
`Synced` is not inductive either: `Syncs` says that somebody is still to restart
Xray, or to hand over the file, whenever it is not done; `HasFile`, that there is
no way back to having no file, so an operation with a backup will restart.

*SSH accounts.* What an answer said of a lock holds (`Answers`) because of what is
under way. `Apart`: a request that is alone with its accounts shares none of them
with another request. `InHand`: while a request about an account's lock is under
way, no earlier answer about it is relied on. `Extending`: the row that an extension
has read of a suspended account, and the one it will write, is switched off, so that
writing it back does not switch the account on. `AsAsked`: a request about to write
its row, alone, has set the lock it was asked for. `Lapsing`: the rows in the
enforcer's hands, and the accounts it will lock for their end, are noted in the
history. One lemma for each says that a step of a request keeps it, and
`ArrivalKept`, `CrashKept` and `OutsideKept` cover all other steps. The proof allows
any number of failed commands; the run `ssh_accounts` has none.
`ClosesOnlyOffenders` follows a pass from its rows to its last session
(`SteadyInv`): a steady session is within its limits, the rows held are those of its
account, and once the verdicts are made none names it. Why none does is a matter of
counting (`WithinNotOver`): the sessions over a limit are those that
follow as many as are allowed, and a user with no more sessions, or
addresses, than that has none left over. What makes an account leave the
steady ones in the middle of a pass is in `OthersLeaveThePass`.

*Updater.* The refinement rests on `PromiseInv`: the rollback is armed whenever
files are being replaced (`ArmedWhenReplacing`), so that only there what is
installed is what would be brought back; the point taken is what the disk holds
until then (`PointSaved`); libraries belong to the requirements they were installed
from (`LibrariesFollow`), which is why repeating `pip` brings them back;
`Progress` says which parts are of the new release at each point of the script and
`Restored` which are of the old one at each point of the trap. Every step then maps
to one of the abstract module or to a stutter, and most of them to a stutter.
`VerdictTrue` needs what the health check has seen to last (`VerdictInv`), and
`SiteKept` that the rollback point's site is one of those the history has
(`SiteInv`). The invariants hold under the steps of `PanelSite` too, for any number
of threads. `AnswersTrue` is about a request that meets nobody (`AloneInv`): no
other request and no update is in flight then, so the file is what it has read,
written or had tested (`OnItsWay`, which says nothing while the file is emptied), and
before its last step nginx and the file are of the new name, or the file is the
original again. A panel that dies answers nobody (`DeathAnswersNobody`), and leaves
nothing in flight, so the next request is on its way whatever it reads.

*Migration.* `ExportAgrees` follows an untouched item through the export: what
each part of the bundle says of it is what the source says. `RestoreAgrees` says
what each stage of the restore has already brought over, whatever it found, and
`ServesAgrees` where the services may run, with `harm` for the two exceptions.
`Migrates` and `ServesWhole` are the two ends of these.

Every invariant and action property that a passing run checks is stated by one of
these theorems. Only model-checked are the liveness properties: `PolicyEnforced` and
`PeriodsTurn` of metering, `RevocationSticks`, `RenewalDelivered` and
`RestoreReaches` of the licence, `ExpiryEnforced` and `LimitsEnforced` of the SSH
enforcer, `ServesAgain` of the updater and `RestoreEnds` of the migration. They need
fairness and with it ENABLED, which the prover does not handle. Refuted properties
are not proved, of course; their counterexamples come from TLC.

## 5. Plan

Done: `SupportGrants` and `RateLimit`, `ProtocolClients` with `TrafficMeter`, `LicenseLease`,
`WireGuardPeers`, `XrayConfig`, `SshPolicy`, `ReleaseUpdate` with `PanelSite` and
`AtomicRelease`, `PortableMigration`, all with proofs.

Left, in order:

1. `ConfigStore`: a configuration that changes as a whole or not at all, which a
   single operation of `XrayConfig` without crashes and with a file to go back to
   implements.
2. `LoginThrottle`: `/login` with its slow hash and TOTP over `RateLimit`.
   Theorem: a block set while no other login of the address is in flight stays
   until it ends or a login succeeds. Overlapping failures get no bound: the read and the
   upsert of `record_login_failure` (`db.py:469-484`) are two statements, and a slow
   request can write an older count back.

Not planned, because there is no state of the repository's own that several steps
relate: OpenVPN, support tickets and what section 1.1 lists at its end.
