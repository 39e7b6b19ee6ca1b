# TLA+ models of dolt's branch control, blobstore manifest, dolt_log and multi-arch image publishing

This directory holds TLA+ models of the parts of the repository under `src/`:

- the `dolt_branch_control` rule store, `branch_control.Access` (`access.go`);
- the SQL table editor that changes that store, `dtables.BranchControlTable` (`branch_control_table.go`);
- the blobstore manifest of the noms block store (`src/unnamed/part_002`);
- the argument handling of the `dolt_log` table function (`src/unnamed/part_003`);
- the script that publishes the multi-arch docker image (`src/unnamed/part_001`), with the arm64 image's Dockerfile (`part_000`).

The models are checked with TLC. `PROJECT.json` lists:

- the components;
- the runs and their mutants;
- the map from each definition to the source lines it models;
- the findings and the hazards.

## The system

### Rule store (`access.go`)

`Access` keeps four parallel slices:

- `Branches`, `Users` and `Hosts` hold `MatchExpression{CollectionIndex, SortOrders}`;
- `Values` holds `AccessValue{Branch, User, Host, Permissions}`.

The slices are parallel (invariant I1). The `CollectionIndex` of the expression at position *i* must be *i* (invariant I2), because `Match` uses it to find the row's other columns.

`Match(branch, user, host)` works in passes:

1. It returns admin at once for the superuser.
2. It matches every user expression (binary collation).
3. It keeps the hosts at the surviving collection indexes (`filterHosts`) and matches them (ai_ci collation).
4. It does the same for branches (`filterBranches`).
5. It ORs the permissions of the rows left (`gatherPermissions`).

`GetIndex` finds a folded triple by a linear scan. A `sync.RWMutex` guards everything.

### Table editor (`branch_control_table.go`)

`Insert`, `Update` and `Delete` each take the write lock for the whole call and release it with `defer`, so each is atomic with respect to the others. Each handler goes through the same steps in order:

1. It folds the three expressions: `FoldExpression`, then `ToLower` for branch and host.
2. It checks the lengths against `MaxUint16`.
3. It checks self-authorization: the session must hold admin on the folded branch pattern, matched as if it were a branch name.
4. Insert and Update also run a subset check: the new row is refused if the table already grants admin on it.
5. Finally it calls `insert` (append with the next collection index) and/or `delete` (swap with the last row, then truncate).

An SQL `UPDATE` reads its rows first through `PartitionRows`, under the read lock, and calls `Update(old, new)` later. Other sessions may change the table in between. `PartitionRows` also returns a synthetic superuser row that is not stored.

The statement hooks (`StatementBegin`, `DiscardChanges`, `StatementComplete`) are empty, so a failed multi-row statement is never rolled back. Spec §9 leaves that rollback to a future journal layer, so each row of a statement is modelled as its own `Insert`. `Close` calls `SaveData`, which is outside `src/` and serializes the store.

### Binary codec (`access.go`)

`Serialize` writes the binlog and four flatbuffers vectors. Each vector is built back to front, by prepending the element offsets from the last one down. `Deserialize` refuses a non-empty store and vectors of unequal lengths (I1). It then reads every element back, `CollectionIndex` included, and checks nothing else.

### Pattern language (spec §4.1–4.2)

`FoldExpression`, `ParseExpression` and the LIKE matcher are in files that are not under `src/`. They are modelled from the specification:

- `%` matches zero or more characters;
- `_` matches exactly one character;
- runs of `%` fold to one `%`.

### Blobstore manifest (`part_002`)

The manifest is one blobstore object. Its contents are named by a lock hash.

- `ParseIfExists` reads the object and reports a missing one as empty contents.
- `Update(lastLock, newContents)` does three things:
  1. It calls `Get` and reads the version and contents.
  2. It compares the lock it read with `lastLock`.
  3. If they are equal, it calls `CheckAndPut` conditioned on that version.

  If the put loses the race, it returns the contents it read. Both blobstore calls may fail with an I/O error.

### `dolt_log` table function (`part_003`)

`WithExpressions` configures the table function from its SQL arguments:

1. `addOptions` parses all arguments with the log option parser. It reads `--not`, `--min-parents`, `--merges`, `--parents` and `--decorate`, and refuses an unknown `--decorate` value.
2. Its own filter takes as revisions every argument that neither contains `--` nor follows one that does. More than two revisions are refused.
3. `validateRevisionExpressions` refuses the combinations of `..`, `^` and `--not` that it does not support.

`RowIter` then calls `evaluateArguments`:

- `x..y` means y excluding x;
- `^x` excludes x;
- a second argument's non-empty parts override the first's;
- `--not` overrides the excluded revision.

It resolves the revisions. Without a revision it logs the session head. It walks the commits reachable from the tip, drops those reachable from the excluded revision, and keeps those with at least `minParents` parents.

### Multi-arch image publishing (`part_000`, `part_001`)

Each arch has an image job. The job builds its image (the arm64 one from the Dockerfile), pushes it as `<virtual>-<arch>`, and then runs the manifest script. The script:

1. downloads a docker cli with `curl | tar`;
2. runs `manifest inspect` on the amd64 and the arm64 image, and blanks the name of each one that fails;
3. runs `manifest create` for the virtual image with the names left. An empty name vanishes from the unquoted command line;
4. annotates the arm64 entry, then runs `manifest push`, which replaces the virtual image in the registry;
5. runs `rm -r docker-cli ~/.docker`.

The script has no `set -e`, so its exit status is that of `rm`. The jobs run on separate machines, and the registry is the only state they share.

### Not in these models

- In the image jobs, the `VIRTUAL_IMAGE` name derivation, the cli config file and the platform annotation are not modelled. An arch stands for its image, and no property looks at the annotation.
- The row layout of `dolt_log` is not modelled: parent and ref decoration strings, and the order of the topological walk. The log option parser and the commit walk are outside `src/`. They are modelled as `--flag [value]` parsing and as reachability through parents.
- The binlog is not written by any code in `src/`, so its serialized form is always empty.
- `filterUsers` is never called. The table metadata methods (`Name`, `Schema`, `Collation`, `Partitions`) change no state.
- The byte layout of flatbuffers is abstracted to records of the serialized fields. Only the order of vector elements is modelled, because that is what the builder loop decides.

## Modules

| Module | Models | State | Actions |
|---|---|---|---|
| `Matcher` | folding, parsing and LIKE (spec-modelled), `strings.ToLower` | none (operators) | none |
| `BranchControl` | `Access` and `BranchControlTable` | `tbl` (the four slices), `selected` (the row each session's UPDATE read) | `SelectRow`, `Insert`, `Update`, `Delete`, `Restart` |
| `MCBranchControl` | constants for TLC | | |
| `MCAccessCodec` | `Deserialize` applied to every small saved blob | `fb` (constant) | none |
| `BlobstoreManifest` | `blobstoreManifest` | `store` (object: exists, version, lock), per-writer `pc`, `lastLock`, `newLock`, `read`, `upstream`, `ret`, history `written` | `ParseIfExists`, `UpdateRead`, `UpdateReadFails`, `UpdatePut`, `UpdatePutFails` |
| `AtomicManifest` | the abstract manifest: an atomic compare-and-set register with per-client views | `lock`, `view` | `Learn`, `Commit` |
| `MCBlobstoreManifest` | constants for TLC | | |
| `DoltLog` | `LogTableFunction`: `NewInstance`, `WithExpressions` on its receiver, `addOptions`, the revision filter, `validateRevisionExpressions`, `evaluateArguments`, `getRevisionsFromExpr`, `RowIter` | none (operators over the argument list) | none |
| `MultiArchManifest` | the arch image jobs and the manifest script | `images` and `manifest` in the registry; per job `pc`, `cli`, `found` (names not blanked), `local` (its local list) and `exit` | `PushImage`, `Setup`, `Inspect`, `Create`, `Push`, `Remove` |
| `MCMultiArchManifest` | the two arch jobs | | |
| `MCDoltLog` | every argument list of up to three arguments, over a four-commit history with a merge | `args` (constant) | none |

### How `BranchControl` follows the code

Each handler is one action. Its result is computed by an operator that follows the early returns in the order of the code:

- `InsertResult` and `UpdateResult`;
- `UpdateApply`, for Update's delete-then-insert;
- `DeleteResult`.

A state change happens only on the `"ok"` path. A `Match` whose stale collection index falls outside a slice would panic. It is modelled as `MatchPanic`: the handler ends without changing the table, because the engine recovers the panic and the deferred unlock runs.

Strings are sequences of one-character strings, and permissions are bit sets combined with `|` and `&`.

`Restart` is a server restart. The store `Close` last saved, which is the current store, is serialized and then deserialized into a new empty `Access`. The sessions' pending UPDATEs end with it.

`Delete` takes its row from `PartitionRows` in the same step. Deleting a row that is already gone is a no-op, so reading it earlier adds nothing. `Update` takes its old row from a previous `SelectRow` step, so that races between the read and the update are explored.

### How `DoltLog` follows the code

Strings are sequences of symbols. `.`, `^` and `-` are characters, and a ref name or a flag word is one symbol, because no check looks inside them. `strings.Contains`, `Split` and `TrimPrefix` are modelled by what they do.

- `validateRevisionExpressions` is a sequence of (condition, argument named in the error) pairs in code order. The first condition that holds decides the result. An error that names a nil expression is a panic, because `invalidArgDetailsErr` calls `String()` on it.
- `getRevisionsFromExpr` reads only the first two pieces of the split, as the code does.
- `RowIter` returns the set of commits listed. The walk's order is not modelled.
- A `LogTableFunction` is a record. `WithExpressionsOn(ltf, exprs)` is `WithExpressions` on the receiver `ltf`: like the code, it assigns `--not` and each revision field only when the arguments give one. `NewInstance` is `WithExpressionsOn` on `FreshLtf`, the zero value.

### How `MultiArchManifest` follows the code

Each job is a `pc` through one action per script step: `PushImage`, `Setup` (`curl | tar`, `mkdir`, the config and the names), `Inspect` (both inspects), `Create`, `Push` (annotate and push) and `Remove`. A networked command's result is drawn from `Outcomes`, which is `{TRUE}` unless `NetworkFails` holds. Commands that run without a `docker-cli` fail. `found` holds the arches whose name variable is still non-empty. `Create` lists exactly those, and fails when none are left. `Push` replaces the registry's list with the local one. `Remove` sets the exit status, which is 0 exactly when `docker-cli` exists.

### How `BlobstoreManifest` follows the code

`Update` is split at the only point where another writer can act: between the `Get` and the `CheckAndPut`.

- `UpdateRead` is the Get and the lock comparison.
- `UpdatePut` is the conditional put and the return.
- `UpdateReadFails` and `UpdatePutFails` are the I/O-error paths. A failed put may or may not have written.

`BlobstoreManifest` is shown to implement `AtomicManifest` by `INSTANCE AtomicManifest WITH lock <- ParsedLock(store), view <- upstream`. The abstract `Spec` is checked as the property `ImplementsAtomicManifest`.

The blobstore gives every write a new version. Each writer stands for a client that keeps the lock it last learnt and passes it as `lastLock`.

## Runs

| Run | Checks | Result |
|---|---|---|
| `bc_safety` | `TypeOK`, `UniqueTriples`, `PipelineSound`, `UpdateAllOrNothing`, `InsertNeverRevokes` | pass |
| `bc_over_grant` | `MatchNeverOverGrants` | violation: insert (`_`,`%`,`%`) and (`a`,`%`,`%`), then UPDATE the first to (`_`,`u`,`%`,admin); the moved row keeps index 1, so its `%` user pattern reaches the new row's branch `_` and admin bit |
| `bc_match_panic` | `MatchNeverPanics` | violation: insert (`_`,`u`,`%`,admin) and (`_`,`%`,`%`,admin), delete the first; the remaining row carries index 1, and every access check it matches indexes `Hosts[1]` of a one-row store |
| `bc_self_authorization` | `SelfAuthorizationSound` | violation: with admin only on `_`, `u` UPDATEs the synthetic superuser row (`%`, root) to (`_`,`%`,`%`,admin): the check at line 246 reads the pattern `%` as the one-character name `%` |
| `bc_dead_rows` | `NoDeadRows` (I4) | violation: a narrow row stored first and a broad admin row stored after it, e.g. insert (`_`,`%`,`%`,write), then (`%`,`%`,`%`,admin) |
| `codec_invariants` | `DeserializeChecksInvariants` | violation: a blob with a two-character string loads although the limit is one |
| `manifest_cas` | `TypeOK`, `ImplementsAtomicManifest` | pass |
| `manifest_missing` | `UpdateNeverNotFound` | violation: Update on an absent manifest |
| `dolt_log_range` | `LogMatchesGitRange`, `AcceptedCallsResolve` over revision arguments and `--not` | pass |
| `dolt_log_flags` | `LogMatchesGitRange` with `--merges` and `--parents` added | violation: `dolt_log('--merges', 'a')` logs the session head, not `a` |
| `dolt_log_panic` | `ArgumentsNeverPanic` | violation: `dolt_log('--not', 'a')` panics on a nil expression |
| `multiarch_race` | `PublishedWhenAllSucceed` | violation: both jobs exit 0, but the amd64 job's stale one-arch list is pushed last |

What each property says:

- **`PipelineSound`.** Whenever I2 holds, the three-pass `Match` gives the same answer as a plain reading of the rules: a row applies when all three patterns match. This must hold for every branch, user and host the model can ask about.
- **`UpdateAllOrNothing`.** An `Update` either leaves the table unchanged, or replaces the rows with the old triple by exactly one row. This covers a stale old row, which makes the update insert without deleting.
- **`SelfAuthorizationSound`.** Every branch a successful write covers is one on which the caller already held admin.
- **`ImplementsAtomicManifest`.** However the two halves of concurrent Updates interleave, and whatever I/O errors occur, every write starts from the writer's current lock. Every lock a client adopts was the manifest's lock when adopted.
- **`NoDeadRows`.** This is the subsumption invariant I4, restricted to the case the code cares about: no row is covered, on every candidate it matches, by another row granting admin. Coverage is decided over the candidate names, users and hosts of the model. These include every pattern's own folded text, so a pattern always covers itself.

- **`InsertNeverRevokes`.** Spec §8 says adding a row only adds permission bits. This is checked for every branch, user and host. A `Match` that panics counts as granting nothing, so the stale indexes left by `delete` are covered.
- **`MatchNeverOverGrants`.** `Match` never grants a bit that no row matching on all three patterns grants. Unlike `PipelineSound`, it is not conditional on I2.
- **`MatchNeverPanics`.** Every access check returns an answer: the indexes one pass of `Match` yields are always positions of the slice the next pass indexes. The stale index `delete` leaves breaks this with no UPDATE involved, and the resulting panic also hits the editor's own checks, so only the superuser can still change the table.
- **`LogMatchesGitRange`.** An accepted `dolt_log` call lists the commits git log lists for the same positional arguments. `x..y`, `y ^x`, `^x y` and `y --not x` all mean y excluding x.
- **`ArgumentsNeverPanic`.** Every argument list ends in a table function or an error, never a panic.
- **`AcceptedCallsResolve`.** When every revision and the `--not` value name refs, a call that `WithExpressions` accepts is one `RowIter` can run. Validation and evaluation read the arguments separately, so the checks of `validateRevisionExpressions` must refuse every shape that `evaluateArguments` cannot turn into resolvable revisions. The mutant drops the check on a range in the second argument.
- **`PublishedWhenAllSucceed`.** Once every arch job has finished with exit status 0, the virtual image lists every arch image in the registry.

Each property of a passing run has a mutant in `PROJECT.json`. The mutant is a plausible bug in the mapped code that TLC shows breaks the property.

### Bounds

**Branch control**

- Two sessions: the superuser `r@h` and `u@h`.
- Branch patterns `A`, `%%` (which folds to `%`), `_` and `a%`. `a%` is longer than the length limit of 1 and is never stored: it drives the `ErrExpressionsTooLong` return of Insert and Update.
- User patterns `u` and `%`. Host pattern `%`.
- Permissions admin and write.
- At most 2 stored rows.

Two rows are enough for the swap in `delete` to move a row, and for one row to subsume another. Two sessions are enough for one to change the table between another's read and update. The candidate branch names `a`, `aa` and `%` let `_` and `%` tell one-character, longer and wildcard names apart. The host column is fixed at `%`, because host matching runs the same code as branch matching.

**Codec**

`MCAccessCodec` enumerates every blob whose vectors hold at most one element. The strings are `a` and `aa`, and the length limit is 1.

**Image jobs**

- The two arches the script names, one job each, each running the script once.
- `NetworkFails` is `FALSE` in `multiarch_race`, so the race shows with no command failing.

With `NetworkFails` set to `TRUE`, every networked command may also fail. Then TLC breaks the same property by a shorter path: every inspect fails, nothing is pushed, and both jobs still exit 0, because only `rm` decides the status.

**Manifest**

- Two writers.
- Four lock hashes, which allow three successful writes.

This is enough for both writers to read the same version, and for one to lose the put. No symmetry reduction is used: the writers' fresh locks are distinct values the refinement mapping reads.

**dolt_log**

- Every list of up to three arguments.
- The revision arguments `a`, `b`, `m`, `^a`, `^b`, `^m`, `a..b`, `b..a`, `a..a`, `b..b` and `a..`, plus `--not`. The flags `--merges` and `--parents` are used only in `dolt_log_flags`.
- The history is c1 ← c2 (`a`) and c1 ← c3 (`b`), with the merge c4 of both (`m`, the session head). So ranges differ, `..` and `^` point both ways, and `--merges` has a merge to keep.

The spellings `..b`, `a..b..c` and `a^` are left out. No document in the repository says what they should mean; see the hazard at `part_003:499`.

## Fairness

No run checks a liveness property, so no fairness is assumed. `Update` in `part_002` makes exactly one `CheckAndPut` after its Get and returns whatever it answers, with no retry loop, so its termination is not a question the code leaves open. The branch-control handlers are single locked calls with no waiting. The image jobs end by themselves, so `multiarch_race` does not check deadlock: a state where both scripts have exited has no successor.

## Open work

1. **Self-subsumption.** `Update` refuses to rewrite an admin row when that row subsumes its replacement. The specification describes the same check, so this is listed as a hazard and not checked.
2. **`a..b..c`.** `Split` on `..` accepts a revision with more than two ends. The specification does not say what this should mean, so it stays a hazard without a property.
3. **`dolt_log` rows.** The parent and ref decoration columns of `Next` could be checked against the history.
4. **Network failures of the image jobs.** `MultiArchManifest` models them (`NetworkFails`), but the one run of `PublishedWhenAllSucceed` leaves them off to show the race.
5. **The pattern language.** `Matcher` comes from the specification, not from code under `src/`, so no run checks it on its own.
