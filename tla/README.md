# Verification of tcl-dbi

tcl-dbi gives Tcl scripts one object interface to seven SQL backends. This
directory holds TLA+ models of its core logic, the TLC configurations that
check them, and theorems with proofs checked by TLAPS. The models are
translated from the C and Tcl sources; the manual
(`docs/man/interface_dbi.n`) and the conformance tests
(`lib/interface_dbi.tcl`) are where promises come from.

## 1. The system

A Tcl command (`dbi_sqlite3`, `dbi_firebird`, ...) makes a *dbi object*: a Tcl
command with a C record behind it. The record holds the connection, the current
statement or result, the statement cache, and links to *clones*: objects that
share the connection (and, where the backend can, the transaction) of a parent
but have a result of their own. Tcl calls one method at a time, and a method runs
to its end but where it calls back into Tcl: the SQL functions, collations and
progress handlers of dbi_sqlite3, whose scripts could call methods again (such
re-entry is not modelled), and the proc `errorclean` of dbi_firebird and
dbi_interbase, which calls exec on the object whose method has just failed (that
is modelled). So within a process the hard part is the order in which a script
calls methods of several objects that share C data; between processes it is the
database that is shared. Nothing in the extension starts a thread.

| part | state | operations | what is hard |
|---|---|---|---|
| `dbi_sqlite3` exec (`sqlite.c`, `dbi_Sqlite3_Exec`) | prepared statements, `preparedhash`, `stmt`/`cached`, the transaction | exec with several commands, `-cache`, `-usefetch`; begin, commit, rollback | one statement is prepared ahead; a failure can happen in every phase and each has its own clean-up; a commit may be refused |
| `dbi_sqlite3` objects (`sqlite.c`, `dbi_sqlite_incrblob.c`) | the records, `clones`/`parent`, the `sqlite3` pointer, callbacks, blob channels | new, open, create, clone, close, drop, destroy, function, collate, progress, incrblob | pointers shared by parent and clones; Tcl deletes a command when its name is reused |
| `dbi_sqlite3` serials (`lib/init.tcl`) | the table `_dbi_serials` | serial next, set, add, share, delete; a trigger | several processes; a lock in a row that survives crashes and is broken after a time |
| `dbi_sqlite3` fetch | position in a live statement | fetch, fetch lines, pos, current | a forward-only statement serves random access; a statement that has ended is executed again by the next step |
| `dbi_sqlite3` get, set, insert, unset, delete | the table, the statement cache | record by record access | set is an update and then perhaps an insert |
| `dbi_sqlite3` import, backup, restore | a transaction of its own | bulk copy | import ends the user's transaction; a busy source |
| `dbi_firebird`, `dbi_interbase` | transaction and autocommit shared through the parent, `cursor_open`, `out_sqlda`, blobs | exec, fetch, blob, begin/commit/rollback, reconnecting | a commit closes the cursors of all objects unless it is retained; the error handler rolls back and attaches again in the middle of a method |
| `dbi_postgresql`, `dbi_mysql`, `dbi_odbc`, `dbi_sqlite` | result in memory or in a statement, position, autocommit flags | the same methods | several commands in one exec, refused begins and commits, closing and reopening inside a transaction |
| Tcl libraries of the backends | - | schema information | queries without state |
| `lib/interface_dbi*.tcl`, `TblEditor.tcl`, build files | - | tests, a Tk editor, packaging | not part of the running system |

What makes them correct, in short: an exec is atomic unless the user has a
transaction open, and then it neither commits nor splits that transaction; a
prepared statement is finalized once and never used afterwards; no object uses
a connection or a record that was freed; closing and destroying reach every
clone; fetch reads rows of the result it belongs to; a serial never gives a
number twice, whatever processes die.

## 2. Modules

### Sqlite3Exec, AtomicExec

`Sqlite3Exec` is `dbi_Sqlite3_Exec` phase by phase: `Call` (entry, clearing of
the old result, cache lookup), `PrepareFirst`, `LookAhead` (prepare the next
command, reject several commands with `-cache`, begin a transaction at the first
look ahead that finds one), `StepDone`/`StepRow`/`StepError`/`StepSoft` (bind
and `sqlite3_step`, by its result), `AutoCommit`, `Deliver`, `Fail` (the error
exit). `UserBegin`, `UserCommit` and `UserRollback` are the three methods. The
record `x` holds the C function's locals, `h` the fields of the object, `conn`
the transaction of the connection with its pending and durable effects.

A text is abstracted to the number of its commands and whether anything follows
the last one: `*nextsql` is all the code looks at. An effect is the pair (call,
command). `NULL` with and without an error of the look ahead are two values
(`Bad`, `Null`), because `stmt2` and `error2` together decide how the loop goes
on. `Soft` results are those of `sqlite3_step` that are neither row, done,
`SQLITE_ERROR` nor `SQLITE_MISUSE`; `"rollback"` is one that ends the
transaction (`OR ROLLBACK`). Finalizing a statement twice is undefined
behaviour: `misuse` records it and nothing is claimed afterwards.

`AtomicExec` is the promise: a call publishes the effects of all its commands in
one step or reports an error and publishes nothing. `Sqlite3Exec` implements it
under the mapping at its end.

### Sqlite3Session

The life of objects. Every action is a whole method. A statement is named by
its text, a connection by its number; `con` is the library's view of the
connections (open, closed, or *leaked*: `sqlite3_close` was refused because
statements or blob handles were left). Statements that no object can reach any
more make a connection `lost`, callbacks whose owner was freed make it `stale`.
`fault` records the use of freed memory; nothing is claimed afterwards. Its
three sources are known: a connection closed by a failed `sqlite3_open`
(`UseClosed`), a callback of a destroyed clone (`RunCallback`,
sqlite.c:2052-2062), and a clone given the name of its own parent (`Clone`,
sqlite.c:2720-2728) or a nameless root destroyed under its clones.

### Sqlite3Serial, Sqlite3SerialProofs

`serial_next` exec by exec, for any number of processes: lock-and-increment,
read, unlock; after `MaxTries` attempts begin, increment, read, unlock, commit.
Each exec is atomic (SQLite makes it so) and may be refused or fail (`Error`),
which ends the procedure wherever it is. `Crash` rolls back the transaction and
leaves a locked row locked. Users' transactions on the same connection are
there because the private clone that `serial_next` works on shares it. Three
constants switch circumstances: `Overlap` (a process that others have waited
for in vain is still alive), `Inserts` (inserts take numbers by the trigger of
`serial add`), `UserTxns`. A number returned in a transaction counts as handed
out; rolling the transaction back takes it back.

### Sqlite3Records, Sqlite3RecordsProofs

What an open `dbi_sqlite3` object and its clones do with data: fetch with a line
number, `current`, or the next line; get, insert, set, unset and delete by id;
begin, commit and rollback; import, backup and restore. The table is a function
from ids to the values of the rows with that id, once as the connection sees it
(`work`) and once as committed (`kept`). A result is the number of its lines, the
position that the C record keeps (`tuple`, `ntuples`) and the line the statement
stands on (`at`); the two are kept apart because the code keeps them apart.
`set` is two actions, `SetUpdate` and `SetInsert`, because it is two statements;
`Elsewhere` is another process, which may come between them. Import is one
action: it runs in a transaction, and its loop is a recursive function of the
number of lines done, in the order of the file.

### DbiFetch

What fetch promises, for any backend: a result has a number of lines, lines are
given in order or by number (only forward, where the backend can only go
forward), none of another result, and what is refused is not there or has been
passed. `Clients`, `FirebirdFamily` and `Sqlite3Records` implement it, each with
a refinement mapping of its own at its end.

### SqlServer, MysqlSession, PostgresqlSession, OdbcSession, SqliteSession, Clients

`SqlServer` is what lies behind a connection: a transaction with the writes
pending in it, and the durable writes. It is external code; it holds the
constants and the operators on a connection that the backends use. A write is a
number, a text a sequence of `"write"`, `"select"` and `"bad"` (a command that
fails). Each backend module has one action per method: `New`, `Open`, `Clone`,
`Close`, `Destroy`, `Dropdb`, `Exec`, `Fetch`, `Begin`, ... The four differ where
the code does: MySQL cuts the text (`SplitSQL`, which loses the last of several
commands when no semicolon closes it) and sends the commands one by one;
PostgreSQL sends the whole text and gets the last result; ODBC has an autocommit
mode and a transaction that an `exec -usefetch` leaves open; SQLite 2 wraps an
exec in a transaction of its own, but not the statements of insert, set, unset
and delete, of which unset, delete and the insert of a set may fail after rows
have changed (`Modify`, `SetInserts`). The record of an ODBC object has one field that
the C record does not have: `begun`, TRUE from a begin on this connection to its
commit or rollback. The code's own flag survives close and open, and so cannot
tell the properties whether a transaction is the user's. `Clients` is their disjoint union, chosen by `kind`, and
states the common properties once. `reply` is the answer of the last method:
what properties of a step need to know of it, among it the writes of the text
(`ids`) and those that were never sent (`unsent`).

### FirebirdSession, InterbaseSession, FirebirdFamily, FirebirdAttached

`FirebirdSession` is a family of objects with one attachment and one
transaction. The functions of the C code (`Transaction_Commit`,
`Transaction_Start`, `autocommit`, `Error`, `Reconnect`, `Free_Stmt`,
`Process_statement`) are operators on a record of the state and of how the
function has ended, so that a method is the same composition of them as in the
code, error exits included. `ConnectionLost` takes the connection away between
two methods; the next call that fails with -902 reconnects. The record of an
object says what the C code believes (`cursor`, `out`, `trans`, `blob`); `live`
says what the server has. When a command violates a key, the error handler calls
`errorclean`, which looks the key up with two or three execs of the same object
(`KeyError`, `IndexInfo`, `Query`); `ExecViolates` is an exec that fails so, and its
answer is `"violation"`. Other errors are not looked up: `errorclean` does nothing then.
`InterbaseSession` extends it: the methods of dbi_interbase are those of
dbi_firebird but for the error handler, which looks for a lost connection before
it rolls back (`RollsBackLost`) and calls `errorclean` before it rolls back
(`KeyError`), and fetch beyond the end (`IbFetch`).
`FirebirdFamily` lets the driver, `kind`, be either and holds the properties.
A parent that cannot attach again while a clone of it already has is followed up
in the model, but the handle of the transaction is then NULL although the clone
works in it; `ParentsAttached` says that this does not happen. `FirebirdAttached` adds
a history variable, `attached`, which says that it has not happened so far; as
long as that is so, `HandlesKnown` holds, and this is the property `HandlesKept`.

MC modules give the constants values, the symmetry sets, the views and the
constraints. A definition named like another one with an underscore
(`Lock_NotSet`) is a slip that could be made in it, and is used by no
specification; with it in place a property fails.

## 3. Runs

| run | shows |
|---|---|
| `exec_atomic` | refinement of `AtomicExec`, effects in order and at most once, failed calls undone, every call returns |
| `exec_statements` | cache and current statement alive, no transaction left by an exec, double finalization only where known, user's transaction kept |
| `session_objects` | clone tree, results of parents, pointers to connections and their owners: three names and two connections |
| `serial_unique` | no number twice, lock exclusive |
| `serial_returns` | numbers covered by the committed serial, calls come back |
| `clients` | MySQL, PostgreSQL, ODBC and SQLite 2: what is left of an exec that fails and what is lost of one that succeeds (`ExecAtomic`), the user's work kept by every other method, fetch implements `DbiFetch` |
| `firebird` | Firebird and InterBase: handles and flags never say less than is open as long as parents with clones have been attached, results survive the work of other objects, failed texts leave nothing, also when the error handler executes texts of its own (in InterBase nothing pending), the user's work kept, fetch implements `DbiFetch` |
| `records` | `dbi_sqlite3`: fetch implements `DbiFetch`, records change as reported, imports are whole |
| `exec_soft` | *violated*: changes of an exec whose command failed softly stay |
| `exec_rerun` | *violated*: a text ending at its last command is repeated for ever |
| `session_leak` | *violated*: close leaves the connection open |
| `serial_trigger` | *violated*: serial next and an insert get the same number |

Bounds. Exec: three calls, because a hazard needs at most one call that fills
the cache, one that hits it or fails, and one that meets what is left; texts of
up to three commands, so that there are a first, a middle and a last one;
`MaxRuns` stops repeated commands. `exec_atomic` leaves out soft results, row
faults and texts that stop at their last command, where the code does not keep
the promise (`exec_soft`, `exec_rerun`; a row that fails after the first also
comes after the commit); `exec_statements` has all of them. Session: three
names allow a root with two clones, a clone of a clone, and a name being reused
in either place; two connections allow objects to reopen and to replace each
other. With all three objects alive only one connection is used (`InScope`):
families share nothing but names, and two objects are enough for one to replace
the other. Serial: two processes and three calls let a process die holding the
lock, another break the lock, and both go on.

Clients and Firebird: an object and a clone are the smallest family in which one
object can harm another; whole families do not touch one another (`OneFamily`).
Results have no line or two, so that there are a first line, a last one and one
past the end, and a result without lines; the models assume that some result
has a line (`Sizes # {0}`), for dbi_firebird's uninitialized position is a line
of it. `MaxWork` bounds the writes: two
let a text write twice around a failure; one is enough for Firebird, where the
question is whether anything is left. Two connections, each used once, allow a
reopening or a reconnection. With three connections, where a parent can be
attached again after its clone has been, `HandlesKnown` without `attached` is
violated within a minute, and the other properties of the run hold; that takes
four minutes, and so the run has two. `HandlesKept` is proved for any number.
What a blob does to the transaction is followed up with Firebird only, since the
code of InterBase is the same there, and one blob at a time (`BlobsOnce`): steps
that open a second blob are checked, but not followed up; lost connections are followed up with both, whose
error handlers differ. Views drop the last answer, the names of the results (a new one differs from
the one before it, that is all) and the durable writes before the step, which no
property looks at in the next step; whether the last answer was the one that
changes nothing else is kept, or a step from it would be taken for stuttering.
Records: an object and a clone, one id, two rows of it at most, files of one and
two lines with a conflict or a line that is too wide.

Deadlock is not checked where the script may stop calling.

Fairness. `exec` is a C function: once called it runs on (`WF` of `ExecStep`).
`serial_next` is a Tcl procedure that runs on while its process lives (`WF` of
`Progress(p) \/ Refused(p)`: `Refused` is the error that a busy database makes
inevitable); any other `Error`, and `Crash`, are never required to happen. Nothing
is assumed of users. With `Overlap` false the forced update waits for a process
that is still at work; this is the assumption that processes are fast compared
to 199 tries, and liveness is checked without it.

## 4. Proofs

`Sqlite3SerialProofs` proves, for any set of processes and any bounds:

* `SerialTypes`: the type invariant;
* `SerialCovered`: `GivenCovered`, with no assumption on the environment;
* `SerialUnique`, `SerialLock`: `UniqueSerial` and `LockExclusive` when
  `Disciplined`, that is, no lock is taken from a living owner and no insert
  goes past the lock. `serial_trigger` shows that the second is needed; the same
  instance with `Overlap` shows it for the first.

The argument has two layers. `BaseInv` says who has written in a transaction
(`WriterInv`), that a transaction never lowers the serial (`DraftAbove`), that a
number is covered by the committed row or, if not final, by the draft of the
process it was given to (`GivenInv`), and the same of a number read and not yet
returned (`CurrentInv`). `GivenCovered` alone is not inductive: a commit makes
the draft the row, so the draft must be covered too. `ExclInv` adds that one
process at a time works on the row (`Alone`), that the holder of the lock sees
it locked and that a transaction of another process has not changed the row
(`Locked`), that the holder's number is above all handed out (`NewInv`), and
that what it has read is that number (`ReadInv`).

`Sqlite3ExecProofs` proves of exec, for any texts, results and failures:

* `ExecTypes`: the type invariant;
* `ExecNoStray`: exec leaves no transaction of its own (`NoStrayTransaction`);
* `ExecUserKept`: exec never commits the user's transaction or drops a part of
  it (`UserTransactionKept`, an action property).

They follow from one inductive invariant, `ExecInv`: the pointer to the current
command holds a statement whenever a command is about to run (`StmtInv`); a
transaction that exec has opened is recorded in the variable of the running call
that ends it, in the phases that lead to such an end (`OwnInv`); and a call that
finds the user's transaction does not record one (`UserInv`). Neither
property is inductive alone: they say nothing of `toclose`, which decides what
the error exit does.

`Sqlite3ExecCacheProofs` goes on with the statements: `ExecCacheLive`,
`ExecCurrentLive` and `ExecDoubleFinalize` prove `CacheLive`, `CurrentLive` and
`KnownDoubleFinalize` for any texts, results and failures. `CacheInv` is the
inductive invariant. A statement is identified by the call that prepared it and
the number of its command, and that is what the invariant speaks of: the cache
holds first commands only, each under one text, and none prepared by the running
call but under its own text (`UniqueInv`, `PreparedInv`); the current statement
of the object is such a command or one of the last call without `-cache`
(`CurrentInv`); the pair of statements that the loop works on is open, belongs to
the running call, and is a pair of different ones while there is text left to
prepare (`RunningInv`). Without `RunningInv` the properties say nothing of what
the error exit will finalize next.

`Sqlite3ExecEffectProofs` is about effects:

* `ExecInOrder`: `EffectsInOrder`, when every text goes on after its last command
  (`Tailed`), by `OrderInv`: the effects so far come before the command that the
  phase is about to run;
* `ExecFailedUndone` and `ExecRefinesAtomic`: `FailedExecUndone` and the
  refinement of `AtomicExec`, when no command fails softly or after its first row
  (`NoLateFailure`), by `EffectInv`: until it commits, the effects of a call are
  pending in its own transaction or in the user's, unless it is the one command of
  its text. The refinement is proved step by step: a phase is a stutter of
  `AtomicExec`, except the one that publishes or reports.

The two hypotheses are the limits of the code's promise and not of the proof:
`exec_rerun` is the counterexample without the first and `exec_soft` without the
second. `exec_atomic` has both, and the other theorems on exec need neither.

`Sqlite3SessionProofs` proves, for any names, texts and connections and whatever
calls fail, `SessionTypes`, `SessionTree`, `SessionNoDead`, `SessionOwner`,
`SessionResult` (`TypeOK`, `CloneTree`, `NoDeadConnection`, `OneOwner`,
`ResultOwned`) and the action property `CloneKeepsParentResult`
(`SessionParentResult`). They rest on one invariant, `SessionInv`, which is stated of
any state of objects and connections (`Good`), because a method may be two
changes: a clone given a used name destroys the object of that name first. It
adds to the properties that clones belong to roots and share their connection
(`Tree`), that the connection of an object is open exactly if it has a database
name, is used by one family, and is used at all while it is open (`Links`), and
that a result has a statement in the cache or a plain one (`Results`). None of
the properties is inductive: `NoDeadConnection` needs one family per connection,
or closing one root would close the connection of another; that needs the tree.

`ClientsProofs` proves every property of `Clients` for each of the four backends.
`ClientTypes` and `ClientTree` are `TypeOK` and `CloneTree`. The tree is stated once (`Family`) of
the records, the connections they point to, and the links of those; the methods
of all four are changes of a root, attachments or detachments of a clone.
`ClientInv` adds for each backend what its other methods rely on: a MySQL
object with a database name has a connection, and so does one with clones; in ODBC
the number of the last line, once known, is not below that of the result (`Sound`), or fetch
could leave its lines, and a connection in use has a transaction; in SQLite 2 the
flags agree: a transaction of the user is one that is open, and an object with a
connection has a database name (`Settled`).

Three of its properties of steps rest on `ClientInv`:

* `ClientWorkKept`: `UserWorkKept`. A method other than those that end a
  transaction changes a connection at most by executing a text, which keeps what
  is pending, or by committing or rolling back what exec itself has begun. Who has
  begun what is in the flags of the root: in ODBC and SQLite 2 exec ends a
  transaction only in autocommit mode, which a family with a transaction of the
  user is not in, because a connection belongs to one family (`Family`);
* `ClientExecAtomic`: `ExecAtomic`. Of an exec that fails outside the user's
  transaction nothing is left in PostgreSQL, SQLite 2 and ODBC (save on a connection
  of ODBC where autocommit was lost: `AutocommitLost`), and no command after the one
  that failed in MySQL; of an exec that succeeds every command that was sent is
  durable, or pending in a transaction that goes on. It does not say that MySQL
  sends them all, nor that a modification of SQLite 2 that fails has changed
  nothing: neither is so. The numbers of the writes of a text are the
  lowest ones that nothing pending has (`LowestFacts`, with `LeastNumber` from
  the library's theorem on well-founded relations), so that what was durable or
  pending before is not taken for the text's, and a text of MySQL has the writes
  before its failure and none after it (`WritesFromBelow`);
* `ClientFetch`: `ImplementsFetch`. Each method of each backend is a step of
  `DbiFetch`: exec gives a new result or none, fetch is a `Line`, a refusal or
  (ODBC) broken, and any other keeps the result as it is, at the same line, or
  takes it away (`Like`). ODBC needs `Sound`: a driver that knew fewer lines than
  the last but one would refuse a line that is there.

`FirebirdFamilyProofs` proves of Firebird and InterBase, for any names, any number
of connections, and any refusals and losses:

* `FirebirdTypes`, `FirebirdTree`: `TypeOK` and `CloneTree`. The invariant `Tree`
  adds that parents are roots, which does not follow: without it a destroyed clone
  could be in a list other than that of its root;
* `FirebirdHandles`: `HandlesKept`, that is, `HandlesKnown` as long as every parent
  that has clones has been attached itself. The invariant `Handles`
  has four parts: a connection is used, as an attachment or as that of a
  transaction, by one family (`Apart`) and has been made (`Made`); a cursor that is
  open has its flag and columns, and it and an open blob are in the transaction of
  the family, on the attachment of the object (`Kept`); a transaction whose handle
  is kept is open (`Underway`). `HandlesKnown` alone is lost with a new
  attachment, which might be one that another object uses.

* `FirebirdFetch`: `ImplementsFetch`, the refinement of `DbiFetch`, in any family
  and without that hypothesis. `Shown` is the invariant it needs: a result that
  is shown has its cursor, its columns and a number, its current line is one of
  its lines, and `ntuples`, once known, is its last line and the current one.
  Without it fetch could refuse a line that is there. Each method is a step of
  `DbiFetch` (`Told`): exec gives a new result or none, fetch is a `Line` or a
  refusal (`FetchAtIs`, `FetchAtTold`), and all others leave a result as it is, at
  the same line, or take it away (`Fading`).

The methods are compositions of the operators of `FirebirdSession`, and so are the
proofs: one lemma for each operator, that it keeps `Tree` (`Follows`) and
`Handles`, and one for each method. The execs that the error handler makes are
compositions of the same operators, which may follow one another only while each
of them works (`Runs`). Without `attached`, `HandlesKnown` fails: see Known behaviour.

`Sqlite3RecordsProofs` proves of fetch, records and import, for any number of
objects, ids, files, sizes and bounds:

* `RecordsTypes`: `TypeOK`;
* `RecordsFetch`: `ImplementsFetch`, the refinement of `DbiFetch`. A call of fetch
  is a `Line`, a refusal or a broken result of the abstract specification, or has
  strayed (`FetchFacts`, `FetchImplements`); exec gives a new result or none; every
  other method at most takes results away;
* `RecordsKept`: `RecordKept`, with another process between the two statements of
  a set;
* `RecordsImport`: `ImportWhole`; and `RecordsImportComplete`: after an import that
  succeeds every line has its row, and no id has lost its rows.

`RecordsInv` is the invariant: the table and what is committed are tables, with
unique ids where they have to be, and equal outside a transaction (`DataInv`);
a pending set names an object and an id (`SetInv`); and while fetch has not
strayed, its position is a line of the result, the one the statement stands on,
and once the end is known the last one (`Position`). The refinement needs
`Position`, which TLC's types of the positions do not give: without it `ntuples`
could be any number and a line that is there could be refused. The loop of import is
proved by induction on the lines done; `AllNumbers` derives induction on the
natural numbers from the library's theorem that the finite subsets of a set are
well-founded, because the library's induction theorems take an operator.

The inductive invariants were checked with TLC before they were proved.

Only model-checked: the other properties of `FirebirdFamily` (`ResultsSurvive`,
`FailedExecUndone`, `UserWorkKept`), with two connections.
`Sqlite3Serial`'s and exec's liveness properties are out of the prover's reach.

## 5. Not modelled, and the plan

Proofs come next: `ResultsSurvive`, `FailedExecUndone` and `UserWorkKept` of
`FirebirdFamily` on top of `Handles`.

Not modelled of what is modelled in part: serial set, share and delete; fetch
from ODBC drivers that go to a line by number (odbc.c:792-804); an open or a clone
of ODBC that gets no statement handle, after which the code uses an undefined
handle or a record it has freed (odbc.c:253-260, 1850-1861); a clone that is given
the name of its own root, which Tcl deletes first so that the clone is attached to a
freed record (mysql.c:1562, postgresql.c:1127, odbc.c:1835, sqlite/generic/sqlite.c:1896,
firebird.c:2882, interbase.c:2838; modelled, as a fault, for dbi_sqlite3 only); create,
newblob and exec -cache of Firebird; methods called from SQL functions, collations
and progress handlers; the way from a line of a file to its fields in import; the id
that insert of dbi_sqlite3 returns (the first value given, also when the id is a
later field, sqlite.c:1235), and a field out of range, which fetch refuses after it
has moved (sqlite.c:830-836). dbi_sqlite3's dictionary collation, regexp and list_concat are pure
functions of strings.

Assumed of external code: SQLite is 3.7.11 or newer (a step after the end
executes the statement again), copies a database only when neither side is in
use, and makes each statement atomic; an ODBC driver keeps cursors over the end
of a transaction and does not refuse to roll back (odbc.c:142-147); the Firebird client lets a transaction be rolled back when its
connection is gone, and the server rolls back what a lost connection had
pending; connections are lost between methods.

Left out for good: argument binding and row conversion (data only), schema
queries, the Tk editor, build files, generated tables (`odbc_getinfo.h`) and the
third-party `encode.c`. SQL transaction commands written inside a text are not
modelled: the extension does not look into the text.

### Known behaviour

What the models do because the code does, and no property forbids:

* exec: a text without any command keeps the first loop going for ever
  (sqlite.c:1596); an SQL error inside the user's transaction leaves it open
  although the manual (interface_dbi.n:43) says it is rolled back, and the test at
  lib/interface_dbi.tcl:925 expects that.
* objects: a failed `sqlite3_open` leaves a pointer to the closed connection
  (sqlite.c:664), where the test lib/interface_dbi.tcl:43-47 expects "no open
  database".
* serials: a lock taken by force commits the user's transaction (init.tcl:316, 327).
* fetch of dbi_sqlite3: once the end was met the last line is refused too; a
  result without lines gives one line of nulls (sqlite.c:803); a second fetch after
  `exec -usefetch` of an insert inserts again (sqlite.c:816); a failed step executes
  the statement again and lines are then numbered from where it failed.
* records: set on several rows with the id updates them all and inserts one more;
  unset and delete of several report "not found" after they have changed them
  (sqlite.c:1442, 1490); the insert of a set does not get `-nullvalue`
  (sqlite.c:1375). An import inside the user's transaction ends it, and a refused
  COMMIT is reported as success with the transaction left open.
* a parent that clears its result clears those of its clones (sqlite.c:990), which
  the manual recommends for keeping results (interface_dbi.n:85-89).
* dbi_mysql: of a text of several commands the last one is never sent unless a
  semicolon closes it, and exec reports success (mysql.c:706; in the same way
  firebird.c:1968 and interbase.c:1953), although the manual says that sql "contains
  the commands to be executed" (interface_dbi.n:41); when a command fails, those
  before it stay, against interface_dbi.n:43-45; close never disconnects, because it forgets the database name first
  (mysql.c:1164), and a new open is refused; a select in the middle of a text makes
  the connection unusable.
* dbi_postgresql: a result stays after a failed exec and after close and open; the
  commit of a transaction that the server has given up reports success; drop does
  what clones does (postgresql.c:876).
* dbi_odbc: closing inside a transaction leaves autocommit off, also on the next
  connection of the object, where exec then neither commits what it has done nor rolls
  back what has failed (odbc.c:864-906); fetch lines is one too low after the end (odbc.c:814); closing or
  destroying a clone rolls back the user's transaction (odbc.c:870).
* dbi_sqlite: an exec whose "end transaction" is refused reports success and stays
  open (sqlite.c:1163), and a later exec that fails takes it back; closing inside a
  transaction makes begin fail for good; unset and delete of several objects with the
  id, and a set whose insert fails after its update changed several, report failure
  and have changed rows (sqlite/generic/sqlite.c:1046, 1089, 980-982).
* dbi_firebird: after a full commit another object's `cursor_open` is still set, so
  that its fetch says "out of range" too early; a reconnection inside the user's
  transaction loses that transaction and commit then reports success; a commit with a
  blob open kills the blob, which then cannot be closed; a clone keeps a freed parent
  when the parent's reconnection failed before it was destroyed (firebird.c:2493); when a
  parent could not attach again but a clone of it could, opening the parent, or its
  next attempt to reconnect, sets the transaction handle to NULL while the clone has a
  cursor in that transaction, which no commit then reaches.
* dbi_interbase: when a command of a text violates a key, the error handler looks the
  key up before it rolls back (interbase.c:200, 212), with exec of the same object
  (interbase/lib/init.tcl:66-91, 736-745); in autocommit mode that exec begins with a
  commit (interbase.c:1327-1328), so that the commands before the failing one are
  durable, against interface_dbi.n:43-45. In dbi_firebird, which rolls back first,
  nothing is left.
