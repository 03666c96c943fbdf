# A TLA+ model of pg_arrow

pg_arrow reads PostgreSQL heap files from disk, without going through the server, and turns their
pages into Arrow record batches. The server keeps writing while pg_arrow reads. This directory models
the parts of pg_arrow where that matters, checks them with TLC on small instances, and proves the main
results about the readers, the MVCC filter, the catalog bootstrap, the database lookup, the decoding of
tuples and the building of Arrow columns with TLAPS for every value of the parameters.

Source paths below are relative to the repository root: `src/file/reader.rs` is `src/src/file/reader.rs`
in `PROJECT.json`.

## Inventory

| Component | Source | State it keeps | Operations |
| --- | --- | --- | --- |
| Segment addressing | `file/reader.rs` `get_page_file_and_offset` | none; the files are PostgreSQL's | page number to segment file and offset |
| Relation size | `num_pages`, `segment_sizes` | the segments counted so far | one `metadata` call per segment |
| Bulk reader | `TableFileReader::read_pages_bulk` | `segment_cache`: one open descriptor | an open per segment, a `pread` per segment and batch |
| `RecordBatchStream` | `fill_buffer`, `Iterator::next` | `next_page_index`, `max_page_index`, `buffer`, `exhausted` | read a batch, convert it, hand out pages one by one |
| `AsyncBatchStream` | `next_batch` | `inner` (the stream, or `None`), `buffer`, `exhausted` | move the stream into a blocking task, await it, hand out pages |
| `PageReader`, `PageRowIter` | `get_page_by_index`, `PageRowIter::next` | an open file and its position; the current page; a ctid | sequential page reads, slot by slot iteration |
| MVCC filter | `heap/page.rs` `to_record_batch`, `heap/snapshot.rs` | `PgSnapshot` (xmin, xmax, xip) | which tuples of a page are returned |
| Heap page and tuple layout | `heap/page.rs`, `heap/tuple.rs` | none | headers, line pointers, null bitmap, column offsets |
| Table reader, catalogs | `table/mod.rs`, `types/pg_type.rs`, `types/catalog.rs` | `pg_class` and `pg_attribute` caches, the selected table and schema | `new`, `set_db`, `set_table`, `fetch_*`, `list_databases` |
| Relation map | `file/relation.rs` | none | parse `pg_filenode.map` |
| Type codec | `types/codec.rs`, `types/column.rs`, `types/schema.rs` | none | lengths, alignments and Arrow types of the type ids; varlena headers; bytes to `PgDatum` |
| Arrow builders | `types/arrow.rs` `ColumnBuilder`, `table/mod.rs` `build_arrow_array` | one Arrow builder per column | bytes or datums to Arrow arrays; numerics to decimals |
| Data directory | `file/mod.rs` | one global string | set, get |
| WAL | `wal/mod.rs` | empty file | none |

How they interact: a caller picks a table with the table reader, makes a `TableFileReader` for its
relfilenode, and reads it either row by row (`PageRowIter`) or by batches (`RecordBatchStream`,
directly or inside `AsyncBatchStream`). Both paths end in the segment files, which PostgreSQL extends,
truncates, rewrites and removes at any time. There is no lock between the two: the only synchronisation
is that each system call sees some state of the file.

What is hard here, and hard to test:

* the relation changes size between two system calls, within a batch and between batches;
* files end in half-written pages, segments may be empty, missing or exactly full;
* batches, ranges and segments have boundaries that need not coincide;
* an open, a read or a pread can fail on a page that is there, which every path takes for the end of the
  relation, and a page can make the conversion panic;
* the async wrapper gives its stream away and may never get it back (a panic of the task, a call dropped
  by a timeout);
* the row iterator keeps its position twice, as a file position and as a ctid with 16-bit parts;
* row versions are judged one page at a time, from bytes that are older than the snapshot, while
  transactions go on;
* the catalogs are read once and kept, while tables are created, dropped, altered and rewritten, and some
  of them, the mapped ones, do not have the file their row names;
* whether a column of a tuple is aligned, and where the next one starts, depends on the bytes before it,
  and four pieces of code have to agree on it; tuples may be older than the table's columns, of types the
  code does not know, or not written yet;
* a value reaches Arrow on two ways with a table of conversions each, through integers it may not fit.

`PROJECT.json` lists each of these hazards at its line, with the properties that would catch it, or with
the reason why none does.

## Modules

| Module | Models |
| --- | --- |
| `SegmentFiles` | the files of one relation and PostgreSQL as their writer; page addressing |
| `PageScan` | what a scan promises, whoever serves it: the abstract specification |
| `FillBuffer` | `fill_buffer` with `read_pages_bulk`, one action per system call |
| `BatchStream` | `RecordBatchStream` as an `Iterator`, on top of `FillBuffer` |
| `AsyncStream` | `AsyncBatchStream`, on top of the same `FillBuffer` |
| `SegmentSizes` | `segment_sizes` and `num_pages` |
| `RowIter` | `PageReader::get_page_by_index` and `PageRowIter` |
| `Visibility` | the tuple filter of `to_record_batch` and `xmin_visible` against concurrent transactions |
| `PgSchema` | `PgSchema::from_attributes` |
| `PgText` | what the decoders do to text: UTF-8 validity, lossy repair, the C string of a name |
| `TupleDecode` | the bytes of one tuple to column values: `parse_and_build`, `decode_row`, `decode_row_projected`, `to_record_batch`, the catalogs' `from_row` |
| `PgNumeric` | the numeric decoder: typmods, headers, digits to i128 and i256, rescaling |
| `ArrowColumn` | one column to an Arrow array by rows (`decode_datum`, `build_arrow_array`) and by batches (`ColumnBuilder`) |
| `TableReader` | `PgTableReader` and `bootstrap_catalogs` against DDL |
| `DatabaseList` | `list_databases` and `get_database_oid` |
| `SegmentFilesProofs` | lemmas about the files and their writer, used by every reader's proofs |
| `TableFileProofs` | the theorems about `SegmentSizes` and `BatchStream` |
| `RowScanProofs` | the theorems about `RowIter` and `Visibility` |
| `AsyncStreamProofs`, `DatabaseListProofs`, `TableReaderProofs`, `TupleDecodeProofs`, `ArrowColumnProofs` | the theorems about the module each is named after |
| `MC*` | instances for TLC |

`BatchStream` and `AsyncStream` extend `FillBuffer`, which extends `SegmentFiles`; `SegmentSizes` and
`RowIter` extend `SegmentFiles`. `BatchStream`, `AsyncStream` and `RowIter` each instantiate `PageScan`
with a refinement mapping. `TupleDecode` and `TableReader` extend `PgSchema`;
`TupleDecode` and `ArrowColumn` extend `PgText`, and `ArrowColumn` extends `PgNumeric`.

### Correspondence with the code

*Files.* `len` counts half pages over all segments, so that a torn page (one whose write is only partly
visible) is a state of its own. Segments `0 .. nseg-1` exist; after a truncation PostgreSQL leaves the
later ones behind with length zero. `lo` and `hi` are history variables: the fewest and the most whole
pages the relation has had since the reader was made. The properties are stated against them, because
"the" size of the relation does not exist while it changes. The writer is external: it can extend by half
a page, create the next segment, truncate, and remove the files.

*Pages.* A page is its block number. `bulk`, `buffer` and `out` hold block numbers, and those in `bulk`
are computed from the segment and offset that were read, not from the page that was meant, so that a
wrong offset shows as a wrong page.

*`FillBuffer`.* `FillEnter` is `fill_buffer` up to the call of `read_pages_bulk` with its early returns;
`BulkOpen`, `BulkOpenFails`, `BulkPread` and `BulkPreadFails` are the iterations of its loop, cut at the
system calls; `FillConvert` is the rest of `fill_buffer`; `FillPanics` is `batch.unwrap()` on a page that
does not convert, with the pages before it already in the buffer. `at` is the program counter. The writer
can act between any two of these. `fill_buffer` also has an error return, which cannot happen:
`read_pages_bulk` returns `Err` only through `get_page_file_and_offset`, which never does, and
`parse_bytes` fails only on a slice shorter than a page, which the loop never makes.

*`BatchStream`.* `NextFromBuffer`, `NextFills` and `NextReturns` are the three ways through
`Iterator::next`, and `NextReads` is what goes on in `fill_buffer` meanwhile. `out` records what was handed
out, `ended` that `None` was. `faulted` is a history variable: the read loop was left at a page that was on
disk (`PageMissed`), because a call failed. The refinement takes a panic, and a `None` after a failed read,
for a scan that failed: that the code says `None` there is a limit of the code, that no page is skipped or
repeated on the way is checked.

*`AsyncStream`.* `NextBatchAtOnce` is a call that does not wait, `NextBatchSpawns` one that does;
`TaskRuns` is the blocking task; `AwaitReturns` and `AwaitJoinError` are the two outcomes of the await.
`inner` says where the stream is. `CallCancelled` is a caller dropping the future, and `TaskAbandoned`
the end of a task nobody waits for. The branch for an error of `fill_buffer` is left out, see above.
`faulted` is the same history as in `BatchStream`. The refinement also takes a dropped call for a scan that
failed.

*`SegmentSizes`.* Its specification is `WalkSpec`, so that one module of proofs can extend it and
`BatchStream`. One action per `metadata` call, by outcome: found, `NotFound`, any other error.

*`RowIter`.* `at` walks through `PageRowIter::next` (`loop`, `advance`) and `get_page_by_index` (`open`,
`read`, `reopen`, `reread`). `fd_seg` and `fd_pos` are the open file and its position, which move on every
read whatever index was asked for; `row_info` is the iterator's ctid, with block halves and slot modulo
`U16`. A page's content is its array of line pointers. `get_page_by_index` does not ask why an open or a
read failed, so `OpenFirst`, `ReadFails` and `EndIteration` may happen on any page, at the end of the file
or before it: a failing first open panics, a failing read leads to a second open by index, and if that or
the read after it fails the iterator says `None`. `faulted` then records whether the page was there.

*`Visibility`.* Its specification is `ClusterSpec`, so that one module of proofs can extend it and
`RowIter`. The upper half is PostgreSQL: transactions change row versions in shared buffers (`mem`), pages
reach the `disk` one by one in any order. The lower half is pg_arrow: `CurrentSnapshot` is the snapshot the
caller gets, `Kept` the tests of `to_record_batch` on a tuple, `ReadPage` one page of the scan.
`CheckpointFirst` says whether the caller issues a `CHECKPOINT` with its snapshot. `truth` is what
PostgreSQL itself would have shown at the snapshot. A transaction may change a row it has itself locked, and
then writes its xmax over its lock.

*`TupleDecode`.* `Init` is a tuple as PostgreSQL's `heap_form_tuple` writes it (`RawTuple`, `Formed`,
`Bitmap`), or one of which only the line pointer is there yet (`Torn`), for a table whose `pg_attribute`
rows stand in any order, and which may have gained columns since (or lost one). `Filled` is the data after
each attribute, as a function of how many there are. A byte of the bitmap is given by its bits.
`from_attributes` puts a row at the place that says how many rows come before it (`Rank`), which is what a
stable sort by `attnum` does. A type is its length, its
`typalign` in PostgreSQL, what `align()` says, whether it is text, and whether `PgTypeId` knows it; `PgColumn`
takes an unknown one for text. `BeginRow` and `BeginBatch` are what the paths do before their loop,
`parse_and_build` included; `RowColumn`, `ProjectedColumn`, `BatchColumn` and `CatalogColumn` are one turn
of the four loops, over the same operators for alignment, null bits, varlena headers, decoding and
skipping, named as in the code. A decoded value is represented by the bytes it was decoded from, except
that names end at their first zero byte and that the batch path repairs invalid UTF-8. The bytes are real
ones: a four-byte header whose first byte is zero and a pad byte look alike, as they do to the code.

*`PgNumeric`.* A payload is its 16-bit words, decoded as in the code. Every intermediate result carries
what a release build computes (wrapped to its width), whether an unchecked operation overflowed, where a
debug build panics, and whether every build panics (a division by a power of ten that wrapped to zero).

*`ArrowColumn`.* `Init` picks a column (type, typmod, nullable), a build, and the stored cells.
`DecodeCell` is `decode_datum` on one row, `BuildCell` one row of `build_arrow_array`, whose arms are the
operators `build_*`; `AppendCell` is one `append_bytes` or `append_null` of `ColumnBuilder`, whose type is
`new_inner`; `TryNew` is `RecordBatch::try_new`, which compares the array with the schema's field
(`to_arrow_field`). Numbers are bit patterns of `FieldBits` bits. The two ways share no state, so the batch
way goes second: no interleaving is lost.

*`TableReader`.* `set_db` is also `new`; the bootstrap that follows is two steps, `BootClass` and
`BootAttribute`, with DDL in between. Each catalog is read in one step: for a table that does not change
meanwhile the order of the pages makes no difference, and the properties speak of such tables only. The
row iterator may stop before any page of a catalog, as an I/O error makes it do (`Stops`; `cut` records it),
or panic at its first open (`BootPanics`); what PostgreSQL writes to the catalogs is taken to be on disk at
once. A table's rows are not: each gets to its file with a `WriteBack` of its own, which counts as a change
like DDL does. Every database has `pg_class` itself, the row of which has the relfilenode 0 of a mapped
catalog; it stands for all of them. After a panic nothing more happens.
`live` is a row's state in PostgreSQL's eyes, which the code cannot know: every change commits or is rolled
back, and either way leaves its xmax on the old version and its new version in the heap. A catalog is the
sequence of its line pointers, of which some are `Free`; a new row goes to any free one or behind the rest.
The caches are Vecs in the code; here they are functions from the line pointers their rows were read from,
which keeps the order and says where a row came from. `Find` gives the places `set_table` chooses from, and
the first is taken. `Fetch` is `require_table` and a
fresh reader on the cached relfilenode, which returns the rows that are on disk, or, if reads fail, any of
them, or panics if the file is missing or its first open fails; `fetch_all` stands for
`fetch_all_projected` and `fetch_with_filter`, too, which read the same tuples. `result` keeps whether a
read failed (`faulted`) and which rows were on disk (`live`), to compare.

*`DatabaseList`.* `ReadPage` copies a page, `NextRow` is one turn of the loop over its line pointers,
`NextPage` the increment of `page_index`; rows are placed in any free slot of any page. Changes commit or are
rolled back; either way they leave an xmax on the old version. `EndOfPages` is the `break` on any error of
`get_page_by_index`: at the last page or, as `cut` records, before it; `OpenPanics` is a failing first open.

Definitions whose comment starts with "Mutant" are plausible wrong versions of the definition that
follows them. They are not used by any specification; replacing the definition by its mutant must break
the property `PROJECT.json` pairs it with.

## What the runs check

| Run | Shows |
| --- | --- |
| `segment_sizes` | The sum `num_pages` returns lies between the least and the greatest size the relation had (`SizeWasReal`), all segments but the last are full (`FullButLast`), the walk ends (`WalkEnds`). |
| `batch_stream` | Pages in order without gap or repetition (`InOrder`), only complete pages of the range (`OnlyRequestedPages`), none missing at the end unless a call failed on a page (`Complete`), a refinement of `PageScan` with failing opens and preads (`ImplementsScan`), the scan ends (`Terminates`). Also checks the inductive invariant `StreamInv` of the proofs. |
| `async_stream` | The same refinement for `AsyncBatchStream`, with dropped calls, failing system calls and a page that makes the task panic: whatever ends the scan, the pages handed out have no gap and the panic is reported before any `None`; one batch in memory at a time (`OneBatchInMemory`); a caller that goes on asking gets `None` or an error (`Terminates`). Also checks `AsyncInv`. |
| `row_iter` | Page read and ctid agree (`PageMatchesCtid`), rows exactly those passed, in ctid order (`RowsExact`), none missing at the end unless a page could not be read (`RowsComplete`), a refinement of `PageScan`, the iteration ends; opens and reads fail at any point. Also checks `IterInv`. |
| `visibility` | With a snapshot and a checkpoint: no row of a transaction that had not finished at the snapshot (`NothingFromTheFuture`), none deleted or replaced before it (`NothingSuperseded`), no two committed versions of a row (`OneCommittedVersion`); and, with or without a snapshot, a visible version nobody has touched is returned (`UntouchedReturned`). Also checks `VisibilityInv`. |
| `tuple_decode` | On all four paths the offset of each column is the one PostgreSQL wrote it at (`OffsetExact`), each row returned has exactly the stored values (`ValuesExact`), and a tuple is given up only for a torn page, a projection out of range, a column it does not have or whose type is not understood, or invalid UTF-8 (`FailsWithCause`). |
| `arrow_column` | Numerics within reach are exact, in the declared precision and scale, whichever header they have (`NumericExact`); every other value is the stored one in Arrow's terms (`ValuesExact`); rows and batches give the same array but for names, non-UTF-8 texts and the epoch of dates (`PathsAgree`); a batch is refused, or the program panics, exactly for the reasons named there (`RefusedExactly`). |
| `table_reader` | The selection belongs to the current database (`SelectionOfDb`); a table unchanged since the bootstrap, and without leftovers of rolled-back changes, is found by name and listed once (`UntouchedFound`), with its own columns (`ColumnsExact`), unless an I/O error cut the bootstrap short, and `fetch_all` misses none of its rows that are on disk unless a read fails, and always panics on a mapped catalog (`FetchSeesRows`). Also checks `ReaderInv`. |
| `database_list` | A database left alone is found under its name unless an error cut the list short (`UntouchedFound`), and nothing is listed that did not exist during the walk (`ListedExisted`), except for what rolled-back changes leave behind. Also checks `ListInv`. |

Three runs show where the code does not do what a comment in it says:

| Run | Shows |
| --- | --- |
| `async_cancel` | After a dropped call the stream is lost, not "owned by an in-flight task": the next call returns `None` with pages left (`reader.rs:677`, `:744`). |
| `visibility_abort` | Rows of transactions rolled back before the snapshot are returned (`snapshot.rs:7`). |
| `decode_dropped_column` | A dropped column is left out of the schema but not of the tuples: columns behind it show other columns' bytes (`schema.rs:8`, `:34`). |

Other limits of the code that the models contain, and around which the properties are stated:

* any failing open, not only of a missing segment, and any failing pread ends a batch scan, synchronous or
  not, like the end of the relation (`reader.rs:226`, `:242`): `next` says `None` with pages left.
  `Complete` claims nothing after such a failure, and `ImplementsScan` takes it for a failed scan;
* the same goes for every path through `get_page_by_index` (`reader.rs:286`): an open, seek or read that
  fails ends the row iterator with `None`, makes `list_databases` return `Ok` with a partial list
  (`table/mod.rs:1087`), makes the bootstrap keep part of a catalog (`table/mod.rs:883`, `:908`), and makes a
  fetch return part of the rows (`table/mod.rs:224`), all without an error; a failing first open is a panic
  (`reader.rs:278`). `RowsComplete`, `UntouchedFound`, `ColumnsExact` and `FetchSeesRows` name this exception;
* a mapped catalog has relfilenode 0 in `pg_class` (`types/pg_type.rs:25`). `set_table` finds it and
  `get_all_tables` lists it, but a fetch looks for a file named 0 and panics (`table/mod.rs:214`): so do the
  example in the documentation of `PgTableReader` (`table/mod.rs:111`) and the tests that fetch `pg_class`
  (`table/mod.rs:1290`, `:1299`). `FetchSeesRows` says that it always happens;
* `fetch_by_limit` returns no rows at all (`table/mod.rs:289`), though its test wants at least one
  (`table/mod.rs:1295`);
* with a snapshot, a row that is only locked, or was updated after the snapshot, is left out
  (`page.rs:358`), and without a checkpoint both versions of an updated row can be returned;
  `UntouchedReturned` and `OneCommittedVersion` exclude these;
* a tuple older than an added column is an error on the row paths and a panic on the batch path for a
  fixed-width column (`arrow.rs:578`), a cause in `FailsWithCause`; of a column projected twice only the
  last place gets the value, and the batch path fails;
* a type whose OID is not in `PgTypeId` is read as text (`column.rs:51`): a fixed-width one, an enum for
  example, shifts all columns behind it; and `align()` is 4 for arrays of eight-byte elements, which
  PostgreSQL aligns to 8 (`codec.rs:332`), so that a long one may be read from its padding. `Understood`
  excludes columns from there on;
* by rows, dates and timestamps stay in PostgreSQL's epoch (`table/mod.rs:417`), by batches they are
  shifted to 1970 by an addition that the infinite and the latest ones overflow (`arrow.rs:380`);
* by rows, a name column is refused whenever it holds a name, because `decode_fixed` makes a `Text` datum of
  it (`codec.rs:1398`), and a name that is not UTF-8 panics; by batches such a name is empty;
* interval and array columns are built as binaries while the schema says otherwise, so every batch with
  one is refused (`page.rs:461`); NaN, infinities and TOASTed numerics become NULL, which is refused in a
  NOT NULL column;
* an unbound NUMERIC has scale 0 and loses its fraction (`arrow.rs:41`); a numeric whose digits, padded to
  whole base-10000 digits, do not fit the integer, or whose scales differ by more than an i128 has digits,
  is wrong in a release build and a panic in a debug build (`InReach` says which are exact);
* superseded `pg_attribute` rows are read like live ones (`table/mod.rs:910`), which duplicates columns
  until VACUUM; `ColumnsExact` excludes tables of which such a row was read;
* after VACUUM FULL, CLUSTER or DROP TABLE a fetch panics on the cached relfilenode; `FetchSeesRows`
  is about tables not changed since the bootstrap, and says nothing of superseded rows, which `fetch_all`
  returns, too;
* the xmax of a rolled-back change hides a table or a database, and its new version is listed
  (`table/mod.rs:885`, `:1103`); `UntouchedFound` names both as exceptions.

### Bounds

* `PagesPerSegment = 2` with up to 4.5 pages (6.5 for `segment_sizes`, 4 for `row_iter`): relations that
  end inside a segment, exactly at its end, in a torn page, in an empty segment, and in up to three
  segments. A batch of 1, 2 or 3 pages then ends before, at and behind a segment boundary.
* `IoErrors = {"open", "pread"}` for both streams: any open and any pread may fail. In `RowIter`,
  `DatabaseList` and `TableReader` no constant restricts failures.
* `BatchSizes = {0, 1, 2}` and a default of 3: the zero argument and every relation of batch to segment size.
* Ranges `[0,3)` (`[0,2)` for the async runs), `[1,4)`, `[2,9)` and `[3,2)`: up to and across a boundary, past
  the end, empty; and no range.
* `U16 = 3`: with four pages the block number carries into its high half; a page has up to two slots, so
  that the slot number wraps only where the code means it to.
* `Visibility`: two pages of two slots, two transactions, two row changes; enough for each pair of
  concurrent changes, an update across pages in both directions, and a vacuum behind them. The run was
  also made with three changes, with the same result.

* `TupleDecode`: all tables of three columns over four types (length 1 and 4, varlena of alignment 4 and
  8), and tables with a name, an enum, a citext and an array of eight-byte elements, with up to five values
  each: null, every header form, empty and non-UTF-8 payloads, and a length of
  64, whose four-byte header starts with a zero byte. `BitmapBits = 2`, so that three columns cross a
  bitmap byte. Up to two columns may be newer than the tuple. The header has its 23 bytes, of which the
  model uses the fields that say where the data starts.
* `ArrowColumn`: every type id, columns of one and two rows, both builds; the numbers of a type are its
  least, its greatest, -1, 0 and one that the shifted epoch still leaves in range, for `FieldBits = 8` and
  epochs of 20 and 30. Numerics have digits of base 100 (`DecDigits = 2`), an "i128" of 12 bits, which holds
  every number of 3 digits, an "i256" of 18 bits, which holds 5, and scales and precisions of 4 bits, so that
  declared precisions on both sides of each limit, negative scales, wrapped scales, padding digits and
  powers of ten that overflow all occur with numbers TLC can compute. `PgNumericAssumption` ties the widths
  to the precisions as 128 and 256 are tied to 38 and 76.
* `TableReader`: two databases, two names, three changes, write-backs included: a table changes or a change
  of it is rolled back, another takes its name, its rows reach the file, and a catalog is vacuumed, before,
  between and after the two catalog reads. A catalog page has three line pointers (`CatalogPage`), so that a
  read may stop inside `pg_attribute`. Databases and names are interchangeable, and the run uses that
  symmetry; no liveness is checked there.
* `DatabaseList`: two databases, two names, pages of two slots, four changes; enough for a version to
  move across the walk in both directions.

### Fairness

`Terminates` needs a caller that goes on asking, which `read_all_to_batches` and every `for` loop over the
stream do: weak fairness of the reader's next step. In the streams it is fairness of steps in which no
system call fails but the open of a missing segment (`FillWorks`): no failure is relied on to get out of a
loop. `AsyncStream` also assumes that the executor runs its
blocking tasks and wakes the awaiting call, and `SegmentSizes` that `metadata` returns. No fairness is
assumed of the caller who drops a call, and none of the writer; in particular it may grow or shrink the
relation for as long as its bound lets it. The bound `MaxUnits` does matter for the unbounded scan: against
a writer that grows the relation for ever a scan without an upper page ends only if it is at some point
faster, which no fairness gives.

## What is proved

Every safety property that a run checks of `SegmentSizes`, `BatchStream`, `AsyncStream`, `RowIter`,
`Visibility`, `TableReader`, `DatabaseList` and `TupleDecode` is also a theorem, for all values of the
constants, and so are those of `ArrowColumn`, but for the arithmetic of numerics, and the three refinements
of `PageScan`. Each module has one inductive invariant; TLC has checked it on the instance of the
module's run (as a property of the run where the table above names it), the proof shows that `Init` implies
it and that every action keeps it, and the properties follow from it.

| Theorem | States |
| --- | --- |
| `WalkInvariant`, `NumPagesWasReal`, `SegmentSizesFullButLast` | `WalkInv`, `SizeWasReal`, `FullButLast` of `SegmentSizes` |
| `StreamInvariant`, `StreamInOrder`, `StreamOnlyRequestedPages` | `StreamInv`, `InOrder`, `OnlyRequestedPages` of `BatchStream` |
| `StreamComplete`, `StreamImplementsScan` | `Complete` and the refinement of `BatchStream`, with failing opens and preads |
| `AsyncInvariant`, `AsyncOneBatchInMemory`, `AsyncImplementsScan` | `AsyncInv`, `OneBatchInMemory` and the refinement, with failing calls, panics and dropped calls |
| `IterInvariant`, `IterPageMatchesCtid`, `IterRowsExact`, `IterRowsComplete`, `IterImplementsScan` | `IterInv`, `PageMatchesCtid`, `RowsExact`, `RowsComplete` and the refinement of `RowIter` |
| `VisibilityInvariant`, `ScanNothingFromTheFuture` | `VisibilityInv` and `NothingFromTheFuture`, with or without a checkpoint |
| `ScanNothingSuperseded`, `ScanOneCommittedVersion`, `ScanUntouchedReturned` | the other properties of `Visibility`, when the caller issues a checkpoint (`CheckpointFirst`) |
| `ScanWrittenByCommitted` | the comment that `visibility_abort` refutes holds where no transaction is rolled back |
| `ReaderInvariant`, `ReaderSelectionOfDb`, `ReaderUntouchedFound`, `ReaderColumnsExact`, `ReaderFetchSeesRows` | `ReaderInv` and the properties of `TableReader` |
| `ListInvariant`, `WalkListedExisted`, `WalkUntouchedFound` | `ListInv`, `ListedExisted`, `UntouchedFound` of `DatabaseList` |
| `DecodeInvariant`, `Offsets`, `DecodedValues`, `DecodeFailures` | `DecodeInv`, `OffsetExact`, `ValuesExact`, `FailsWithCause` of `TupleDecode`, for tables without a dropped column (`~MayDrop`) |
| `ColumnInvariant`, `ColumnValues`, `ColumnPathsAgree` | `ColumnInv`, `ValuesExact` and, numerics included, `PathsAgree` of `ArrowColumn` |
| `ColumnRefusals` | `RefusedExactly` for every column that is no numeric |

### Assumptions

The assumptions named in the modules give the constants their types and say that segments, pages and
batches are not empty. Two of `RowIter` say more. A page has fewer than `U16` line pointers, as a page of
8 KB has. And `BlockNumberAssumption` says that a relation has fewer than `U16 * U16` pages: PostgreSQL's
block numbers have 32 bits, so no relation is larger; with more pages the block number of a ctid would wrap,
and `PageMatchesCtid` would be false. The hypotheses of single theorems
(`CheckpointFirst`, no `"abort"`, `~MayDrop`) are needed: without them TLC finds the property
violated, for the last two in the runs `visibility_abort` and `decode_dropped_column`.

The two decoders assume that what is stored was stored by PostgreSQL: `WellFormed` says in `TupleDecode`
that a fixed-width value has the length of its type, a name is filled up with zero bytes, and a varlena has
one of the four header forms with a payload length that form allows, and in `ArrowColumn` that a value
consists of as many numbers as its type has, each in range. The alignment of a type is one of 1, 2, 4 and 8,
in PostgreSQL and in the code. Of `FieldBits` the proofs use that it is not zero and that `2 ^ FieldBits` is
twice the power before it (`FieldBitsAssumption`); TLC evaluates that, since the provers know nothing of
`^`.

### The arguments

*Files.* `SegmentFilesProofs` has the division lemmas of page addressing, the length of a segment from the
length of the relation, what a missing segment implies, and that the writer keeps `FileInv` and only widens
`lo .. hi`. All readers' proofs rest on it: a step of the writer keeps whatever is stated against `lo` and `hi`.

*`WalkInv`* adds what the walk knows half way: the segments behind it were full when it saw them, so the
relation has had at least `total` pages.

*`StreamInv`* is needed because `InOrder` says nothing of the pages in the buffer and in the batch being
read. `Adjacent` says that `out`, `buffer` and `bulk` are consecutive runs of pages that meet; `WithinBatch`
that a batch stays within what was wanted and what was on disk; `ShortOnlyAtEnd` that a short batch, and so
`exhausted`, means that the relation had no more pages, as long as no read has failed on a page that was
there. The other case is told from this one by `PageMissing`: a call that fails on a page that is not on
disk was asked past the shortest relation. `PreadFacts` is the heart: one `pread` adds whole pages that follow `page_idx`, no further than batch, segment and
relation reach, and is short only at the relation's end.

*`AsyncInv`* has the same parts for a stream that changes hands. `Ownership` says where it is: held by the
struct only between two batches, in a task exactly while a call awaits it, lost after a panic or a dropped
call. `AsyncAdjacent` and `AsyncWithinBatch` then run over one more buffer, that of the struct, and
`AsyncShortAtEnd` speaks of the scans in which no read has failed so far.

*`IterInv`*: `InStep` relates, at each point of `next`, the three positions the code keeps: the file's, the
index asked for and the ctid. Between two pages the file stands at the page asked for, which is the one after
the current page, and all slots of that one are passed; so a failed read and a change of segment leave them in
step although `get_page_by_index` ignores its index. `RowsExact` is part of the invariant, and
`RowsComplete` follows because the iterator ends only at a page that was not always there, or, `faulted`, at
one that could not be read.

*`VisibilityInv`*: `Rivals` is the main part. Of two versions of a row one is out of the game, or its
replacing transaction wrote the other, so no outcome of the running transactions makes both valid.
`TruthLasts` says that the outcomes known at the snapshot stay, and that `xmin_visible` tells exactly the
transactions that had finished. `DiskIsOlder` and, after a checkpoint, `DiskKnows` say what a page on disk
can have missed; `OneSurvivor` carries `Rivals` at the snapshot through the scan, and `VisibleStays` follows
a visible version until its page is read.

*`ListInv`*: `WalkCovers` says how far the walk has come, in terms of the rows it must not miss (`Due`):
those on the pages behind it are listed, and the copy of the current page agrees with the page on them.
`NamesUnique` adds that a database that has not changed has kept all others from its name since the walk
began, without which `get_database_oid` could find another one first. An error may end the walk before the
last page; nothing is claimed of the pages it did not reach.

*`ReaderInv`*: `Relations` (oids and files are handed out once, a relation keeps its name, live names and
files are unique), `FilesExist` and `DatabasesApart` are about PostgreSQL alone. `ClassRead` and
`AttributesRead` say what a cache still has in common with its catalog: every live, unchanged row of the one
is in the other, for `pg_attribute` at the same line pointer, if the read was complete (`~cut`).
`FetchSeesRows` is not part of it, because it is about one call: a fetch establishes it from `ReaderInv`
(the file of an untouched selection is there, or the selection is mapped and no file is named 0), and every
other step leaves `result` and what it is compared with alone or sets it back. The DDL is proved about in two stages. Each
kind is shown to be a `PostgresStep`: it rewrites the rows of one relation, which it marks as touched, and
leaves live rows of the others where they are. Every part of `ReaderInv` is then shown to survive any
`PostgresStep`.

*`DecodeInv`*: `OffsetExact` says where a walk stands: at the end of what `heap_fill_tuple` had written when
it came to this column, that is, before the padding. A step aligns from there as `heap_fill_tuple` did, but
it decides by the byte it finds (an unaligned varlena has a header of one byte, a pad byte is zero, and so
may be the first byte of a four-byte header), and the proof shows that each value lies where the code then
looks (`ValueStands`) and that the header it reads is the one written (`ReadHeader`). `PastTheEnd` carries
the walk over the columns the tuple is too old to have, and `OutputSoFar` the values put out before the
current one: on the projected path only the last place of a repeated column has its value. `Understood`
bounds all three: behind a column whose type the code does not know nothing is claimed. `FromAttributes`
shows, from the ranks, that the schema has the columns in the order of the tuple whatever the order of the
rows of `pg_attribute`.

*`ColumnInv`*: what each path has, at every step, is what its decoder and its builder make of the cells so
far, one cell after another (`Decoded`, `Built`), up to the first that stops it, and says where and at what a
path stopped (`Stopped`). What remains is to compare, type by type, what the operators make of one cell.

Induction over data is not available to the provers here: a fact about every element of a sequence is either
part of an invariant, which the actions extend one element at a time (this is why `DatabaseList` walks one
line pointer per step), or is proved from the least counterexample, as in `LeastNatural` of
`TableReaderProofs` and, for the lengths and contents of `Filled`, in `TupleDecodeProofs`.

Only model-checked: the liveness properties `WalkEnds` and `Terminates` (out of the provers' reach),
`NumericExact`, and `RefusedExactly` for numerics. Those two are about what the digit loop computes and about
powers of two and ten, of which the provers know nothing; `Digits` in their statement counts decimal digits
only up to nine, enough for the instance.

## What is not modelled

* The bit fields of the page header and of line pointers, and header fields nobody decides on. Outside
  `TupleDecode` and `ArrowColumn` a page that fails to decode is represented by `BadPages` and the corrupt
  line pointer.
* Floating-point values are bit patterns; of an Arrow list type the element type is left out, since no
  builder makes a list. `PgTypeLen::CString`, which no type id has.
* Decompression and TOAST, which the code does not have: a compressed value is returned as it is and a
  TOAST pointer as an empty value. Columns added with a default other than NULL.
* The field lists of the catalogs: `TupleDecode` reads a catalog row with a schema that fits it. They fit
  PostgreSQL 18; the version of the cluster is not looked at.
* The relation map: `parse_relmap` has no caller but its test. The bootstrap reads `pg_class` and
  `pg_attribute` under their oids, as files 1259 and 1249; after VACUUM FULL of one of them these files are
  gone. Mapped catalogs are not rewritten in the model.
* Schemas (namespaces): `set_table` takes the first table of a name, whatever schema it is in. In the model
  the name of a table is unique in its database.
* Catalog pages that lag behind in `TableReader` and `DatabaseList`: what PostgreSQL has written to a
  catalog is on disk at once. Copies that lag are the subject of `Visibility`.
* `convert_pages_parallel`, which has no caller, and `read_chunk`, which is a `todo!`.
* A second call to `PageRowIter::next` after `None`. No caller makes one; after a torn last page such a call
  would read from the middle of a page.
* Transaction id wraparound, multixacts and HOT redirects in `Visibility`.
* The data directory setting, error texts, logging, benchmarks and the test harness.

## Plan

Done: the readers and their files, the MVCC filter, tuple headers and tuple decoding, catalog rows, the
numeric decoder, the two ways to Arrow, the table reader against DDL that commits or not, the database
lookup; and the proofs of all safety properties but the arithmetic of numerics. Next:

1. A scan split with `num_pages` and `with_page_range` into partitions, as a composition of
   `SegmentSizes` and several `BatchStream`s.
2. Transaction id wraparound in `Visibility`.
3. The relation map, and VACUUM FULL of a mapped catalog in `TableReader`.
4. Proofs: `PageScan` itself, so that what it promises (order, no page twice, completeness) holds of every
   reader that implements it; action properties of the readers.
