# GA-Mazon in TLA+

GA-Mazon (`src/GA-mazon`) is an iOS shop for outdoor products. Consumers browse a
catalog, keep favorites and a cart on the device, and check the cart out into a
Firebase database, where the vendor finds it. About 3 600 lines of Swift are the
application's own. The rest of the repository is third-party code (`Pods`, the
Facebook and Bolts frameworks). Of that, LevelDB is where concurrency and crashes are
hardest and the source is there. (Firebase's Pod brings it for the disk persistence of
Firebase Database, which the app never enables.) So the modules cover two systems: the app,
and LevelDB's write path, compaction, recovery and table cache. The test targets of
the app are the empty templates of Xcode; LevelDB has unit tests, mostly of one thread.

This directory holds TLA+ modules for the parts where states and
interleavings matter, TLC runs that check them on small instances, and TLAPS proofs
for every value of the constants. Source paths of the app are relative to
`src/GA-mazon/GA-mazon/`, those of LevelDB to `src/GA-mazon/Pods/leveldb-library/`.

The modules map most of the app's logic, which is Swift, and about 2 000 lines of
LevelDB. Measured against all C, C++ and Objective-C sources of the Pods the share is
small and has to be: most of those 52 000 lines are generated accessors of Protobuf,
headers, encoders, HTTP code, benchmarks and tests, with no state of their own to model.

## The system

| Component | Code | State | Operations |
|---|---|---|---|
| Cart | `Controllers/OrderController.swift` | the array of orders stored in UserDefaults | `addOrder`, `removeOrder`, `updateQuantity`, `createOrder`, `checkOutCart` |
| Orders screen | `Views/Orders/OrdersTableViewController.swift` | `orders`, a copy of the cart; the rows UIKit was told of; whether Check Out is enabled | `viewWillAppear`, delete a row, Check Out |
| Check-out | `External/FirebaseController.swift` | a `DispatchGroup` and two flags per check-out; in Firebase `users/<id>/orders` and `users/<id>/listings` | `getOrders`, `getListings`, `checkOutCart` and their callbacks |
| Cache | `Controllers/CacheController.swift` | favorites, orders and user in UserDefaults | read and write of each |
| Authentication | `Controllers/AuthController.swift`, `Views/LoginFlow` | the Firebase user, the cached `UserInfo`, the user type chosen | sign-up, sign-in by mail and Facebook, sign-out, start of the app |
| Favorites | `Controllers/FavoritesController.swift`, `Views/Favorites`, the hearts of `Views/Category` and `Views/Browse` | the array of products in UserDefaults; a copy and the cells on the Favorites screen | mark, unmark, toggle from three screens |
| Browse and search | `Views/Browse`, `SearchController`, `ProductCatalogController` | categories, filtered products, search type | fetch, filter as the user types, change of scope |
| Catalog | `Models`, `FirebaseController` | `catalog/categories` in Firebase | three writers, two readers, dictionary and archive formats |
| Apple Pay | `Views/Apple Pay` | none | a payment sheet |
| Vendor screens, profile, product detail | `Layouts`, `Views/Profile`, `Views/Product Detail` | none | static |

| LevelDB, write path | `db/db_impl.cc` `Write`, `BuildBatchGroup`, `MakeRoomForWrite`, `CompactMemTable`, `BackgroundCall`; `util/env_posix.cc` `Schedule` | the queue of writers, the two memtables, the log, the background error | write, sync, flush, merge, close |
| LevelDB, levels | `db/version_set.cc`, `db/db_impl.cc` `DoCompactionWork`, `Get` | the files of each level, compaction pointers, snapshots | write, read, snapshot, flush, move, merge |
| LevelDB, log and recovery | `db/log_writer.cc`, `db/log_reader.cc`, `db/db_impl.cc` `Recover`, `Open`; `db/version_set.cc` `LogAndApply`, `Recover` | logs, tables, MANIFEST and CURRENT on disk | append, sync, switch, apply an edit, delete, open, crash |
| LevelDB, table cache | `util/cache.cc` `LRUCache`, `db/table_cache.cc` | the LRU list, the hash table, counts of references | find, open, insert, evict, erase, release |

*The app.* Handlers, Firebase callbacks and `DispatchQueue.main` blocks all run on the main
thread, so each is one step. What makes it hard is what lies between the steps:

* a check-out is four asynchronous calls (two reads, two writes) of two branches,
  and nothing stops a second one, a change of user, or another device meanwhile;
* reads and writes of a list are not a transaction, neither between devices nor between
  two check-outs of one;
* reads and writes may be refused, and a read that is refused is taken for an empty list;
* the process may end anywhere; UserDefaults survives it and the callbacks do not;
* screens work on copies of the stored arrays, and the callbacks of a check-out
  keep the screen they started from.

*LevelDB.* Any number of threads call it and one background thread works for it. `mutex_`
guards most of the state and is released for every file operation:

* one thread writes the batches of several, without the mutex, and has to answer them and
  wake the one behind them; writers also wait for the background thread;
* a memtable is flushed in the middle of a merge, and both install new versions;
* an error of the log, of its sync, of a flush or of a merge reaches different callers;
* a crash of the process cuts the last write short, one of the machine loses what was not
  synced, and opening the database may crash as well;
* a table is looked up, opened and inserted under three separate locks of the cache.

What makes each component correct:

* *Cart*: one row per product and per order id, whatever the sequence of calls.
* *Orders screen*: a row the user can delete stands for an order in the cart.
* *Check-out*: one report, after both lists, true exactly if both are saved; the
  cart is cleared only then; nothing stored is doubled, or lost unless a list changes between
  a read and its callback; each list belongs to its owner.
* *Authentication*: the cached user is one that Firebase has authenticated, and its
  type is the one the account has.
* *Favorites*: no product twice, and a tap toggles the product whose cell it is.
* *Search*: the results on screen answer the query in the search bar.
* *Catalog*: what is written is what is read, and what is written on its own is added to
  the catalog. (The second does not hold: `catalog_append`.)
* *Write path*: what is in memory is in a log that recovery will read; a synced write is
  synced, whoever wrote it; an answer is true; every call returns.
* *Levels*: files of a level do not overlap, newer entries lie above older ones, a reader
  sees the map as of its snapshot, and compaction comes to an end.
* *Log and recovery*: what was promised is found after any crash, a log reads back as a
  beginning of what went into it, sequence numbers are not given twice, the database opens.
* *Table cache*: counts are those of the handles, a handle stays good until it is released,
  deleted files are not kept open, and the cache does not grow without need.

## Modules

| Module | What it is |
|---|---|
| `OrderController` | the cart rules as operators on a sequence of orders |
| `Checkout` | carts, Orders screens, check-outs and the database, composed; the properties |
| `FreshCheckout` | `Checkout` with a history variable: whether a read has been overtaken |
| `CheckoutPromise` | abstract specification of `FirebaseController.checkOutCart` for its caller |
| `FavoritesController` | the stored favorites, and their rules as operators on a sequence of products |
| `Favorites` | the Category screen and the Favorites screen |
| `Browse` | the Browse screen and its search |
| `Shop` | these screens in one app over the stored favorites: which one is in front, restarts; the specification |
| `Session` | logins, start of the app, sign-out |
| `CatalogStore` | the catalog in the database: dictionaries, writers, reader |
| `WriteQueue` | LevelDB's writers, memtables, logs and background thread |
| `SnapshotStore` | abstract specification of LevelDB for its readers |
| `LsmTree` | memtables, levels, snapshots and compactions; implements `SnapshotStore` |
| `LogFormat` | fragments of a log and their reader, as operators |
| `Recovery` | the files of a database, crashes and opening (uses `LogFormat`) |
| `LRUCache` | operations of one shard of the cache |
| `TableCache` | threads that use tables through the cache, and the life of a table file (uses `LRUCache`) |
| `MC...` | values of the constants for TLC, and in `MCSession` a history variable |
| `SequenceLemmas` | lemmas about searching, removing and appending, loops, induction and recursion over the naturals |
| `Checkout_proofs` | the operators of the cart, the inductive invariant of `Checkout` and the theorems that follow from it; the stored lists of one device (`FreshCheckout`) |
| `Catalog_proofs` | the invariants of `Shop` and `CatalogStore`; what a search finds |
| `Session_proofs` | the invariants of `Session`, those of calm logins by `MCSession` |
| `TableCache_proofs` | the invariants of `TableCache` and `LRUCache` |
| `WriteQueue_proofs` | the invariants of `WriteQueue` |
| `LsmTree_proofs` | the operators of `LsmTree`, its inductive invariants and that it implements `SnapshotStore` |
| `Recovery_proofs` | what a log reads back as; the inductive invariant of `Recovery` and the theorems that follow from it |

Operators named as wrong versions (`MergeForgets`, `EitherSaved`, ...) stand next to
the definition they spoil. No specification uses them; put in its place, each makes
the property it is listed with fail, which shows that the property depends on that code.

### Checkout

State and code:

| Variable | Code |
|---|---|
| `user` | `CacheController.readUserInfo().id` |
| `cart` | `CacheController.readOrders()` |
| `orders`, `canCheckOut` | the fields of the Orders screen of the session in progress |
| `rows` | the number of rows UIKit knows of: it changes on `reloadData` and `deleteRows` only |
| `onScreen` | the Orders screen is in front, between `viewWillAppear` and its leaving |
| `refreshQueued` | the block of `OrdersTableViewController` 136-149 waits in the main queue |
| `job` | one tap on Check Out: the array it captured, whether it came to its end and how, and whether the screen that started it is still the current one |
| `branch` | for each of `orders` and `listings`: read sent, read answered, write sent, saved or rejected |
| `answers` | the callbacks of reads in the main queue of each device, each with the list that was found |
| `outbox` | Firebase's queue of writes the server has not answered, one per process, in order |
| `database` | the lists under `users/<id>` |
| `nextId`, `logins` | bookkeeping for the bounds |

Actions and handlers: `AddToCart` (Category screen, cart button), `ShowOrders`
(`viewWillAppear`), `HideOrders`, `DeleteRow` and `DeleteRowRaises`
(`tableView(_:commit:forRowAt:)`, as it ends normally and as it ends the app),
`CheckOutTap`, `ReadReply` and `ReadError` (Firebase has the answer to a read of `getOrders` or
`getListings`), `ReadCallback` (the closures given to them, which merge and call `setValue`), `WriteSaved` and `WriteRejected` (its
completion block), `NotifySuccess` and `NotifyFailure` (`dispatchGroup.notify` through
`OrderController.checkOutCart` to the screen's closure), `Refresh`, `Relogin`
(sign-out and the next login), `Terminate`.

Decisions that are not a plain reading of a handler:

* *Reads.* A single-event read answers from the client's own unanswered write to
  the very path if there is one, and otherwise from the server. The answer and the callback that
  uses it are two steps, the callback a block in the main queue: two check-outs of a device that
  overlap may both be answered before either writes, and then the second write drops the orders of
  the first, with no other device involved. Nothing in the code prevents it. `FreshCheckout`
  keeps in `fresh` whether a callback has been overtaken so (`Overtaken`: it merges with another
  list than its device would find at that moment; a refused read of a list that is
  not empty counts). On one device, what is saved stays saved until then
  (`SavedWhileFresh`, `GrowsWhileFresh`).
* *Writes.* The server takes the writes of a client in the order they were sent. The
  answer is one step with its effect; `Terminate` right after `WriteSaved` is the lost
  answer, and a write in the outbox of a process that ends is never sent. A write that
  the server took although the answer never came is covered by `WriteSaved` first.
* *Order ids.* `generateOrderId` draws 8 characters of 32; ids are taken to be new.
* *Products* stand for their id. That the dictionary form drops the rating of a product
  does not concern the cart and is left to the catalog module.
* *Check-out of nothing.* Between a success and the queued refresh the button is still
  enabled over an empty array: such a tap is an action like any other, with the blank id.
* *Change of user.* `Relogin` needs the Orders screen to be left, since sign-out is on
  the Browse screen. The screens of the next session are new objects, so check-outs
  under way lose their screen (`attached`). User ids are those of logged-in users;
  logins that fail are in `Session`.
* *The Check Out button also opens the Apple Pay screen* (`Consumer.storyboard`, two
  connections of one item): `HideOrders` may follow at once, or not.

### Favorites, Browse and Shop

`Favorites` and `Browse` hold the state and the steps of their screens, and `Shop` is the app they
are in: `stored`, the array in UserDefaults that all screens read and write, declared with its
rules in `FavoritesController`; `front`, the screen in front. Only that one is tapped, and the
others keep what they show; reads, reloads and the completions of animations come back
whichever it is. A step that ends the process (`RowTraps`, `TapRemoveRaises`, `Terminate`) makes
all screens start anew over what is stored (`AppStartsAnew`).

*Favorites.* `favorites` is the copy of the Favorites screen,
`cells` what its collection shows (the product, and the index path the cell was configured
with), `animations` the deletions whose completion has not run, `hearts` the icons of the
Category screen. Which category is open stays the same.
`ShowCategory` and `ShowFavorites` are the two
`viewWillAppear`, `TapHeart` and `TapRemove` the handlers of `ItemCell`'s button,
`AnimationEnds` the completion of `performBatchUpdates`. `TapRemoveRaises` is the same tap
when it ends the app: a cell tapped before the animation of another one is over reports an
old index, and the last cell's old index is beyond the array. All cells are taken to be
visible. The second reason UIKit could have to raise, items that do not add up, never comes
about (`ScreenFollowsStore`).

*Browse.* `text` and `searchType` are the search bar, `reads` the reads of the catalog Firebase has not
answered (for the categories, or for a search with its text and scope), `reloads` the blocks
in the main queue, `rows` the rows the table was last told of. `Type` is
`updateSearchResults`, `ChangeScope` the scope buttons, `Answer` and `Refuse` the two blocks
of `readProductCategories` with everything they call, `Reload` the queued `reloadData`,
`Redraw` a row that comes on screen, `TapResultHeart` its button, `RowIsGone` either of them on a
row that the array does not have any more. Firebase answers reads of one path in order; the
value and the callback are one step here, since nothing in the app writes the catalog.
Texts are model values: which titles and tags they match, and which numbers they split into,
are constants; `InRange` keeps the comparison in whole units.

### Session

An attempt to log in is a record of what the closures captured: it is in `authenticating`
until Firebase has the account, then in `recording` until the server has answered
`updateChildValues`; `taken` marks that the server has the record and the answer is still
under way. `cached` is the `UserInfo` in UserDefaults, `recorded` the type under `users/<id>`,
`authUser` Firebase's current user, `facebookToken` the token of the Facebook SDK, `front`
the screen in front, `currentUserType` the segment of the newest login screen.

* A refused authentication still calls `writeUser`, with an empty id; Firebase takes no empty
  path and raises, so `NotAuthenticated` ends the process. `FacebookCancelled` does too:
  `FBSDKAccessToken.current()` is read before the error is looked at.
* `RecordTaken` and `RecordSaved` are apart, so that a crash may fall between them.
  `RecordRefused` caches nobody and goes on to the next screen, as the code does.
* `ShownType`: only the sign-in by mail goes by the user it has logged in; the two others by
  the segment of that moment.
* `SignOut` shows a new login screen over the old ones; a segue of a covered screen does
  nothing, so an attempt that is late (`current` is false) only caches.
* A sign-up may give an account an id it had before; the code does not look at the id.

### CatalogStore

`listed` are the children of `catalog/categories` with the keys 0, 1, ..., `named` those with a
category's name for a key, `whole` the last catalog written as a whole. Values in a
dictionary carry their type, since reading them is a conditional cast: ratings are sent as
strings and looked for as numbers, and come back as 0. One field of `Product` stands
for each way fields travel. Firebase gives an array only if no child has a name for a key.
The app itself calls none of the writers at present (`AppDelegate.swift` 44-50 is commented
out, `listProduct` has no caller).

### WriteQueue

An action is what a thread does between a lock of `mutex_` and the next unlock or wait, or what
it does without the mutex. `writers`, `mem`, `imm`, `hasImm`, `lastSeq`, `logNumber`,
`scheduled`, `bgError` and `closing` are the members of `DBImpl` and `VersionSet`; `pc` says
where a thread is in `Write`, with `bgWait` for `bg_cv_` and `asleep` for its own `cv`;
`logs` holds the records of each log and how many are synced; `bg` and `merging` are the
background thread, `editLog` the log number of the edit it is about to apply.

`CallWrite` joins the queue, `RoomFails`, `RoomDelays`, `RoomWaits`, `RoomIsThere`, `RoomSwitches` and
`SwitchFails` are the branches of `MakeRoomForWrite`, `AddRecord`, `SyncLog` and `InsertInto`
what follows without the mutex, each with its error, and `Finish` the rest of `Write`
(`AfterWrite`: answers, the signal to the new front). A null batch is
`TEST_CompactMemTable`, which forces a switch and waits for the flush (`CheckImm`).
`Bg...`, `Built`, `Applied`, `Merged`, `Installed` with their errors are the background thread.

* Batches are names; a memtable is full with `BufferSize` of them, and the batches of one record
  are a set: their order is the queue's, and no property tells it. Where `BuildBatchGroup` stops
  for reasons of size is left open: a group is any beginning of the queue it may form.
* `pthread` wake-ups without a signal are not modelled: the loops around each wait send the
  thread back to sleep.
* What level a flushed table goes to, and how many files of level 0 a merge takes, are chosen
  freely; `LsmTree` has the details.
* An append that reports an error may have reached the file or not.

### SnapshotStore and LsmTree

`SnapshotStore` is a map with snapshots: a write changes one key, a snapshot never changes.
`LsmTree` implements it (`KeepsStore`): the value of a key as of a snapshot is what `Get` finds in
the memtables and files. An entry is a key, a sequence number and a type; a file is its set of
entries, its size their number. `CompactMemTable` places a memtable by
`PickLevelForMemTableOutput`, also in the middle of a merge; `SizeCompaction` and
`SeekCompaction` pick, move or begin; `Install` puts the output of `DoCompactionWork`
(`Outputs`, with `Drop` and `ShouldStopBefore`) on top of the version of that moment. The merge is one step at its end:
its inputs do not change, and what it reads later, `IsBaseLevelForKey`, reads the version it
began with. `allowed_seeks` is abstracted: any file a read turned to in vain may be the one
that is used up. A write batch has one entry.

### LogFormat and Recovery

A log is a sequence of cells, each what one byte stands for, so that a file can be cut
anywhere. `Fragments` is `Writer::AddRecord`, `Physical` and `ReadFrom` the reader; a
checksum holds if the cells are those that were written under the header. In `Recovery`,
`logs`, `tables`, `manifests` and `current` are the disk; `db` is memory; `mode` is how
far `DB::Open` has come; `job` is the background thread between its file operations. The ghosts
`acked`, `hard` and `spoilt` are what callers may rely on.

* Assumed of the file system: creating, renaming and deleting files lasts, in order; what is
  synced stays; of what is not, a machine crash leaves any beginning, file by file. (LevelDB syncs
  the directory only before a MANIFEST is synced.)
* A table is synced before an edit names it (`BuildTable`), so it is one step.
* `DeleteObsoleteFiles` is one step: stopped half-way it leaves files nobody reads.
* I/O errors of the background thread are in `WriteQueue`; here only appends to a log fail.
  `block_offset_` counts a failed fragment all the same, so later records of that log may not be
  read back although their writes return OK. The properties leave these batches out
  (`spoilt`), since the options promise something of crashes and nothing of errors.
* The database exists. `NewDB` does not sync the first MANIFEST before CURRENT names it, and the
  model begins after it.

### LRUCache and TableCache

`entry` is the memory at each address, with the count; `table`, `lru` and `usage` are the
members of `LRUCache`; `handle` is what each client holds. Addresses are finite and used
again, as by `malloc`: that is what makes a handle that is not counted dangerous. `Insert` is a step, one per
eviction, and one to return, all under the mutex of the shard (`evicting`). `TableCache` adds
the clients (`FindTable`: `FindCached` or `FindNothing`, `Open`, `InsertTable`,
`FindReturns`; `Finish`), and a file's life from `pending_outputs_` to its deletion.
A client keeps the version it reads from referenced (`Pinned`), so its files are
not deleted. The compaction thread reads its own output before it is installed.

## Runs

| Run | Instance | Shows |
|---|---|---|
| `checkout_one_device` | 1 device, 1 user, 2 products, 2 check-outs, everything may be refused | the safety of a device on its own, and that check-out keeps its abstract promise |
| `checkout_sessions` | 1 device, 2 users, 2 check-outs, everything may be refused | a session ends with check-outs under way; every check-out ends, the table catches up |
| `vendor_race` | 2 devices and users, 1 vendor | a counterexample: a stored listing is lost |
| `shop` | 3 products, one listed twice in the open category, 2 categories with a product in both, 2 changes in the search bar, 2 animations at once, refused reads, restarts | favorites and the screens that change them; overlapping searches; the Browse screen settles |
| `session` | 2 accounts, all ways to log in, 3 taps, 2 at once, everything may be refused | what holds of any login, what of calm ones; every login ends |
| `catalog` | 3 products, 2 names, catalogs of up to 2 categories | a catalog written as a whole is what the reader finds |
| `catalog_append` | the same | a counterexample: with a category added on its own nothing is found |
| `write_queue` | 3 threads, 3 calls, a memtable of 1 batch, all I/O errors | the log, the answers and the end of every call |
| `lsm_tree` | 3 keys, 3 levels, 3 loads (small files; large files; large files with 2 snapshots), 3 or 4 writes | refinement of `SnapshotStore`, order of levels, end of compaction |
| `lsm_boundary` | 2 keys, small files, 1 snapshot | a counterexample: a newer entry below an older one |
| `recovery` | blocks of 5 cells, batches of 2 or 4, 2 or 3 of them, 1 or 2 crashes, a failed append | what crashes leave can be opened and holds what was promised |
| `table_cache` | 2 readers and the compaction thread, 3 files, 4 addresses, room for 1 table | counts, handles, open and deleted files |

The three counterexamples each refute what a comment of the repository states; `PROJECT.json`
quotes it. `vendor_race`: two consumers read a vendor's listings before either writes, and the
later `setValue` drops the listing of the earlier. `catalog_append`: a category written on its
own goes under its name, and with a name among the keys Firebase does not give an array, so the
next read finds no category at all, those that were there before included. `lsm_boundary`: while a snapshot is held a
merge leaves two entries of one key in two files of a level, the newer in the first;
`PickCompaction` takes the first file alone, and the newer entry sinks below the older one,
which a read then finds. (Later versions of LevelDB add "boundary files" to the inputs.)

Properties of the app:

* `Checkout`: `CartOneRowPerProduct`, `SettledDeleteIsSafe`, `NoExtraCopies` (an order is in a list at most once per
  check-out that sent it), `KeepsPromise` (refinement of `CheckoutPromise`), `OwnUntilRelogin` (until somebody signs
  out, lists hold orders of their owner), `CartKeptUntilSaved` (an order leaves
  the cart by the user's hand or after both lists are saved), `CheckOutEnds`, `RefreshRuns`; `HistoryAppendOnly` (a list only gets longer,
  at its head) is the one that `vendor_race` violates.
* `FreshCheckout`: `SavedWhileFresh` (every order of a saved list is still there) and `GrowsWhileFresh`
  (no list is cut short), on one device and until a callback is overtaken. The runs follow each
  behaviour beyond that point too, for the properties that do not depend on it.
* `Favorites`: `StoredOnce`, `ScreenFollowsStore`, `SettledCrossIsRight`, `HeartsTellTheTruth`.
* `Browse`: `SettledRowsAnswer` (the answers of earlier letters and scopes do not stay),
  `RangeIsCovered`.
* `Shop`: `Settles`.
* `Session`: `CachedWasRecorded`, `LoginsEnd`, and, over logins by mail, one at a time and with
  records accepted, `CalmCachedIsSignedIn` and `CalmScreensFitUser`. `MCSession` keeps
  whether this has been so in the history variable `calm`; all other behaviours are
  explored in the same run.
* `CatalogStore`: `WholeCatalogIsFound` (if nothing was written on its own since), `TripKeepsProduct`;
  `CategoryIsAppended` (what is added on its own is found, with what was there) is the one that
  `catalog_append` violates.

Properties of LevelDB:

* `WriteQueue`: `UnflushedIsLogged`, `SyncedIsSafe`, `AnswersAreTrue` (a batch can be read from
  its answer on, or never), `EverybodyReturns` (every call, and the destructor).
* `LsmTree`: `LevelsAreDisjoint`, `NewerAbove`, `KeepsStore`, `LevelsFitInTheEnd`.
* `Recovery`: `PromisedIsOnDisk` (at every step, that of a second crash included), `PromisedIsRead`,
  `SequencesAreNew`, `LogsReadBack`, `OpensInTheEnd`.
* `TableCache`: `RefsCountHolders`, `HandlesAreGood`, `CachedFilesExist`, `OpenFilesAreBounded`.

Comments in the modules say what each means.

Behaviours the modules have and no property forbids, because nothing in the repository says
they must not happen:

* of two check-outs of one device that are both answered before either writes, the second drops
  what the first saved (`ReadCallback`, `Overtaken`);
* a read that is refused is taken for an empty list, and the write that follows forgets what was
  stored (`ReadError`, `Overtaken`);
* the cart survives a sign-out, and the next user's orders are stored under the user before;
  a product added while a check-out is under way is cleared with it, never ordered (`NotifySuccess`);
* a cross tapped during the animation of another deletion removes the neighbour of the
  product it is on, or ends the app (`Favorites`);
* a search result drawn or tapped between an answer and its reload ends the app (`RowTraps`);
* with two logins at once, an answer that comes after a sign-out caches the user again, and
  the next start of the app skips the login screen; after a refused user record nobody is
  cached behind the consumer's screens; after a login by Facebook or a sign-up during which
  the segment changed, the screens are not those of the user's type (`Session`);
* an order of a second vendor is listed under the vendor of the first order (`Path`), and with
  `MaxLogins = 1` a check-out of the user before empties the cart under the Orders screen, where
  deleting a row then ends the app (`DeleteRowRaises`);
* a write after a failed append to the same log may return OK and not be found after a crash
  (`Recovery`, above).

*Bounds of the app.* `Jobs` bounds the taps on Check Out, `MaxOrders` the order ids,
`MaxQuantity` the quantity of an order, `MaxLogins` the changes of user. Two check-outs
are enough for one to overtake, follow, or read the unanswered write of the other; two
order ids and two products for a cart that changes under a check-out, an index that
is off by one. One vendor is enough: which list a check-out writes is a matter of its first
order alone. `MaxQuantity` is 1: adding a product once more leaves
its row as it is, and no property reads a quantity. In
`checkout_sessions` one order is enough: it is the one that outlives its user's session.
`MaxAnimations` bounds the deletions under way: two, so that a tap can meet a cell that two
deletions have moved. `MaxSearches` bounds the changes in the search bar: two, for a search to
overtake the read of the categories, or another search. `MaxTaps` and `MaxPending` bound the logins: three taps, so that a
user can log in, out, and in again with one attempt late. `MaxCategories` bounds catalogs: two,
for an order among them.

*Bounds of LevelDB.* `MaxCalls` bounds the calls of `Write` and `TEST_CompactMemTable`: with a memtable of one batch
three of them make two switches, so that a writer waits for the flush, and three threads
are the least with a group of two and one behind it. The triggers are 1, 1 and 2, so delay,
stop and merge happen. Three levels are the least with a level between the first and the
last (grandparents, `IsBaseLevelForKey`); loads of four writes reach a merge with a
flush in its middle; a load without snapshots never has two entries of a key below level 0 in
two files, which is what `lsm_boundary` is about. In `recovery` a batch of two cells may
leave a trailer and one of four never fits into a block, so all fragment types occur; two
crashes let the second strike the opening after the first. In `table_cache` room for one table
makes every insertion evict, and four addresses are one more than three clients can hold, so memory is used again.

*Fairness.* Firebase answers a read or a write that is outstanding, with an error if need be
(the SDK does so once it is connected), the group's notify block, the callbacks of reads and the
blocks given to the main queue run. Firebase also answers authentications, and the launch timer fires. Users have
no fairness, and the end of the process needs none; `Settles` leaves out the behaviours in which the app is ended over and
over, since each start reads the catalog anew. In `WriteQueue` each thread that is in a call
runs when it can, and so does the background thread, whose queue `Schedule` fills; nobody has
to call or close. In `LsmTree` the background thread goes on while there is work, since
`BackgroundCall` schedules itself; seek compactions, which need readers, have no fairness. In
`Recovery` opening goes on unless it is stopped by a crash, of which there are finitely many.
`LsmTree` and `Recovery` write the fairness out with the guard of the action in place of `ENABLED`, which
is the same formula and faster to check.

*Deadlock.* `CHECK_DEADLOCK FALSE` is given where the system may stop: the database is closed, the writes of a behaviour are used up.

## Proofs

`CheckoutInv` is inductive: the type invariant, ids below `nextId`, one row per
product, untouched idle check-outs, callbacks that wait on the device of their check-out, and the
correspondence of branches and outbox. The
ids are needed for `CartOneRowPerProduct` (the row appended must have a new id), the
idle check-outs for the outbox (a tap must not meet writes of its own).

* `TypeCorrect`, `OneRowPerProductAlways`, `BranchesMatchOutboxAlways`: its parts.
* `CheckoutKeepsPromise`: `Checkout` implements `CheckoutPromise`, step by step.
* `DeleteIsSafe`, for `MaxLogins = 0`: with `ScreenInv`, that the array on screen is the
  stored cart. The assumption is needed: with `MaxLogins = 1` the property fails, as told
  under Runs.
* `HistoryHolds`, `SavedStaysStored`, `HistoryGrows`, about `FreshCheckout` with a single device, any
  number of check-outs, refused reads included, until a callback is overtaken. The strengthening `HistoryInv`
  says that the lists on their way to one path, the server's first, each end with the one before: a callback that
  is not overtaken merges with the last of them. `vendor_race` shows that the single device is
  needed; two check-outs answered by one list, that `fresh` is. `FreshIsCheckout` carries the theorems about
  `Checkout` over.
* `CartKeptAlways`: an order that leaves a cart was deleted by hand or checked out with both lists
  saved. By `OrdersAfterAdd` and `RemoveOrderKeepsOthers`, what the two operations leave alone.
* `Flow`, proved once for all steps (`FlowStep`), says where each list of a step comes from: the screen's
  from the cart, a check-out's from the screen, an answer's from what is stored or sent, what is sent from the check-out and the
  answer, what is stored from what was sent. Two theorems carry a property along it:
  * `OwnUntilReloginAlways`, with `OwnInv`: cart, screen, check-outs, answers and the lists on their way belong to the
    user of the device, and a path is that of the first order.
  * `NoExtraCopiesAlways`, with `CopiesInv`: screens and check-outs hold an order once, and every list,
    stored, answered or on its way, holds it at most as often as check-outs have sent it. `SentGrows`: those are finitely
    many, though `Jobs` need not be, and a check-out that sends now was not counted in what it read.

These rest on `CheckoutAssumption` (the constants are functions and numbers of the
right kind, the blank id is nobody's). Model-checked only: the liveness properties.

`Catalog_proofs`, first part, about `Shop`: `ShopInv`, which is `FavoritesInv` and `BrowseInv`, is inductive.
Each screen's steps keep its own part (a lemma per step), and leave the variables of the other alone,
`stored` excepted: when the heart of a search result is tapped, neither the Category nor the Favorites
screen is in front, and their invariants are about a screen in front. `FavoritesInv` is the
conjunction of all invariants of `Favorites`. A cross
is right because there is one cell for each stored product; there is because a deletion takes
one of both, and that needs a product to be stored once (`UnmarkKeepsOthers`). Theorems
`FavoritesTypeCorrect`, `StoredOnceAlways`, `ScreenFollowsStoreAlways`, `CrossIsRight`,
`HeartsAreTrue`.

`Catalog_proofs`, second part, about what the Browse screen finds. All of this is from `FavoritesAssumption` and
`BrowseAssumption`.
`FetchItemsFinds`, by induction over the two loops of `fetchItems`: what is found are the
products that match, in whichever category, and no others. `BrowseInv` is inductive: the last read under
way is for the text and the scope of now, since each change asks for one; if none is under way,
`filteredProducts` answers them (`Answered`); and with no reload waiting the table shows what it would be
told now (`Drawn`). Both rest on Firebase answering in order, as it does for one client: an answer
for an earlier text is always followed by that for the last. Theorems `BrowseTypeCorrect`, `RowsAnswerAlways`,
`RangeIsCoveredAlways` (two ends rounded down still enclose what lies between, `FloorIsMonotonic`): any catalog,
texts, prices and unit, any number of searches. For these proofs `Filtered` and `FetchItems` are written
as functions by recursion: the provers cannot expand `SelectSeq`.

`Catalog_proofs`, third part, about `CatalogStore`, from `CatalogAssumption`: `CatalogInv` says
that the numbered children are the catalog last written as a whole (so that it is what is read, if
no child has a name), `ProductTripKeeps` and
`CategoryTripKeeps` what a stay in the database does to a product and a category (an empty list is
not kept, and the reader takes what is missing for one; a number sent as a string is not found).
Theorems `WholeCatalogAlways` and `ProductsSurviveTheTrip`, for any products, shelves and names. The first is about a
database without named children; `catalog_append` shows what is read with one.

`Session_proofs`, part 1, without conditions: `CachedWasRecordedAlways`, from the
strengthening that a record marked as taken is in the database. Part 2: cache, Firebase, database and
screens agree (`Agree`), by the strengthening `MailInv`: an attempt is alone, has its own screen
in front, and nobody is cached while the login screen is there. `MailStep` keeps it over every step but those
that add a second attempt, another kind of login or a refused record. Those are excluded in two ways:

* `MailLoginsAgree`, by conditions on the constants (`MailOneByOne`);
* `CalmLoginsAgree`, `CalmCachedIsSignedInAlways`, `CalmScreensFitUserAlways`, of every behaviour as long as it
  is `calm`, whatever else is on offer: the form the run `session` checks. That a second attempt is
  noticed rests on its number being new (`CalmTapIsAlone`).

`TableCache_proofs`: `TableInv` is inductive. Its first part, `CacheInv`, is about the cache
alone (a lemma per operation): the count of an entry is the number of handles to it plus one for the list, and list
and hash table hold the same entries. The counts need the list to be injective, and that an
address on the list is one the table leads to, so that removing one removes it. The second part, `FilesInv`, says
what a client's place implies: a handle from the insertion on, for the file it asked for; a file that
is looked for is pinned, so it is not evicted for deletion before its client has finished. Theorems
`RefsCountHoldersAlways`, `TableFollowsListAlways`, `HandlesAreGoodAlways`,
`CachedFilesExistAlways`, from `LRUCacheAssumption` and `TableCacheAssumption`. The third part, `UsageInv`: `usage_` is the number of open files, since each entry is charged 1 from its insertion
until it is freed; while no `Insert` is evicting it is within the capacity or the list is empty; and
after the close nothing is open. What is open and on no list has a holder (`RefsCountHolders`), hence
`OpenFilesAreBoundedAlways`.

`WriteQueue_proofs`: `Inv` is inductive, in five parts of which each rests on those before it. `QueueInv`: a
thread is in the queue once, sleeps there or is in front, and the group under way is a beginning of the
queue. `CallInv`: the batches of calls in the queue, of answers and of what is stored do not mix.
`StoredInv`: nothing is stored before its insertion, and `imm_` is empty when `hasImm` says so (so a
switch overwrites nothing). `LogInv`: the last log holds the memtable, an edit that is about to be applied
names the last log, because no switch happens while `imm_` is there, and what was synced for a group is in the synced part.
Steps are sorted by what they do to the queue (`StepsAre`: a step of the front, a group begins, a write ends,
the background thread, and the rest). Theorems `OnlyFrontWritesAlways`, `UnflushedIsLoggedAlways`,
`AnswersAreTrueAlways`, `SyncedIsSafeAlways`, from `WriteQueueAssumption` alone: any number of
threads and calls, any size of the memtable and triggers, with and without I/O errors.

`Recovery_proofs`, first part: the writer and the reader of a log are functions by recursion over the
naturals. The library's induction theorems cannot be used here, but a property that is a set of
naturals can (`SequenceLemmas`, `InductionOnNat`, and `RecursionOnNat` for such functions), so these
results are for records of any size, blocks and headers of any size, and any number of records:

* `AddRecordReads`: what `AddRecord` appends to a log that reads through (`ReadsThrough`: after some
  rounds the reader stands at its end, between two records, with the writer's `block_offset_`)
  makes it read through with one record more. By induction over the rounds of the writer: after
  each the reader has as much of the record in `scratch` as the writer has put down.
* `WrittenReads`: a log that reads through is read back as all its records.
* `TruncatedReads`: of a file cut anywhere the reader finds the first of the records of the whole,
  and no others. Up to the cut the reader does the same in both files; where the fragment in hand is cut off
  it stops. This holds of any cells, of logs with failed appends too.

The second part of `Recovery_proofs`: `IInv` is inductive. It is about *every* edit of the descriptor in use that may be the
last one after a crash (`Standing`: from what is synced to what is written), since the step that would lose
something is not the crash but the one before it:

* `FilesOK`: the tables of the version each such edit leads to are there (so opening never fails,
  and nothing is deleted too early), and `last_sequence` is no less than what they hold;
* `HardOK`: what may not be lost in a crash of the machine is in those tables or in the synced part of a log not
  older than the edit's `log_number`; `AckedOK`: the same of the last edit, for a crash of the process, with all
  of the log but the record that is being appended;
* `RunningOK`, `JobOK`, `PendingOK`, `LogfileOK`: memory follows the edit in force, a table is what was flushed or
  merged, and what of `mem` is promised is in the log in use;
* `OpeningOK`, `ReplayingOK`, `RecoveredOK`, `WrittenOK`, `InstalledOK`: how far `DB::Open` has come:
  what of the logs has been replayed is in the new tables, so when `CURRENT` is renamed the new
  descriptor, which is synced as a whole, has all that is promised;
* `LogsOK`: each log without a failed append reads as the first of the batches that went into it.

There is a lemma per action (and one per conjunct that it disturbs); `NothingLost` and the lemmas after it, on
steps that leave most of this alone, carry the rest. Theorems `RecoveryTypes`, `PromisesAreKept`,
`PromisesAreRead`, `NumbersAreNew`, `LogsAreReadBack`, `OpeningNeverFails`, from
`LogFormatAssumption` and `RecoveryAssumption`: any sizes of batches and of the write buffer, any number of
writes, crashes and failures, where the run has at most three writes and two crashes. TLC had checked each conjunct of `IInv`
in every state of the run's instance before it was proved (`ReadsThrough` by what it amounts to,
`ReadRecords(cells) = records`). The attempt changed the model in one place: a batch whose record is
lost has its number used again, which the ghosts had to forget when the new batch is
acknowledged (`Acknowledge`); a budget of four writes, two crashes and one failing append shows it.

`LsmTree_proofs`, from `LsmTreeAssumption`: any keys, levels, limits and loads. Four invariants, each on top of
the one before:

* `TreeInv` is inductive without conditions: sequence numbers grow from the files to `imm_` to `mem_`
  (`SeqOK`), files of a level below 0 do not overlap (`Disjoint`), and the merge under way still fits the
  levels, which flushes have changed since it began (`Fits`). The point is why a flush cannot come between
  the files of a merge: those of its level and the next have no gap between them (`Covered`), so a
  table in the range of the output overlaps one of them, and `PickLevelForMemTableOutput` stops above.
  This gives `TreeTypesAlways` and `LevelsAreDisjointAlways`. What a merge writes (`OutputsInOrder`: what `Drop`
  leaves, in order, table after table) is by induction over the rounds of its loop.
* `NewerInv` adds that newer entries lie above older ones and that no key is in two files of a level. It
  is kept by every step that starts where `NoKeyIsCut` holds: the merge under way does not end a table between two entries of
  one key. This is the exact thing the code does not see to, and what goes wrong in `lsm_boundary`; all
  else is no condition. `NewerAboveUnlessCut` is about any load and the behaviours in which no key is cut.
* `NothingIsEverCut`: with a load that takes no snapshots a merge keeps one entry of a key
  (`NoSnapshotInv`), and with one that writes less than fills a table only the grandparents end a table, which do
  not overlap (`NothingToCut`; the loads of the run `lsm_tree` are of these two kinds). For these
  loads `NewerAboveAlways` needs no condition on the behaviour.
* `ReadInv` adds that tables of level 0 are numbered in the order of what they hold, and that what
  has come into the levels since a merge began is newer than all it looked at when it dropped a deletion
  (`BegunBefore`). Then a read finds the newest entry wherever it is (`GetIsNewest`), and a merge drops no
  entry a snapshot sees, nor a deletion that hides anything (`InstallKeepsNewest`). Hence
  `KeepsStoreUnlessCut` and `TreeKeepsStore`: the tree implements `SnapshotStore`; writes and snapshots are its
  steps, and flushes, moves and merges stutter.

TLC had checked these invariants in every state of `lsm_tree` first, and in those of `lsm_boundary` the ones
that do not need `NoKeyIsCut`. For the proofs `Outputs` and `GetOverlappingInputs` were split into operators.

Every invariant and action property of the passing runs, and both refinements, are theorems, on the
conditions told above where there are any. Only the liveness properties stay with TLC (`CheckOutEnds`, `RefreshRuns`,
`Settles`, `LoginsEnd`, `EverybodyReturns`, `LevelsFitInTheEnd`, `OpensInTheEnd`), since the provers have no
`ENABLED`.

## Plan

Done: of the app `Checkout`, `Shop` (with `Favorites` and `Browse`), `Session` and `CatalogStore`, and of LevelDB
the write path, the levels, recovery and the table cache, all with proofs. What could follow:

1. `CompactRange` in `LsmTree`: manual compactions cut their inputs short, and a memtable flushed
   during one may be placed into a gap its output will span (`version_set.cc` 1385).
2. `NewDB` in `Recovery`, and errors of the background thread there.
3. Iterators over a version, with their seek samples.
4. `Session` composed with `Checkout` in place of `Relogin`, and `Shop` with both.

## Not modelled

Of the app: layout, images, alerts and the
activity indicator; vendor, profile and product-detail screens, which are static;
`CloudController` and `readProductCatalog`, which nothing calls; the REI download, which
is commented out of the start of the app; Apple Pay, a payment sheet with a fixed item that
places no order. `updateQuantity` is an operator without an action: nothing calls it.

Of LevelDB: block and table formats, filters, iterators, the skip list, the arena, the repairer,
the C interface and the benchmark, which are mostly sequential code on bytes; `CompactRange`; `NewDB`.

Protobuf, nanopb, GTMSessionFetcher, Facebook and Bolts: accessors, encoders and HTTP code the
app reaches only through Firebase, which comes as binaries and is modelled as the app uses it.
