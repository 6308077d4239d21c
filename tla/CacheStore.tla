------------------------------ MODULE CacheStore ------------------------------
(***************************************************************************)
(* The Cache API: lib/cache.js over the page files of aworker_cache.cc.    *)
(* Workers of one origin share a data directory.  It holds the storage     *)
(* page (the names of the caches), a page per cache (its entries) and a    *)
(* page per cached object; one cache is modelled.  A page is written by    *)
(* unlinking the file and filling a new one, header first, from the event  *)
(* loop; a reader keeps the file it opened.                                *)
(*                                                                         *)
(* Writers are kept apart by a lock that the agent grants across workers   *)
(* (acquireResource).  A worker may crash at any step; the agent then      *)
(* takes back its locks, and what it had written stays.                    *)
(***************************************************************************)
EXTENDS Integers, Sequences, FiniteSets, FileStreams

CONSTANTS Ops, Workers, Keys, Names,
          Scenarios,          \* the sets of operations that are started together
          Kind, Arg, Worker,  \* of each operation
          CanFail             \* writes may fail

Files == {"storage", "page"}
NoFile == 0
StorageKinds == {"open", "delete", "has", "keys"}
Writers == {"open", "delete", "put"}  \* acquired with exclusive = true
File(o) == IF Kind[o] \in StorageKinds THEN "storage" ELSE "page"

ASSUME KindAssumption == Kind \in [Ops -> StorageKinds \cup {"match", "put"}]
ASSUME ArgAssumption ==
  \A o \in Ops : Arg[o] \in IF Kind[o] \in StorageKinds THEN Names ELSE Keys

VARIABLES
  disk,     \* the inode of each page file
  inodes,   \* the contents of the inodes, in the order of their creation
  object,   \* the object page of each key
  op,       \* the operations
  lock,     \* the operations that hold each resource
  down,     \* the workers that crashed
  deleted,  \* the cache's page was unlinked by a delete
  overlap   \* a storage operation began while another was under way

cacheVars == <<disk, inodes, object, op, lock, down, deleted, overlap>>

\* An operation that has asked for its lock (acquireResource).
NewOp == [stage |-> "wait", inode |-> NoFile, page |-> {}, left |-> {},
          stream |-> NewStream, torn |-> FALSE]

CacheInit ==
  /\ disk = [f \in Files |-> NoFile]
  /\ inodes = <<>>
  /\ object = [k \in Keys |-> "none"]
  /\ \E started \in Scenarios :
       op = [o \in Ops |-> IF o \in started THEN NewOp ELSE [NewOp EXCEPT !.stage = "unused"]]
  /\ lock = [f \in Files |-> {}]
  /\ down = {}
  /\ deleted = FALSE
  /\ overlap = FALSE

Ended == {"unused", "done", "rejected", "stuck", "dead"}
Active(o) == op[o].stage \notin Ended \cup {"wait"}
Runs(o, s) == op[o].stage = s /\ Worker[o] \notin down

\* What the file under a name holds.
Content(f) == IF disk[f] = NoFile THEN <<>> ELSE inodes[disk[f]]

\* ReadPage's parsers on what was read: nothing is a failure, the header alone
\* an empty page (the result of ParseFromZeroCopyStream is not looked at).
Parsed(c) == Len(c) > 0
PageOf(c) == IF Len(c) = 2 THEN c[2] ELSE {}

-----------------------------------------------------------------------------
(* Locks *)

\* The agent grants an exclusive request alone, shared ones together.
Grantable(o) ==
  \A p \in lock[File(o)] : Kind[o] \notin Writers /\ Kind[p] \notin Writers

Release(o) == lock' = [lock EXCEPT ![File(o)] = @ \ {o}]

-----------------------------------------------------------------------------
(* Pages *)

\* WritePage: unlink, create, and hand header and page to the stream.
WritePage(o, r, page) ==
  /\ inodes' = Append(inodes, <<>>)
  /\ disk' = [disk EXCEPT ![File(o)] = Len(inodes) + 1]
  /\ op' = [op EXCEPT ![o] = [r EXCEPT
       !.stage = "write", !.page = page, !.inode = Len(inodes) + 1,
       !.stream = Dispose(Fill(Fill(NewStream, "header"), page))]]

\* CacheStorage::Ensure once the page is read: keep the name, or start afresh
\* when there was no page.
Ensure(o, r, c) ==
  LET page == IF Parsed(c) THEN PageOf(c) ELSE {}
  IN IF Arg[o] \in page
       THEN /\ op' = [op EXCEPT ![o] = [r EXCEPT !.stage = "done"]]
            /\ UNCHANGED <<disk, inodes>>
       ELSE WritePage(o, r, page \cup {Arg[o]})

\* CacheStorage::Delete once the page is read.
DeleteName(o, r, c) ==
  IF Parsed(c) /\ Arg[o] \in PageOf(c)
    THEN WritePage(o, r, PageOf(c) \ {Arg[o]})
    ELSE /\ op' = [op EXCEPT ![o] = [r EXCEPT !.stage = "done"]]
         /\ UNCHANGED <<disk, inodes>>

\* CacheStorage::Has and List once the page is read: the answer is given.
Has(o, r, c) ==
  /\ op' = [op EXCEPT ![o] = [r EXCEPT !.stage = "done", !.page = PageOf(c) \cap {Arg[o]}]]
  /\ UNCHANGED <<disk, inodes>>
List(o, r, c) ==
  /\ op' = [op EXCEPT ![o] = [r EXCEPT !.stage = "done", !.page = PageOf(c)]]
  /\ UNCHANGED <<disk, inodes>>

\* A page operation goes on to the object pages of its entries; a page that
\* could not be read has none.
EntriesRead(o, r, c) ==
  /\ op' = [op EXCEPT ![o] = [r EXCEPT !.stage = "objects", !.page = PageOf(c),
               !.left = PageOf(c), !.torn = Len(c) = 1 \/ (c = <<>> /\ r.inode # NoFile)]]
  /\ UNCHANGED <<disk, inodes>>

\* The callback of ReadPage.
PageRead(o, r, c) ==
  CASE Kind[o] = "open" -> Ensure(o, r, c)
    [] Kind[o] = "delete" -> DeleteName(o, r, c)
    [] Kind[o] = "has" -> Has(o, r, c)
    [] Kind[o] = "keys" -> List(o, r, c)
    [] Kind[o] \in {"match", "put"} -> EntriesRead(o, r, c)

\* ReadPage opens the file at once; without one the callback runs at once.
ReadPage(o) ==
  LET r == [op[o] EXCEPT !.stage = "read", !.inode = disk[File(o)]] IN
  IF r.inode = NoFile THEN PageRead(o, r, <<>>)
  ELSE op' = [op EXCEPT ![o] = r] /\ UNCHANGED <<disk, inodes>>

\* The methods of the binding that read a page.
ListCacheStorage(o) == Kind[o] = "keys" /\ ReadPage(o) /\ UNCHANGED deleted
DetectCacheStorage(o) == Kind[o] = "has" /\ ReadPage(o) /\ UNCHANGED deleted
EnsureCacheStorage(o) == Kind[o] = "open" /\ ReadPage(o) /\ UNCHANGED deleted
ReadCachePage(o) == Kind[o] \in {"match", "put"} /\ ReadPage(o) /\ UNCHANGED deleted

\* CacheStorage::Delete first unlinks the cache's own page.
DeleteCacheStorage(o) ==
  LET r == [op[o] EXCEPT !.stage = IF disk["storage"] = NoFile THEN "done" ELSE "read",
                         !.inode = disk["storage"]] IN
  /\ Kind[o] = "delete"
  /\ deleted' = TRUE
  /\ disk' = [disk EXCEPT !["page"] = NoFile]
  /\ op' = [op EXCEPT ![o] = r]
  /\ UNCHANGED inodes

Read(o) == \/ ListCacheStorage(o) \/ DetectCacheStorage(o) \/ EnsureCacheStorage(o)
           \/ DeleteCacheStorage(o) \/ ReadCachePage(o)

\* Mutant: a transaction does not wait for the lock.
BeginUnlocked(o) ==
  /\ Runs(o, "wait")
  /\ Read(o)
  /\ UNCHANGED lock
  /\ overlap' = (overlap \/ \E p \in Ops \ {o} : File(p) = File(o) /\ Active(p))
  /\ UNCHANGED <<object, down>>

\* The lock is granted and the page is read.  CacheStorage's methods return
\* the promise of the native call, so that their finally clause releases the
\* lock here; batchCacheOperations and readCacheFullStorage await.
Begin(o) ==
  /\ Runs(o, "wait")
  /\ Grantable(o)
  /\ Read(o)
  /\ lock' = IF Kind[o] \in StorageKinds THEN lock
             ELSE [lock EXCEPT !["page"] = @ \cup {o}]
  /\ overlap' = (overlap \/ (Kind[o] \in StorageKinds /\ \E p \in Ops \ {o} :
                               Kind[p] \in StorageKinds /\ Active(p)))
  /\ UNCHANGED <<object, down>>

\* UvZeroCopyInputFileStream: chunks are read until one is empty.
ReadEof(o) ==
  /\ Runs(o, "read")
  /\ PageRead(o, op[o], inodes[op[o].inode])
  /\ UNCHANGED <<object, lock, down, deleted, overlap>>

\* readCacheFullStorage reads the objects one by one.  A missing or empty one
\* rejects the operation; a header without a body fails
\* CHECK(has_request && has_response) and takes the worker down.
ReadCacheObjectPage(o, k) ==
  /\ Runs(o, "objects") /\ k \in op[o].left
  /\ \/ /\ object[k] = "whole"
        /\ op' = [op EXCEPT ![o].left = @ \ {k}]
        /\ UNCHANGED <<lock, down>>
     \/ /\ object[k] \in {"none", "empty"}
        /\ op' = [op EXCEPT ![o].stage = "rejected"]
        /\ Release(o)
        /\ UNCHANGED down
     \/ /\ object[k] = "header"
        /\ down' = down \cup {Worker[o]}
        /\ UNCHANGED <<op, lock>>
  /\ UNCHANGED <<disk, inodes, object, deleted, overlap>>

\* All objects are read: a match answers.
MatchAnswers(o) ==
  /\ Runs(o, "objects") /\ op[o].left = {} /\ Kind[o] = "match"
  /\ op' = [op EXCEPT ![o].stage = "done"]
  /\ Release(o)
  /\ UNCHANGED <<disk, inodes, object, down, deleted, overlap>>

\* ... and a put writes the cache page (batchCacheOperationsAtomicSteps).
WriteCachePage(o) ==
  /\ Runs(o, "objects") /\ op[o].left = {} /\ Kind[o] = "put"
  /\ WritePage(o, op[o], op[o].page \cup {Arg[o]})
  /\ UNCHANGED <<object, lock, down, deleted, overlap>>

\* The page's stream advances: IdleCb, WriteCb.  When it ends, a storage
\* operation answers and a put unlinks and creates all its object pages.
StreamStep(o) ==
  LET s == IF op[o].stream.idle THEN Start(op[o].stream) ELSE Written(op[o].stream) IN
  /\ Runs(o, "write")
  /\ inodes' = [inodes EXCEPT ![op[o].inode] = s.written]
  /\ op' = [op EXCEPT ![o] = [op[o] EXCEPT
       !.stream = s, !.left = IF s.ended THEN op[o].page ELSE {},
       !.stage = IF ~s.ended THEN "write" ELSE IF Kind[o] = "put" THEN "writeObjects" ELSE "done"]]
  /\ object' = IF s.ended /\ Kind[o] = "put"
                 THEN [k \in Keys |-> IF k \in op[o].page THEN "empty" ELSE object[k]]
                 ELSE object
  /\ UNCHANGED <<disk, lock, down, deleted, overlap>>

\* A write fails: WriteCb logs and the callback never runs.
WriteFails(o) ==
  /\ CanFail
  /\ Runs(o, "write") /\ op[o].stream.writing
  /\ op' = [op EXCEPT ![o].stage = "stuck", ![o].stream = Failed(@)]
  /\ UNCHANGED <<disk, inodes, object, lock, down, deleted, overlap>>

\* The object pages are written side by side, each header first.
WriteCacheObjectPage(o, k) ==
  /\ Runs(o, "writeObjects") /\ k \in op[o].left
  /\ object' = [object EXCEPT ![k] = IF @ = "header" THEN "whole" ELSE "header"]
  /\ op' = [op EXCEPT ![o].left = IF object'[k] = "whole" THEN @ \ {k} ELSE @]
  /\ UNCHANGED <<disk, inodes, lock, down, deleted, overlap>>

\* batchCacheOperations is done: the lock is released.
ObjectsWritten(o) ==
  /\ Runs(o, "writeObjects") /\ op[o].left = {}
  /\ op' = [op EXCEPT ![o].stage = "done"]
  /\ Release(o)
  /\ UNCHANGED <<disk, inodes, object, down, deleted, overlap>>

-----------------------------------------------------------------------------

Crash(w) ==
  /\ w \notin down
  /\ down' = down \cup {w}
  /\ UNCHANGED <<disk, inodes, object, op, lock, deleted, overlap>>

\* The agent notices that a worker is gone.
Reclaim(o) ==
  /\ Worker[o] \in down /\ op[o].stage \notin Ended
  /\ op' = [op EXCEPT ![o].stage = "dead"]
  /\ Release(o)
  /\ UNCHANGED <<disk, inodes, object, down, deleted, overlap>>

Step(o) == \/ Begin(o) \/ ReadEof(o) \/ MatchAnswers(o) \/ WriteCachePage(o) \/ StreamStep(o)
           \/ ObjectsWritten(o) \/ Reclaim(o)
           \/ \E k \in Keys : ReadCacheObjectPage(o, k) \/ WriteCacheObjectPage(o, k)

CacheNext == \/ \E o \in Ops : Step(o) \/ WriteFails(o)
             \/ \E w \in Workers : Crash(w)

\* The agent answers requests for locks, and the event loop of a live worker
\* delivers the results of its file operations.
CacheFairness == \A o \in Ops : WF_cacheVars(Step(o))

CacheSpec == CacheInit /\ [][CacheNext]_cacheVars /\ CacheFairness

-----------------------------------------------------------------------------
(* Properties *)

CacheTypeOK ==
  /\ \A f \in Files : disk[f] \in 0..Len(inodes)
  /\ \A o \in Ops : op[o].page \subseteq Keys \cup Names
  /\ object \in [Keys -> {"none", "empty", "header", "whole"}]

Faulted == down # {} \/ \E o \in Ops : op[o].stage = "stuck"

\* No put is lost: what the finished puts stored is in the page that the next
\* reader of the cache opens, unless the cache was deleted or a writer died
\* half-way (batchCacheOperations, WritePage).
PutsKept ==
  \A o \in Ops :
    Kind[o] = "put" /\ op[o].stage = "done" /\ ~deleted /\ ~Faulted
      => \/ Arg[o] \in PageOf(Content("page"))
         \/ \E p \in Ops : Runs(p, "write") /\ Kind[p] = "put" /\ Arg[o] \in op[p].page

\* Readers see whole pages: a cache page that is being written, or an entry
\* whose object is not, is only ever seen after a crash or a failed write
\* (readCacheFullStorage under the lock of batchCacheOperations).
WholePages ==
  \A o \in Ops :
    op[o].torn \/ op[o].stage = "rejected"
      => down # {} \/ \E p \in Ops : op[p].stage = "stuck"

\* The storage page lists every opened cache, as long as no storage operation
\* overlapped another and none was deleted (CacheStorage::Ensure).
OpensKeptAlone ==
  ~overlap /\ ~deleted /\ ~Faulted =>
    \A o \in Ops : Kind[o] = "open" /\ op[o].stage = "done"
      => \/ Arg[o] \in PageOf(Content("storage"))
         \/ \E p \in Ops : Kind[p] = "open" /\ Runs(p, "write") /\ Arg[o] \in op[p].page

\* No put is lost, readers see whole pages, and the storage page lists every
\* opened cache: unless a worker died or a write failed half-way, a cache was
\* deleted, or two storage operations overlapped (batchCacheOperations,
\* readCacheFullStorage, CacheStorage::Ensure).
CacheKept == PutsKept /\ WholePages /\ OpensKeptAlone

\* Every operation has ended, or one is stuck.
AllEnded == (\A o \in Ops : op[o].stage \in Ended) \/ \E o \in Ops : op[o].stage = "stuck"

\* Every operation ends, so that no lock is kept for ever: only a failed write,
\* whose callback never runs, holds up the operations behind it
\* (UvZeroCopyOutputFileStream::WriteCb).
OpsEnd == []<>AllEnded

\* lib/cache.js opens a cache with the comment "exclusive": an opened cache
\* stays listed, whatever other opens run beside it.
OpensKept ==
  ~deleted /\ ~Faulted =>
    \A o \in Ops : Kind[o] = "open" /\ op[o].stage = "done"
      => \/ Arg[o] \in PageOf(Content("storage"))
         \/ \E p \in Ops : Kind[p] = "open" /\ Runs(p, "write") /\ Arg[o] \in op[p].page
=============================================================================
