----------------------------- MODULE CacheProofs -----------------------------
(***************************************************************************)
(* The cache, for any operations of any workers.  A crash or a failed      *)
(* write excuses everything, so that CInv speaks of the other states.  The *)
(* two files have nothing in common, and each has its own argument: the    *)
(* lock keeps a put alone with the cache page, and storage operations that *)
(* do not overlap are alone with the storage page.                         *)
(***************************************************************************)
EXTENDS CacheStore, SequenceTheorems, TLAPS

\* What a page may list, and what the file may hold of it.
Listed == Keys \cup Names
Parts == {"header"} \cup SUBSET Listed
Contents == {c \in Seq(Parts) : \/ Len(c) = 0 \/ Len(c) = 1
                                \/ Len(c) = 2 /\ c[2] \in SUBSET Listed}

\* The stream s of a page p as it advances.
Streams == [queue : Seq(Parts), written : Seq(Parts), waiting : BOOLEAN, idle : BOOLEAN,
            writing : BOOLEAN, disposed : BOOLEAN, ended : BOOLEAN]
AllQueued(s, p) == /\ Len(s.queue) = 2 /\ s.queue[1] = "header" /\ s.queue[2] = p
                   /\ Len(s.written) = 0 /\ s.disposed /\ ~s.ended
HeaderOut(s, p) == /\ Len(s.queue) = 1 /\ s.queue[1] = p
                   /\ Len(s.written) = 1 /\ s.disposed /\ ~s.ended /\ ~s.idle
AllOut(s, p) == Len(s.written) = 2 /\ s.written[2] = p /\ s.ended
Advances(s, p) == AllQueued(s, p) \/ HeaderOut(s, p)

\* The operations while nothing has failed.
PageOp(o) == Kind[o] \in {"match", "put"}
Put(o) == Kind[o] = "put"
Begun == {"read", "objects", "write", "writeObjects"}
CacheRecords ==
  [stage : {"unused", "wait", "done"} \cup Begun, inode : Nat, page : SUBSET Listed,
   left : SUBSET Listed, stream : Streams, torn : {FALSE}]

\* What the record r of the operation o says, when n files were made.
RecordOK(o, r, n) ==
  /\ r.stage \in {"read", "write"} => r.inode \in 1..n
  /\ r.stage = "write" => Advances(r.stream, r.page) /\ Kind[o] \in Writers
  /\ r.stage = "objects" => PageOp(o)
  /\ r.stage = "writeObjects" => Put(o)

CTypes ==
  /\ inodes \in Seq(Contents)
  /\ disk \in [Files -> Nat] /\ \A f \in Files : disk[f] <= Len(inodes)
  /\ object \in [Keys -> {"none", "empty", "header", "whole"}]
  /\ op \in [Ops -> CacheRecords]
  /\ \A o \in Ops : RecordOK(o, op[o], Len(inodes))

\* The two page files share no inode, under a name or open.
Uses(f, i) ==
  i # NoFile /\ \/ disk[f] = i
                \/ \E o \in Ops : File(o) = f /\ op[o].stage \in {"read", "write"} /\ op[o].inode = i
FilesApart == \A i \in Nat : ~(Uses("page", i) /\ Uses("storage", i))

\* The lock of the cache page is held by its operations, a put alone; that of
\* the storage page is given back at once.
PageLock ==
  /\ lock \in [Files -> SUBSET Ops]
  /\ lock["storage"] = {}
  /\ \A o \in Ops : o \in lock["page"] <=> PageOp(o) /\ op[o].stage \in Begun
  /\ \A o, p \in Ops : o \in lock["page"] /\ p \in lock["page"] /\ Put(o) => o = p

\* The cache page.  All that it lists is whole, except while a put writes.
Whole(k) == k \in Keys /\ object[k] = "whole"
Now == PageOf(Content("page"))
PutAt(o, stage) == Put(o) /\ op[o].stage = stage

PageFull ==
  disk["page"] # NoFile =>
    \/ Len(inodes[disk["page"]]) = 2
    \/ \E o \in Ops : PutAt(o, "write") /\ op[o].inode = disk["page"]
PageWhole ==
  \/ \E o \in Ops : PutAt(o, "write") \/ PutAt(o, "writeObjects")
  \/ \A k \in Now : Whole(k)
ReadOK(o) ==
  /\ Len(inodes[op[o].inode]) = 2
  /\ \A k \in inodes[op[o].inode][2] : Whole(k)
  /\ Put(o) /\ ~deleted => op[o].inode = disk["page"]
ObjectsOK(o) ==
  /\ op[o].left \subseteq op[o].page
  /\ \A k \in op[o].page : Whole(k)
  /\ Put(o) /\ ~deleted => op[o].page = Now
WriteOK(o) ==
  /\ op[o].page \subseteq Keys /\ Arg[o] \in op[o].page
  /\ disk["page"] \in {op[o].inode, NoFile}
  /\ ~deleted => disk["page"] = op[o].inode
WriteObjectsOK(o) ==
  /\ op[o].page \subseteq Keys /\ Arg[o] \in op[o].page
  /\ \A k \in op[o].page : k \notin op[o].left => Whole(k)
  /\ Now \subseteq op[o].page
  /\ ~deleted => Now = op[o].page
PageOpOK(o) ==
  /\ op[o].stage = "read" => ReadOK(o)
  /\ op[o].stage = "objects" => ObjectsOK(o)
  /\ op[o].stage = "write" => WriteOK(o)
  /\ op[o].stage = "writeObjects" => WriteObjectsOK(o)
PutKept(o) ==
  PutAt(o, "done") /\ ~deleted =>
    /\ \A p \in Ops : PutAt(p, "write") => Arg[o] \in op[p].page
    /\ (\A p \in Ops : ~PutAt(p, "write")) => Arg[o] \in Now
PageSide ==
  /\ PageFull /\ PageWhole
  /\ \A o \in Ops : PageOp(o) => PageOpOK(o) /\ PutKept(o)

\* The storage page, as long as its operations do not overlap.
StoreAt(o, stage) == ~PageOp(o) /\ op[o].stage = stage
StoreActive(o) == ~PageOp(o) /\ op[o].stage \in Begun
StoreOpOK(o) ==
  /\ op[o].stage \in Begun => Kind[o] # "delete"
  /\ op[o].stage \in {"read", "write"} => op[o].inode = disk["storage"]
  /\ op[o].stage = "write" => Arg[o] \in op[o].page
OpenKept(o) ==
  Kind[o] = "open" /\ op[o].stage = "done" =>
    /\ \A p \in Ops : StoreAt(p, "write") => Arg[o] \in op[p].page
    /\ (\A p \in Ops : ~StoreAt(p, "write")) => Arg[o] \in PageOf(Content("storage"))
StorageSide ==
  ~overlap /\ ~deleted =>
    /\ \A o \in Ops : ~PageOp(o) => StoreOpOK(o) /\ OpenKept(o)
    /\ \A o, p \in Ops : StoreActive(o) /\ StoreActive(p) => o = p

Calm == CTypes /\ FilesApart /\ PageLock /\ PageSide /\ StorageSide
CInv == DOMAIN op = Ops /\ (Faulted \/ Calm)

\* How the stream of a page begins.
LEMMA StreamBegins ==
  ASSUME NEW p \in SUBSET Listed
  PROVE  LET s == Dispose(Fill(Fill(NewStream, "header"), p))
         IN s \in Streams /\ AllQueued(s, p)
<1>1. NewStream \in Streams /\ NewStream.queue = <<>> /\ Len(NewStream.written) = 0
      /\ ~NewStream.ended
  BY DEF NewStream, Streams
<1>2. "header" \in Parts /\ p \in Parts
  BY DEF Parts
<1>3. PICK s : s = Fill(NewStream, "header")
  OBVIOUS
<1>4. /\ s \in Streams /\ Len(s.queue) = 1 /\ s.queue[1] = "header" /\ s.waiting
      /\ Len(s.written) = 0
  <2>1. NewStream.queue \in Seq(Parts) /\ Len(NewStream.queue) = 0
    BY <1>1, EmptySeq DEF Streams
  <2>2. PICK q : q = Append(NewStream.queue, "header")
    BY Zenon
  <2>3. q \in Seq(Parts) /\ Len(q) = 1 /\ q[1] = "header"
    BY <2>1, <2>2, <1>2, AppendProperties
  <2>4. s = [NewStream EXCEPT !.queue = q, !.waiting = TRUE,
                              !.idle = @ \/ ~NewStream.waiting]
    BY <2>2, <1>3 DEF Fill
  <2> QED
    BY <2>3, <2>4, <1>1, Zenon DEF Streams
<1>5. PICK t : t = Fill(s, p)
  OBVIOUS
<1>6. /\ t \in Streams /\ Len(t.queue) = 2 /\ t.queue[1] = "header" /\ t.queue[2] = p
      /\ Len(t.written) = 0 /\ t.waiting
  <2>1. s.queue \in Seq(Parts)
    BY <1>4 DEF Streams
  <2>2. PICK q : q = Append(s.queue, p)
    BY Zenon
  <2>3. q \in Seq(Parts) /\ Len(q) = 2 /\ q[1] = "header" /\ q[2] = p
    BY <2>1, <2>2, <1>2, <1>4, AppendProperties
  <2>4. t = [s EXCEPT !.queue = q, !.waiting = TRUE, !.idle = @ \/ ~s.waiting]
    BY <2>2, <1>5 DEF Fill
  <2> QED
    BY <2>3, <2>4, <1>4, Zenon DEF Streams
<1>7. PICK d : d = Dispose(t)
  OBVIOUS
<1>8. d \in Streams /\ AllQueued(d, p)
  BY <1>6, <1>7, Zenon DEF Dispose, Streams, AllQueued
<1> QED
  BY <1>3, <1>5, <1>7, <1>8

\* What a file holds at each step.
LEMMA ContentFacts ==
  ASSUME NEW c \in Seq(Parts)
  PROVE  /\ Len(c) = 0 => c \in Contents
         /\ Len(c) = 1 => c \in Contents
         /\ Len(c) = 2 /\ c[2] \in SUBSET Listed => c \in Contents
BY DEF Contents

\* A step of the stream: the idle callback, or a buffer in the file.
LEMMA StreamAdvances ==
  ASSUME NEW s \in Streams, NEW p \in SUBSET Listed, Advances(s, p), NEW t,
         t = IF s.idle THEN Start(s) ELSE Written(s)
  PROVE  /\ t \in Streams /\ t.written \in Contents /\ s.written \in Contents
         /\ Len(s.written) # 2
         /\ \/ ~t.ended /\ Advances(t, p) /\ Len(t.written) # 2
            \/ t.ended /\ AllOut(t, p)
<1>1. s.queue \in Seq(Parts) /\ s.written \in Seq(Parts)
  BY DEF Streams
<1>2. Len(s.written) = 0 \/ Len(s.written) = 1
  BY DEF Advances, AllQueued, HeaderOut
<1>3. s.written \in Contents /\ Len(s.written) # 2
  <2>1. s.written \in Contents
    BY <1>1, <1>2, ContentFacts
  <2> QED
    BY <1>2, <2>1
<1>4. CASE s.idle
  <2>1. t \in Streams /\ t.queue = s.queue /\ t.written = s.written /\ ~t.ended /\ t.disposed
        /\ ~t.idle
    BY <1>4, Zenon DEF Start, Streams, Advances, AllQueued, HeaderOut
  <2>2. Advances(t, p)
    BY <2>1, <1>4 DEF Advances, AllQueued, HeaderOut
  <2> QED
    BY <2>1, <2>2, <1>3
<1>5. CASE ~s.idle
  <2>2. s.queue # <<>>
    BY <1>1, EmptySeq DEF Advances, AllQueued, HeaderOut
  <2>3. PICK q, h : q = Tail(s.queue) /\ h = Head(s.queue)
    BY Zenon
  <2>4. q \in Seq(Parts) /\ h \in Parts /\ h = s.queue[1] /\ Len(q) = Len(s.queue) - 1
        /\ \A i \in 1..Len(q) : q[i] = s.queue[i + 1]
    BY <2>2, <2>3, <1>1, HeadTailProperties
  <2>5. PICK w : w = Append(s.written, h)
    BY Zenon
  <2>6. w \in Seq(Parts) /\ Len(w) = Len(s.written) + 1 /\ w[Len(s.written) + 1] = h
    BY <2>4, <2>5, <1>1, AppendProperties
  <2>7. t = [s EXCEPT !.queue = q, !.written = w, !.writing = ~(Len(s.queue) = 1),
                      !.waiting = ~(Len(s.queue) = 1), !.ended = Len(s.queue) = 1 /\ s.disposed]
    BY <2>3, <2>5, <1>5 DEF Written
  <2>8. t \in Streams /\ t.queue = q /\ t.written = w /\ t.disposed = s.disposed /\ t.idle = s.idle
        /\ (t.ended <=> Len(s.queue) = 1 /\ s.disposed)
    BY <2>4, <2>6, <2>7, Zenon DEF Streams
  <2>9. CASE AllQueued(s, p)
    <3>1. Len(s.queue) = 2 /\ s.queue[2] = p /\ s.queue[1] = "header" /\ Len(s.written) = 0
      BY <2>9 DEF AllQueued
    <3>2. Len(q) = 1 /\ q[1] = p /\ Len(w) = 1
      BY <3>1, <2>4, <2>6
    <3>a. ~t.ended
      BY <3>1, <2>8
    <3>b. t.disposed /\ ~t.idle
      BY <2>8, <2>9, <1>5, Zenon DEF AllQueued
    <3>3. HeaderOut(t, p) /\ ~t.ended
      BY <3>a, <3>b, <3>2, <2>8 DEF HeaderOut
    <3>4. w \in Contents /\ Len(w) # 2
      BY <3>2, <2>6, ContentFacts
    <3> QED
      BY <3>3, <3>4, <2>8, <1>3 DEF Advances
  <2>10. CASE HeaderOut(s, p)
    <3>1. Len(s.queue) = 1 /\ s.queue[1] = p /\ Len(s.written) = 1 /\ s.disposed
      BY <2>10 DEF HeaderOut
    <3>2. Len(w) = 2 /\ w[2] = p
      BY <3>1, <2>4, <2>6
    <3>3. w \in Contents
      BY <3>2, <2>6, ContentFacts
    <3>4. t.ended
      BY <3>1, <2>8
    <3> QED
      BY <3>2, <3>3, <3>4, <2>8, <1>3 DEF AllOut
  <2> QED
    BY <2>9, <2>10 DEF Advances
<1> QED
  BY <1>4, <1>5

\* The two sides of the cache.
LEMMA Sides ==
  ASSUME NEW o \in Ops
  PROVE  /\ PageOp(o) => File(o) = "page" /\ Arg[o] \in Keys /\ Kind[o] \notin StorageKinds
         /\ ~PageOp(o) => File(o) = "storage" /\ Arg[o] \in Names /\ Kind[o] \in StorageKinds
         /\ Put(o) => PageOp(o)
         /\ Kind[o] = "open" => ~PageOp(o)
BY KindAssumption, ArgAssumption DEF PageOp, Put, File, StorageKinds

\* The page in a file's contents.
LEMMA PageListed ==
  ASSUME NEW c \in Contents
  PROVE  PageOf(c) \in SUBSET Listed
BY DEF Contents, PageOf

\* An empty file is an empty page.
LEMMA NoPage == PageOf(<<>>) = {}
BY DEF PageOf

\* What the steps of an operation o have in common: r is its new record.
Moves(o, r) ==
  /\ r \in CacheRecords /\ op' = [op EXCEPT ![o] = r] /\ RecordOK(o, r, Len(inodes'))
  /\ inodes' \in Seq(Contents) /\ Len(inodes') >= Len(inodes)
  /\ \A i \in 1..Len(inodes) : inodes'[i] # inodes[i] => op[o].stage = "write" /\ op[o].inode = i
  /\ disk' \in [Files -> Nat] /\ \A f \in Files : disk'[f] <= Len(inodes')
  /\ \A f \in Files : \/ disk'[f] \in {disk[f], NoFile}
                      \/ f = File(o) /\ disk'[f] = Len(inodes) + 1
  /\ r.stage \in {"read", "write"} =>
       \/ r.inode = disk[File(o)] \/ r.inode = Len(inodes) + 1
       \/ op[o].stage \in {"read", "write"} /\ r.inode = op[o].inode
  /\ object' \in [Keys -> {"none", "empty", "header", "whole"}]

\* A step keeps the types and the files apart.
LEMMA MovesKeep ==
  ASSUME CTypes, FilesApart, NEW o \in Ops, NEW r, Moves(o, r)
  PROVE  CTypes' /\ FilesApart'
<1>1. /\ r \in CacheRecords /\ op' = [op EXCEPT ![o] = r] /\ op \in [Ops -> CacheRecords]
      /\ RecordOK(o, r, Len(inodes'))
  BY DEF Moves, CTypes
<1>2. op' \in [Ops -> CacheRecords] /\ op'[o] = r /\ \A q \in Ops : q # o => op'[q] = op[q]
  BY <1>1
<1>3. PICK n \in Nat : n = Len(inodes)
  BY LenProperties DEF CTypes
<1>4. PICK m \in Nat : m = Len(inodes')
  BY LenProperties DEF Moves
<1>5. m >= n
  BY <1>3, <1>4 DEF Moves
<1>6. ASSUME NEW q \in Ops
      PROVE  RecordOK(q, op'[q], m)
  <2>1. CASE q = o
    BY <2>1, <1>1, <1>2, <1>4
  <2>2. CASE q # o
    <3>1. RecordOK(q, op[q], n) /\ op[q] \in CacheRecords
      BY <1>3 DEF CTypes
    <3> QED
      BY <3>1, <2>2, <1>2, <1>5 DEF RecordOK, CacheRecords
  <2> QED
    BY <2>1, <2>2
<1>7. CTypes'
  BY <1>2, <1>4, <1>6 DEF CTypes, Moves
<1>8. ASSUME NEW f \in Files, NEW i \in Nat, Uses(f, i)
      PROVE  i <= n
  BY <1>8, <1>3 DEF Uses, CTypes, RecordOK
<1>9. ASSUME NEW f \in Files, NEW i \in Nat, Uses(f, i)'
      PROVE  Uses(f, i) \/ (f = File(o) /\ i = n + 1)
  <2>1. CASE disk'[f] = i
    BY <2>1, <1>9, <1>3 DEF Uses, Moves
  <2>2. ASSUME NEW q \in Ops, File(q) = f, op'[q].stage \in {"read", "write"}, op'[q].inode = i
        PROVE  Uses(f, i) \/ (f = File(o) /\ i = n + 1)
    <3>1. CASE q = o
      BY <3>1, <2>2, <1>2, <1>3, <1>9 DEF Uses, Moves
    <3>2. CASE q # o
      BY <3>2, <2>2, <1>2, <1>9 DEF Uses
    <3> QED
      BY <3>1, <3>2
  <2> QED
    BY <2>1, <2>2, <1>9 DEF Uses
<1>10. FilesApart'
  <2> SUFFICES ASSUME NEW i \in Nat, Uses("page", i)', Uses("storage", i)'
               PROVE  FALSE
    BY DEF FilesApart
  <2>1. "page" \in Files /\ "storage" \in Files
    BY DEF Files
  <2>2. ~(Uses("page", i) /\ Uses("storage", i))
    BY DEF FilesApart
  <2> QED
    BY <2>1, <2>2, <1>8, <1>9
<1> QED
  BY <1>7, <1>10

\* A step of a storage operation, on the cache page: at most it unlinks the file.
LEMMA PageFrame ==
  ASSUME CTypes, FilesApart, PageSide, NEW o \in Ops, ~PageOp(o), NEW r, Moves(o, r),
         object' = object,
         \/ disk'["page"] = disk["page"] /\ deleted' = deleted
         \/ disk'["page"] = NoFile /\ deleted'
  PROVE  PageSide'
<1>1. \A q \in Ops : PageOp(q) => op'[q] = op[q]
  BY DEF Moves, CTypes
<1>2. \A k : Whole(k)' = Whole(k)
  BY DEF Whole
<1>3. \A q \in Ops : \A st : PutAt(q, st)' = PutAt(q, st)
  BY <1>1, Sides DEF PutAt
<1>4. ASSUME NEW i \in 1..Len(inodes), Uses("page", i)
      PROVE  inodes'[i] = inodes[i]
  <2>1. i \in Nat /\ i # NoFile
    BY DEF NoFile
  <2>2. ~Uses("storage", i)
    BY <2>1, <1>4 DEF FilesApart
  <2>3. ~(op[o].stage = "write" /\ op[o].inode = i)
    BY <2>1, <2>2, Sides DEF Uses
  <2> QED
    BY <2>3 DEF Moves
<1>5. ASSUME NEW q \in Ops, PageOp(q), op[q].stage \in {"read", "write"}
      PROVE  inodes'[op[q].inode] = inodes[op[q].inode]
  <2>1. op[q].inode \in 1..Len(inodes)
    BY <1>5 DEF CTypes, RecordOK
  <2>2. Uses("page", op[q].inode)
    BY <2>1, <1>5, Sides DEF Uses, NoFile
  <2> QED
    BY <2>1, <2>2, <1>4
<1>6. ASSUME disk["page"] # NoFile
      PROVE  inodes'[disk["page"]] = inodes[disk["page"]]
  <2>1. disk["page"] \in Nat /\ disk["page"] <= Len(inodes) /\ Len(inodes) \in Nat
    BY LenProperties DEF CTypes, Files
  <2>2. disk["page"] \in 1..Len(inodes)
    BY <2>1, <1>6 DEF NoFile
  <2>3. Uses("page", disk["page"])
    BY <1>6 DEF Uses
  <2> QED
    BY <2>2, <2>3, <1>4
<1>7. CASE disk'["page"] = disk["page"] /\ deleted' = deleted
  <2>1. Now' = Now
    BY <1>6, <1>7 DEF Now, Content
  <2>2. PageFull'
    <3>1. ASSUME NEW q \in Ops, PutAt(q, "write"), op[q].inode = disk["page"]
          PROVE  PutAt(q, "write")' /\ op'[q].inode = disk'["page"]
      BY <3>1, <1>1, <1>3, <1>7, Sides DEF PutAt
    <3> QED
      BY <3>1, <1>6, <1>7 DEF PageFull, PageSide
  <2>3. PageWhole'
    BY <2>1, <1>2, <1>3 DEF PageWhole, PageSide
  <2>4. ASSUME NEW q \in Ops, PageOp(q)
        PROVE  PageOpOK(q)'
    <3>1. op'[q] = op[q] /\ PageOpOK(q)
      BY <2>4, <1>1 DEF PageSide
    <3>2. op[q].stage = "read" => ReadOK(q)'
      BY <3>1, <2>4, <1>2, <1>5, <1>7 DEF PageOpOK, ReadOK
    <3>3. op[q].stage = "objects" => ObjectsOK(q)'
      BY <3>1, <2>1, <1>2, <1>7 DEF PageOpOK, ObjectsOK
    <3>4. op[q].stage = "write" => WriteOK(q)'
      BY <3>1, <1>7 DEF PageOpOK, WriteOK
    <3>5. op[q].stage = "writeObjects" => WriteObjectsOK(q)'
      BY <3>1, <2>1, <1>2, <1>7 DEF PageOpOK, WriteObjectsOK
    <3> QED
      BY <3>1, <3>2, <3>3, <3>4, <3>5 DEF PageOpOK
  <2>5. ASSUME NEW q \in Ops, PageOp(q)
        PROVE  PutKept(q)'
    <3>1. PutKept(q)
      BY <2>5 DEF PageSide
    <3>2. \A p \in Ops : PutAt(p, "write") => op'[p] = op[p]
      BY <1>1, Sides DEF PutAt
    <3> QED
      BY <3>1, <3>2, <2>1, <1>3, <1>7 DEF PutKept
  <2> QED
    BY <2>2, <2>3, <2>4, <2>5 DEF PageSide
<1>8. CASE disk'["page"] = NoFile /\ deleted'
  <2>1. Now' = {}
    BY <1>8, NoPage DEF Now, Content
  <2>2. PageFull' /\ PageWhole'
    BY <2>1, <1>8 DEF PageFull, PageWhole
  <2>3. ASSUME NEW q \in Ops, PageOp(q)
        PROVE  PageOpOK(q)'
    <3>1. op'[q] = op[q] /\ PageOpOK(q)
      BY <2>3, <1>1 DEF PageSide
    <3>2. op[q].stage = "read" => ReadOK(q)'
      BY <3>1, <2>3, <1>2, <1>5, <1>8 DEF PageOpOK, ReadOK
    <3>3. op[q].stage = "objects" => ObjectsOK(q)'
      BY <3>1, <1>2, <1>8 DEF PageOpOK, ObjectsOK
    <3>4. op[q].stage = "write" => WriteOK(q)'
      BY <3>1, <1>8 DEF PageOpOK, WriteOK
    <3>5. op[q].stage = "writeObjects" => WriteObjectsOK(q)'
      BY <3>1, <2>1, <1>2, <1>8 DEF PageOpOK, WriteObjectsOK
    <3> QED
      BY <3>1, <3>2, <3>3, <3>4, <3>5 DEF PageOpOK
  <2>4. \A q \in Ops : PutKept(q)'
    BY <1>8 DEF PutKept
  <2> QED
    BY <2>2, <2>3, <2>4 DEF PageSide
<1> QED
  BY <1>7, <1>8

\* A step of a cache page's operation, on the storage page.
LEMMA StorageFrame ==
  ASSUME CTypes, FilesApart, StorageSide, NEW o \in Ops, PageOp(o), NEW r, Moves(o, r),
         disk'["storage"] = disk["storage"], deleted' = deleted, overlap => overlap'
  PROVE  StorageSide'
<1>1. \A q \in Ops : ~PageOp(q) => op'[q] = op[q]
  BY DEF Moves, CTypes
<1>2. \A q \in Ops : StoreActive(q)' = StoreActive(q) /\ StoreAt(q, "write")' = StoreAt(q, "write")
  BY <1>1 DEF StoreActive, StoreAt
<1>3. PageOf(Content("storage"))' = PageOf(Content("storage"))
  <2>1. CASE disk["storage"] = NoFile
    BY <2>1 DEF Content
  <2>2. CASE disk["storage"] # NoFile
    <3>1. PICK i : i = disk["storage"]
      OBVIOUS
    <3>2. i \in Nat /\ i <= Len(inodes) /\ Len(inodes) \in Nat
      BY <3>1, LenProperties DEF CTypes, Files
    <3>3. i \in 1..Len(inodes)
      BY <3>1, <3>2, <2>2 DEF NoFile
    <3>4. ~Uses("page", i)
      BY <3>1, <3>2, <2>2 DEF FilesApart, Uses
    <3>5. ~(op[o].stage = "write" /\ op[o].inode = i)
      BY <3>1, <3>4, <2>2, Sides DEF Uses
    <3>6. inodes'[i] = inodes[i]
      BY <3>3, <3>5 DEF Moves
    <3> QED
      BY <3>1, <3>6, <2>2 DEF Content
  <2> QED
    BY <2>1, <2>2
<1>4. ASSUME ~overlap, ~deleted, NEW q \in Ops, ~PageOp(q)
      PROVE  StoreOpOK(q)' /\ OpenKept(q)'
  <2>1. StoreOpOK(q) /\ OpenKept(q) /\ op'[q] = op[q]
    BY <1>1, <1>4 DEF StorageSide
  <2>2. StoreOpOK(q)'
    BY <2>1 DEF StoreOpOK
  <2>3. \A p \in Ops : StoreAt(p, "write") => op'[p] = op[p]
    BY <1>1 DEF StoreAt
  <2>4. OpenKept(q)'
    BY <2>1, <2>3, <1>2, <1>3 DEF OpenKept
  <2> QED
    BY <2>2, <2>4
<1> QED
  BY <1>2, <1>4 DEF StorageSide

\* The ways a step goes: without the files, or as WritePage does.
Wrote(o, r, page) ==
  /\ r.stage = "write" /\ r.page = page /\ r.inode = Len(inodes) + 1
  /\ inodes' = Append(inodes, <<>>)
  /\ disk' = [disk EXCEPT ![File(o)] = Len(inodes) + 1]

\* A truncated file is a content.
LEMMA EmptyContent == <<>> \in Contents /\ Len(<<>>) = 0
<1>1. <<>> \in Seq(Parts) /\ Len(<<>>) = 0
  BY EmptySeq
<1> QED
  BY <1>1, ContentFacts, Zenon

\* A step that leaves the files alone and keeps its descriptor, or opens the
\* file of the directory, is a move.
LEMMA QuietMoves ==
  ASSUME CTypes, NEW o \in Ops, NEW r \in CacheRecords, RecordOK(o, r, Len(inodes)),
         op' = [op EXCEPT ![o] = r], UNCHANGED <<disk, inodes>>,
         object' \in [Keys -> {"none", "empty", "header", "whole"}],
         r.stage \in {"read", "write"} =>
           \/ r.inode = disk[File(o)]
           \/ op[o].stage \in {"read", "write"} /\ r.inode = op[o].inode
  PROVE  Moves(o, r)
<1>1. Len(inodes) \in Nat
  BY LenProperties DEF CTypes
<1> QED
  BY <1>1 DEF Moves, CTypes

\* WritePage opens a new file for the page: the move of a write that begins.
LEMMA WriteMoves ==
  ASSUME CTypes, NEW o \in Ops, NEW s \in CacheRecords, NEW page \in SUBSET Listed,
         Kind[o] \in Writers, WritePage(o, s, page),
         object' \in [Keys -> {"none", "empty", "header", "whole"}]
  PROVE  \E r : Moves(o, r) /\ Wrote(o, r, page)
<1>1. PICK n \in Nat : n = Len(inodes)
  BY LenProperties DEF CTypes
<1>2. PICK t : t = Dispose(Fill(Fill(NewStream, "header"), page))
  OBVIOUS
<1>3. t \in Streams /\ Advances(t, page)
  BY <1>2, StreamBegins DEF Advances
<1>4. PICK r : r = [s EXCEPT !.stage = "write", !.page = page, !.inode = n + 1, !.stream = t]
  OBVIOUS
<1>5. r \in CacheRecords /\ r.stage = "write" /\ r.page = page /\ r.inode = n + 1 /\ r.stream = t
  <2>1. PICK j \in Nat : j = n + 1
    OBVIOUS
  <2>2. r = [s EXCEPT !.stage = "write", !.page = page, !.inode = j, !.stream = t]
    BY <2>1, <1>4
  <2>3. r \in CacheRecords
    BY <2>2, <1>3, Zenon DEF CacheRecords, Begun
  <2> QED
    BY <2>1, <2>2, <2>3, Zenon DEF CacheRecords
<1>6. /\ inodes' = Append(inodes, <<>>) /\ disk' = [disk EXCEPT ![File(o)] = n + 1]
      /\ op' = [op EXCEPT ![o] = r]
  BY <1>1, <1>2, <1>4 DEF WritePage
<1>7. /\ inodes' \in Seq(Contents) /\ Len(inodes') = n + 1
      /\ \A i \in 1..n : inodes'[i] = inodes[i]
  BY <1>1, <1>6, EmptyContent, AppendProperties DEF CTypes
<1>8. File(o) \in Files /\ disk \in [Files -> Nat] /\ \A f \in Files : disk[f] <= n
  BY <1>1 DEF File, Files, CTypes
<1>9. /\ disk' \in [Files -> Nat] /\ disk'[File(o)] = n + 1
      /\ \A f \in Files : f # File(o) => disk'[f] = disk[f]
  BY <1>6, <1>8
<1>10. \A f \in Files : disk'[f] <= n + 1
  BY <1>8, <1>9
<1>11. RecordOK(o, r, n + 1)
  BY <1>3, <1>5 DEF RecordOK
<1>12. Moves(o, r)
  BY <1>1, <1>5, <1>6, <1>7, <1>9, <1>10, <1>11 DEF Moves
<1> QED
  BY <1>1, <1>5, <1>6, <1>12 DEF Wrote

\* The callback of a storage operation's ReadPage.
LEMMA StorageRead ==
  ASSUME CTypes, NEW o \in Ops, ~PageOp(o), NEW s \in CacheRecords, NEW c \in Contents,
         PageRead(o, s, c), object' = object
  PROVE  \E r : /\ Moves(o, r)
                /\ \/ /\ r.stage = "done" /\ UNCHANGED <<disk, inodes>>
                      /\ Kind[o] = "open" => Arg[o] \in PageOf(c)
                   \/ Kind[o] = "open" /\ Wrote(o, r, PageOf(c) \cup {Arg[o]})
                   \/ Kind[o] = "delete" /\ Wrote(o, r, PageOf(c) \ {Arg[o]})
<1>1. PageOf(c) \in SUBSET Listed /\ Arg[o] \in Listed /\ Kind[o] \in StorageKinds
  BY PageListed, Sides DEF Listed
<1>2. object' \in [Keys -> {"none", "empty", "header", "whole"}]
  BY DEF CTypes
<1>3. ASSUME NEW r \in CacheRecords, r.stage = "done", op' = [op EXCEPT ![o] = r],
             UNCHANGED <<disk, inodes>>
      PROVE  Moves(o, r)
  BY <1>2, <1>3, QuietMoves, Zenon DEF RecordOK
<1>4. PICK d : d = [s EXCEPT !.stage = "done"]
  BY Zenon
<1>5. d \in CacheRecords /\ d.stage = "done"
  BY <1>4, Zenon DEF CacheRecords
<1>6. CASE Kind[o] = "open"
  <2>1. Ensure(o, s, c)
    BY <1>6 DEF PageRead
  <2>2. (IF Parsed(c) THEN PageOf(c) ELSE {}) = PageOf(c)
    BY DEF Parsed, PageOf, Contents
  <2>3. CASE Arg[o] \in PageOf(c)
    <3>1. op' = [op EXCEPT ![o] = d] /\ UNCHANGED <<disk, inodes>>
      BY <2>1, <2>2, <2>3, <1>4 DEF Ensure
    <3> QED
      BY <3>1, <2>3, <1>3, <1>5, Zenon
  <2>4. CASE Arg[o] \notin PageOf(c)
    <3>1. WritePage(o, s, PageOf(c) \cup {Arg[o]})
      BY <2>1, <2>2, <2>4 DEF Ensure
    <3>2. PageOf(c) \cup {Arg[o]} \in SUBSET Listed /\ Kind[o] \in Writers
      BY <1>1, <1>6 DEF Writers
    <3> QED
      BY <3>1, <3>2, <1>2, <1>6, WriteMoves
  <2> QED
    BY <2>3, <2>4
<1>7. CASE Kind[o] = "delete"
  <2>1. DeleteName(o, s, c)
    BY <1>7 DEF PageRead
  <2>2. CASE Parsed(c) /\ Arg[o] \in PageOf(c)
    <3>1. WritePage(o, s, PageOf(c) \ {Arg[o]})
      BY <2>1, <2>2 DEF DeleteName
    <3>2. PageOf(c) \ {Arg[o]} \in SUBSET Listed /\ Kind[o] \in Writers
      BY <1>1, <1>7 DEF Writers
    <3> QED
      BY <3>1, <3>2, <1>2, <1>7, WriteMoves
  <2>3. CASE ~(Parsed(c) /\ Arg[o] \in PageOf(c))
    <3>1. op' = [op EXCEPT ![o] = d] /\ UNCHANGED <<disk, inodes>>
      BY <2>1, <2>3, <1>4 DEF DeleteName
    <3> QED
      BY <3>1, <1>3, <1>5, <1>7, Zenon
  <2> QED
    BY <2>2, <2>3
<1>8. CASE Kind[o] = "has" \/ Kind[o] = "keys"
  <2>1. PICK page \in SUBSET Listed :
          op' = [op EXCEPT ![o] = [s EXCEPT !.stage = "done", !.page = page]]
    <3>1. CASE Kind[o] = "has"
      <4>1. Has(o, s, c)
        BY <3>1 DEF PageRead
      <4> QED
        BY <4>1, <1>1 DEF Has
    <3>2. CASE Kind[o] = "keys"
      <4>1. List(o, s, c)
        BY <3>2 DEF PageRead
      <4> QED
        BY <4>1, <1>1 DEF List
    <3> QED
      BY <3>1, <3>2, <1>8
  <2>2. UNCHANGED <<disk, inodes>>
    BY <1>8, Zenon DEF PageRead, Has, List
  <2>3. PICK e : e = [s EXCEPT !.stage = "done", !.page = page]
    OBVIOUS
  <2>4. e \in CacheRecords /\ e.stage = "done"
    BY <2>3, Zenon DEF CacheRecords
  <2> QED
    BY <2>1, <2>2, <2>3, <2>4, <1>3, <1>8, Zenon
<1> QED
  BY <1>1, <1>6, <1>7, <1>8 DEF StorageKinds

\* The names in the storage page once the write under way is done, before and
\* after a step that gives the operation o the record r.
NamesBefore(o) == IF op[o].stage = "write" THEN op[o].page ELSE PageOf(Content("storage"))
NamesAfter(r) == IF r.stage = "write" THEN r.page ELSE PageOf(Content("storage"))'

\* An operation alone with the storage page keeps it.
LEMMA StoreAlone ==
  ASSUME CTypes, StorageSide, NEW o \in Ops, ~PageOp(o), NEW r, Moves(o, r),
         overlap => overlap', deleted => deleted',
         ~overlap' /\ ~deleted' =>
           /\ \A q \in Ops : StoreActive(q) => q = o
           /\ r.stage \in Begun => Kind[o] # "delete"
           /\ r.stage \in {"read", "write"} => r.inode = disk'["storage"]
           /\ NamesBefore(o) \subseteq NamesAfter(r)
           /\ r.stage = "write" \/ (r.stage = "done" /\ Kind[o] = "open")
                => Arg[o] \in NamesAfter(r)
  PROVE  StorageSide'
<1> SUFFICES ASSUME ~overlap', ~deleted'
             PROVE  /\ \A q \in Ops : ~PageOp(q) => StoreOpOK(q)' /\ OpenKept(q)'
                    /\ \A q, p \in Ops : StoreActive(q)' /\ StoreActive(p)' => q = p
  BY DEF StorageSide
<1>1. op'[o] = r /\ \A q \in Ops : q # o => op'[q] = op[q]
  BY DEF Moves, CTypes
<1>2. /\ \A q \in Ops : StoreActive(q) => q = o
      /\ r.stage \in Begun => Kind[o] # "delete"
      /\ r.stage \in {"read", "write"} => r.inode = disk'["storage"]
      /\ NamesBefore(o) \subseteq NamesAfter(r)
      /\ r.stage = "write" \/ (r.stage = "done" /\ Kind[o] = "open") => Arg[o] \in NamesAfter(r)
  OBVIOUS
<1>3. \A q \in Ops : StoreActive(q)' => q = o
  BY <1>1, <1>2 DEF StoreActive
<1>4. \A q \in Ops : StoreAt(q, "write") => q = o
  BY <1>2 DEF StoreAt, StoreActive, Begun
<1>5. \A q \in Ops : StoreAt(q, "write")' => q = o
  BY <1>3 DEF StoreAt, StoreActive, Begun
<1>6. ASSUME NEW q \in Ops, ~PageOp(q)
      PROVE  StoreOpOK(q)'
  <2>1. CASE q = o
    BY <2>1, <1>1, <1>2 DEF StoreOpOK, NamesAfter
  <2>2. CASE q # o
    BY <2>2, <1>3, <1>6 DEF StoreOpOK, StoreActive, Begun
  <2> QED
    BY <2>1, <2>2
<1>7. ASSUME NEW q \in Ops, ~PageOp(q), Kind[q] = "open", op'[q].stage = "done"
      PROVE  Arg[q] \in NamesAfter(r)
  <2>1. CASE q = o
    BY <2>1, <1>1, <1>2, <1>7
  <2>2. CASE q # o
    <3>1. OpenKept(q) /\ op[q].stage = "done"
      BY <2>2, <1>1, <1>7 DEF StorageSide
    <3>2. CASE op[o].stage = "write"
      BY <3>1, <3>2, <1>2, <1>7 DEF OpenKept, StoreAt, NamesBefore
    <3>3. CASE op[o].stage # "write"
      <4>1. \A p \in Ops : ~StoreAt(p, "write")
        BY <3>3, <1>4 DEF StoreAt
      <4> QED
        BY <4>1, <3>1, <3>3, <1>2, <1>7 DEF OpenKept, NamesBefore
    <3> QED
      BY <3>2, <3>3
  <2> QED
    BY <2>1, <2>2
<1>8. ASSUME NEW q \in Ops, ~PageOp(q)
      PROVE  OpenKept(q)'
  <2> SUFFICES ASSUME Kind[q] = "open", op'[q].stage = "done"
               PROVE  /\ \A p \in Ops : StoreAt(p, "write")' => Arg[q] \in op'[p].page
                      /\ (\A p \in Ops : ~StoreAt(p, "write")') => Arg[q] \in PageOf(Content("storage"))'
    BY DEF OpenKept
  <2>1. Arg[q] \in NamesAfter(r)
    BY <1>7, <1>8
  <2>2. StoreAt(o, "write")' <=> r.stage = "write"
    BY <1>1 DEF StoreAt
  <2>3. CASE r.stage = "write"
    BY <2>1, <2>2, <2>3, <1>1, <1>5 DEF NamesAfter
  <2>4. CASE r.stage # "write"
    BY <2>1, <2>2, <2>4, <1>5 DEF NamesAfter
  <2> QED
    BY <2>3, <2>4
<1> QED
  BY <1>3, <1>6, <1>8

\* The storage page after the steps that do not write its file, and after WritePage.
LEMMA StoreContent ==
  ASSUME CTypes, NEW o \in Ops, ~PageOp(o), NEW r, NEW page
  PROVE  /\ UNCHANGED inodes /\ disk'["storage"] = disk["storage"]
              => Content("storage")' = Content("storage")
         /\ Wrote(o, r, page) => /\ disk'["storage"] = r.inode /\ disk'["page"] = disk["page"]
                                 /\ NamesAfter(r) = page
<1>1. "storage" \in Files /\ "page" \in Files /\ File(o) = "storage" /\ disk \in [Files -> Nat]
  BY Sides DEF Files, CTypes
<1> QED
  BY <1>1 DEF Content, Wrote, NamesAfter

\* A step of a storage operation leaves the lock of the cache page alone.
LEMMA LockFrame ==
  ASSUME CTypes, PageLock, NEW o \in Ops, ~PageOp(o), NEW r, Moves(o, r), lock' = lock
  PROVE  PageLock'
<1>1. \A q \in Ops : PageOp(q) => op'[q] = op[q]
  BY DEF Moves, CTypes
<1> QED
  BY <1>1 DEF PageLock

\* A storage operation has read its page.
LEMMA StorePageRead ==
  ASSUME Calm, NEW o \in Ops, ~PageOp(o), NEW s \in CacheRecords, NEW c \in Contents,
         PageRead(o, s, c), object' = object, lock' = lock, deleted' = deleted,
         overlap => overlap', op[o].stage # "write",
         ~overlap' /\ ~deleted' => /\ Content("storage") = c /\ Kind[o] # "delete"
                                   /\ \A q \in Ops : StoreActive(q) => q = o
  PROVE  Calm'
<1>1. PICK r : /\ Moves(o, r)
               /\ \/ /\ r.stage = "done" /\ UNCHANGED <<disk, inodes>>
                     /\ Kind[o] = "open" => Arg[o] \in PageOf(c)
                  \/ Kind[o] = "open" /\ Wrote(o, r, PageOf(c) \cup {Arg[o]})
                  \/ Kind[o] = "delete" /\ Wrote(o, r, PageOf(c) \ {Arg[o]})
  BY StorageRead DEF Calm
<1>2. CTypes' /\ FilesApart'
  BY <1>1, MovesKeep DEF Calm
<1>3. PageLock'
  BY <1>1, LockFrame DEF Calm
<1>4. PageSide'
  <2>1. disk'["page"] = disk["page"]
    BY <1>1, StoreContent DEF Calm
  <2> QED
    BY <2>1, <1>1, PageFrame DEF Calm
<1>5. StorageSide'
  <2>1. ASSUME ~overlap', ~deleted'
        PROVE  /\ \A q \in Ops : StoreActive(q) => q = o
               /\ r.stage \in Begun => Kind[o] # "delete"
               /\ r.stage \in {"read", "write"} => r.inode = disk'["storage"]
               /\ NamesBefore(o) \subseteq NamesAfter(r)
               /\ r.stage = "write" \/ (r.stage = "done" /\ Kind[o] = "open")
                    => Arg[o] \in NamesAfter(r)
    <3>1. /\ NamesBefore(o) = PageOf(c) /\ Kind[o] # "delete" /\ Content("storage") = c
          /\ \A q \in Ops : StoreActive(q) => q = o
      BY <2>1 DEF NamesBefore
    <3>2. CASE /\ r.stage = "done" /\ UNCHANGED <<disk, inodes>>
               /\ Kind[o] = "open" => Arg[o] \in PageOf(c)
      <4>1. Content("storage")' = c
        BY <3>1, <3>2, StoreContent DEF Calm
      <4>2. NamesAfter(r) = PageOf(c)
        BY <4>1, <3>2 DEF NamesAfter
      <4> QED
        BY <4>2, <3>1, <3>2 DEF Begun
    <3>3. CASE Kind[o] = "open" /\ Wrote(o, r, PageOf(c) \cup {Arg[o]})
      <4>1. NamesAfter(r) = PageOf(c) \cup {Arg[o]} /\ r.inode = disk'["storage"]
        BY <3>3, StoreContent DEF Calm
      <4> QED
        BY <4>1, <3>1
    <3> QED
      BY <3>1, <3>2, <3>3, <1>1
  <2> QED
    BY <2>1, <1>1, StoreAlone DEF Calm
<1> QED
  BY <1>2, <1>3, <1>4, <1>5 DEF Calm

\* The binding's methods on the storage page.
LEMMA StoreBegins ==
  ASSUME Calm, NEW o \in Ops, ~PageOp(o), Begin(o)
  PROVE  Calm'
<1>1. /\ op[o].stage = "wait" /\ object' = object /\ (overlap => overlap') /\ Read(o)
      /\ File(o) = "storage" /\ Kind[o] \in StorageKinds
  BY Sides, Zenon DEF Begin, Runs
<1>2. lock' = lock
  BY <1>1 DEF Begin
<1>3. ASSUME ~overlap', NEW q \in Ops, StoreActive(q)
      PROVE  q = o
  <2>1. Kind[q] \in StorageKinds /\ Active(q)
    BY <1>3, Sides DEF StoreActive, Begun, Active, Ended
  <2> QED
    BY <2>1, <1>1, <1>3, Zenon DEF Begin
<1>4. PICK d \in Nat : d = disk["storage"] /\ d <= Len(inodes)
  BY DEF Calm, CTypes, Files
<1>5. op[o] \in CacheRecords /\ Len(inodes) \in Nat /\ op \in [Ops -> CacheRecords]
      /\ object \in [Keys -> {"none", "empty", "header", "whole"}]
  BY LenProperties DEF Calm, CTypes
<1>6. CASE Kind[o] = "delete"
  <2>1. PICK r : r = [op[o] EXCEPT !.stage = IF d = NoFile THEN "done" ELSE "read", !.inode = d]
    OBVIOUS
  <2>2. DeleteCacheStorage(o)
    BY <1>1, <1>6 DEF Read, ListCacheStorage, DetectCacheStorage, EnsureCacheStorage, ReadCachePage
  <2>3. /\ deleted' /\ disk' = [disk EXCEPT !["page"] = NoFile] /\ op' = [op EXCEPT ![o] = r]
        /\ inodes' = inodes
    BY <2>1, <2>2, <1>4 DEF DeleteCacheStorage
  <2>4. r \in CacheRecords /\ r.inode = d /\ (r.stage = "done" \/ (r.stage = "read" /\ d # NoFile))
    BY <2>1, <1>5, Zenon DEF CacheRecords, Begun
  <2>5. RecordOK(o, r, Len(inodes))
    BY <2>4, <1>4, <1>5 DEF RecordOK, NoFile
  <2>6. /\ disk' \in [Files -> Nat] /\ disk'["page"] = NoFile /\ disk'["storage"] = d
        /\ \A f \in Files : disk'[f] \in {disk[f], NoFile} /\ disk'[f] <= Len(inodes)
    BY <2>3, <1>4, <1>5 DEF Calm, CTypes, Files, NoFile
  <2>7. Moves(o, r)
    BY <2>3, <2>4, <2>5, <2>6, <1>1, <1>4, <1>5 DEF Moves, Calm, CTypes
  <2>8. CTypes' /\ FilesApart' /\ PageLock' /\ PageSide'
    BY <2>3, <2>6, <2>7, <1>1, <1>2, MovesKeep, LockFrame, PageFrame DEF Calm
  <2> QED
    BY <2>3, <2>8 DEF Calm, StorageSide
<1>7. CASE Kind[o] # "delete"
  <2>1. ReadPage(o) /\ deleted' = deleted
    BY <1>1, <1>7 DEF Read, ListCacheStorage, DetectCacheStorage, EnsureCacheStorage, ReadCachePage,
                      DeleteCacheStorage
  <2>2. PICK r : r = [op[o] EXCEPT !.stage = "read", !.inode = d]
    OBVIOUS
  <2>3. r \in CacheRecords /\ r.inode = d /\ r.stage = "read"
    BY <2>2, <1>5, Zenon DEF CacheRecords, Begun
  <2>4. r = [op[o] EXCEPT !.stage = "read", !.inode = disk[File(o)]]
    BY <2>2, <1>1, <1>4
  <2>5. CASE d = NoFile
    <3>1. PageRead(o, r, <<>>)
      BY <2>1, <2>3, <2>4, <2>5 DEF ReadPage
    <3>2. Content("storage") = <<>>
      BY <2>5, <1>4 DEF Content
    <3> QED
      BY <3>1, <3>2, <2>1, <2>3, <1>1, <1>2, <1>3, <1>7, EmptyContent, StorePageRead
  <2>6. CASE d # NoFile
    <3>1. op' = [op EXCEPT ![o] = r] /\ UNCHANGED <<disk, inodes>>
      BY <2>1, <2>3, <2>4, <2>6 DEF ReadPage
    <3>2. RecordOK(o, r, Len(inodes))
      BY <2>3, <2>6, <1>4, <1>5 DEF RecordOK, NoFile
    <3>3. Moves(o, r)
      BY <3>1, <3>2, <2>3, <1>1, <1>4, <1>5, QuietMoves, Zenon DEF Calm
    <3>4. CTypes' /\ FilesApart' /\ PageLock' /\ PageSide'
      BY <3>1, <3>3, <2>1, <1>1, <1>2, MovesKeep, LockFrame, PageFrame DEF Calm
    <3>5. NamesBefore(o) = NamesAfter(r)
      BY <3>1, <2>3, <1>1, StoreContent DEF NamesBefore, NamesAfter, Calm
    <3>6. StorageSide'
      BY <3>1, <3>3, <3>5, <2>1, <2>3, <1>1, <1>3, <1>4, <1>7, StoreAlone DEF Calm
    <3> QED
      BY <3>4, <3>6 DEF Calm
  <2> QED
    BY <2>5, <2>6
<1> QED
  BY <1>6, <1>7

\* A storage operation comes to the end of the file it reads.
LEMMA StoreReads ==
  ASSUME Calm, NEW o \in Ops, ~PageOp(o), ReadEof(o)
  PROVE  Calm'
<1>1. /\ op[o].stage = "read" /\ PageRead(o, op[o], inodes[op[o].inode])
      /\ UNCHANGED <<object, lock, down, deleted, overlap>>
  BY DEF ReadEof, Runs
<1>2. op[o] \in CacheRecords /\ op[o].inode \in 1..Len(inodes) /\ inodes \in Seq(Contents)
  BY <1>1 DEF Calm, CTypes, RecordOK
<1>3. inodes[op[o].inode] \in Contents
  BY <1>2
<1>4. ASSUME ~overlap', ~deleted'
      PROVE  /\ Content("storage") = inodes[op[o].inode] /\ Kind[o] # "delete"
             /\ \A q \in Ops : StoreActive(q) => q = o
  <2>1. StoreOpOK(o) /\ \A q, p \in Ops : StoreActive(q) /\ StoreActive(p) => q = p
    BY <1>1, <1>4 DEF Calm, StorageSide
  <2>2. op[o].inode = disk["storage"] /\ Kind[o] # "delete" /\ StoreActive(o)
    BY <2>1, <1>1 DEF StoreOpOK, Begun, StoreActive
  <2> QED
    BY <2>1, <2>2, <1>2 DEF Content, NoFile
<1> QED
  BY <1>1, <1>2, <1>3, <1>4, StorePageRead

\* The stream of a page advances: a buffer is in the file, or all of them are.
LEMMA StreamMoves ==
  ASSUME CTypes, NEW o \in Ops, StreamStep(o)
  PROVE  \E r : /\ Moves(o, r) /\ op[o].stage = "write" /\ op[o].inode \in 1..Len(inodes)
                /\ r.page = op[o].page /\ r.inode = op[o].inode /\ disk' = disk
                /\ inodes' = [inodes EXCEPT ![op[o].inode] = r.stream.written]
                /\ UNCHANGED <<disk, lock, down, deleted, overlap>>
                /\ \/ r.stage = "write" /\ object' = object
                   \/ /\ r.stage = IF Put(o) THEN "writeObjects" ELSE "done"
                      /\ r.left = r.page
                      /\ Len(r.stream.written) = 2 /\ r.stream.written[2] = r.page
                      /\ object' = IF Put(o)
                                     THEN [k \in Keys |-> IF k \in r.page THEN "empty" ELSE object[k]]
                                     ELSE object
<1>1. PICK s : s = IF op[o].stream.idle THEN Start(op[o].stream) ELSE Written(op[o].stream)
  OBVIOUS
<1>2. /\ op[o].stage = "write" /\ inodes' = [inodes EXCEPT ![op[o].inode] = s.written]
      /\ op' = [op EXCEPT ![o] = [op[o] EXCEPT
           !.stream = s, !.left = IF s.ended THEN op[o].page ELSE {},
           !.stage = IF ~s.ended THEN "write" ELSE IF Put(o) THEN "writeObjects" ELSE "done"]]
      /\ object' = IF s.ended /\ Put(o)
                     THEN [k \in Keys |-> IF k \in op[o].page THEN "empty" ELSE object[k]]
                     ELSE object
      /\ UNCHANGED <<disk, lock, down, deleted, overlap>>
  BY <1>1 DEF StreamStep, Runs, Put
<1>3. /\ op \in [Ops -> CacheRecords] /\ op[o] \in CacheRecords /\ RecordOK(o, op[o], Len(inodes))
      /\ inodes \in Seq(Contents) /\ object \in [Keys -> {"none", "empty", "header", "whole"}]
      /\ disk \in [Files -> Nat] /\ \A f \in Files : disk[f] <= Len(inodes)
  BY DEF CTypes
<1>4. /\ op[o].stream \in Streams /\ op[o].page \in SUBSET Listed /\ op[o].inode \in 1..Len(inodes)
      /\ Advances(op[o].stream, op[o].page) /\ Kind[o] \in Writers
  BY <1>2, <1>3 DEF CacheRecords, RecordOK
<1>5. /\ s \in Streams /\ s.written \in Contents
      /\ \/ ~s.ended /\ Advances(s, op[o].page)
         \/ s.ended /\ AllOut(s, op[o].page)
  BY <1>1, <1>4, StreamAdvances
<1>6. /\ inodes' \in Seq(Contents) /\ Len(inodes') = Len(inodes)
      /\ \A i \in 1..Len(inodes) : i # op[o].inode => inodes'[i] = inodes[i]
  BY <1>2, <1>3, <1>4, <1>5, ExceptSeq
<1>7. PICK r : r = [op[o] EXCEPT
        !.stream = s, !.left = IF s.ended THEN op[o].page ELSE {},
        !.stage = IF ~s.ended THEN "write" ELSE IF Put(o) THEN "writeObjects" ELSE "done"]
  OBVIOUS
<1>8. op' = [op EXCEPT ![o] = r]
  BY <1>2, <1>3, <1>7
<1>9. /\ r \in CacheRecords /\ r.stream = s /\ r.page = op[o].page /\ r.inode = op[o].inode
      /\ r.left = (IF s.ended THEN r.page ELSE {})
      /\ r.stage = (IF ~s.ended THEN "write" ELSE IF Put(o) THEN "writeObjects" ELSE "done")
  BY <1>2, <1>3, <1>4, <1>5, <1>7, Zenon DEF CacheRecords, Begun
<1>10. RecordOK(o, r, Len(inodes'))
  BY <1>4, <1>5, <1>6, <1>9 DEF RecordOK
<1>11. object' \in [Keys -> {"none", "empty", "header", "whole"}]
  BY <1>2, <1>3
<1>12. Len(inodes) \in Nat
  BY <1>3, LenProperties
<1>13. Moves(o, r)
  <2>1. disk' = disk /\ Len(inodes') >= Len(inodes)
    BY <1>2, <1>6, <1>12
  <2>2. \A i \in 1..Len(inodes) : inodes'[i] # inodes[i] => op[o].stage = "write" /\ op[o].inode = i
    BY <1>2, <1>6
  <2>3. disk' \in [Files -> Nat] /\ \A f \in Files : disk'[f] <= Len(inodes') /\ disk'[f] = disk[f]
    BY <2>1, <1>3, <1>6
  <2> QED
    BY <2>1, <2>2, <2>3, <1>2, <1>6, <1>8, <1>9, <1>10, <1>11, Zenon DEF Moves
<1>14. \/ r.stage = "write" /\ object' = object
       \/ /\ r.stage = IF Put(o) THEN "writeObjects" ELSE "done"
          /\ r.left = r.page
          /\ Len(r.stream.written) = 2 /\ r.stream.written[2] = r.page
          /\ object' = IF Put(o)
                         THEN [k \in Keys |-> IF k \in r.page THEN "empty" ELSE object[k]]
                         ELSE object
  <2>1. CASE ~s.ended
    BY <2>1, <1>2, <1>9
  <2>2. CASE s.ended
    BY <2>2, <1>2, <1>5, <1>9 DEF AllOut
  <2> QED
    BY <2>1, <2>2
<1> QED
  BY <1>2, <1>4, <1>9, <1>13, <1>14, Zenon

\* The stream of the storage page.
LEMMA StoreWrites ==
  ASSUME Calm, NEW o \in Ops, ~PageOp(o), StreamStep(o)
  PROVE  Calm'
<1>1. PICK r : /\ Moves(o, r) /\ op[o].stage = "write" /\ op[o].inode \in 1..Len(inodes)
               /\ r.page = op[o].page /\ r.inode = op[o].inode /\ disk' = disk
               /\ inodes' = [inodes EXCEPT ![op[o].inode] = r.stream.written]
               /\ UNCHANGED <<disk, lock, down, deleted, overlap>>
               /\ object' = object
               /\ \/ r.stage = "write"
                  \/ /\ r.stage = "done"
                     /\ Len(r.stream.written) = 2 /\ r.stream.written[2] = r.page
  BY StreamMoves, Sides DEF Calm
<1>2. CTypes' /\ FilesApart' /\ PageLock' /\ PageSide'
  BY <1>1, MovesKeep, LockFrame, PageFrame DEF Calm
<1>3. StorageSide'
  <2>1. ASSUME ~overlap', ~deleted'
        PROVE  /\ \A q \in Ops : StoreActive(q) => q = o
               /\ r.stage \in Begun => Kind[o] # "delete"
               /\ r.stage \in {"read", "write"} => r.inode = disk'["storage"]
               /\ NamesBefore(o) \subseteq NamesAfter(r)
               /\ r.stage = "write" \/ (r.stage = "done" /\ Kind[o] = "open")
                    => Arg[o] \in NamesAfter(r)
    <3>1. StoreOpOK(o) /\ \A q, p \in Ops : StoreActive(q) /\ StoreActive(p) => q = p
      BY <1>1, <2>1 DEF Calm, StorageSide
    <3>2. StoreActive(o) /\ Kind[o] # "delete" /\ op[o].inode = disk["storage"]
          /\ Arg[o] \in op[o].page
      BY <3>1, <1>1 DEF StoreOpOK, StoreActive, Begun
    <3>3. r.stage = "done" => PageOf(Content("storage"))' = r.page
      <4>1. inodes'[op[o].inode] = r.stream.written /\ op[o].inode # NoFile
        <5>1. inodes \in Seq(Contents)
          BY DEF Calm, CTypes
        <5>2. PICK i \in 1..Len(inodes) : i = op[o].inode
          BY <1>1
        <5>3. inodes' = [inodes EXCEPT ![i] = r.stream.written]
          BY <5>2, <1>1
        <5>4. inodes'[i] = r.stream.written /\ i # NoFile
          BY ONLY <5>1, <5>3 DEF NoFile
        <5> QED
          BY <5>2, <5>4
      <4> QED
        BY <4>1, <3>2, <1>1 DEF Content, PageOf
    <3>4. NamesBefore(o) = r.page /\ NamesAfter(r) = r.page
      BY <3>3, <1>1 DEF NamesBefore, NamesAfter
    <3> QED
      BY <3>1, <3>2, <3>4, <1>1
  <2> QED
    BY <2>1, <1>1, StoreAlone DEF Calm
<1> QED
  BY <1>2, <1>3 DEF Calm

\* A put that has begun is alone with the cache page.
LEMMA PutAlone ==
  ASSUME PageLock, NEW o \in Ops, Put(o), op[o].stage \in Begun,
         NEW q \in Ops, PageOp(q), op[q].stage \in Begun
  PROVE  q = o
BY Sides DEF PageLock

\* The lock of the cache page from the first step of an operation to its last.
LEMMA LockKept ==
  ASSUME CTypes, PageLock, NEW o \in Ops, PageOp(o), NEW r, Moves(o, r), op[o].stage \in Begun,
         \/ r.stage \in Begun /\ lock' = lock
         \/ r.stage \notin Begun /\ Release(o)
  PROVE  PageLock'
<1>1. op'[o] = r /\ \A q \in Ops : q # o => op'[q] = op[q]
  BY DEF Moves, CTypes
<1>2. CASE r.stage \in Begun /\ lock' = lock
  BY <1>1, <1>2 DEF PageLock
<1>3. CASE r.stage \notin Begun /\ Release(o)
  <2>1. lock' = [lock EXCEPT !["page"] = @ \ {o}]
    BY <1>3, Sides, Zenon DEF Release
  <2>2. /\ lock' \in [Files -> SUBSET Ops] /\ lock'["storage"] = {}
        /\ lock'["page"] = lock["page"] \ {o}
    BY <2>1 DEF PageLock, Files
  <2> QED
    BY <2>2, <1>1, <1>3 DEF PageLock
<1> QED
  BY <1>2, <1>3

\* The steps of an operation that has not come to write.
LEMMA ReaderSteps ==
  ASSUME CTypes, PageSide, NEW o \in Ops, PageOp(o), NEW r, Moves(o, r),
         UNCHANGED <<disk, inodes, object, deleted>>,
         op[o].stage \notin {"write", "writeObjects"},
         \/ /\ r.stage = "read"
            /\ Len(inodes[r.inode]) = 2
            /\ \A k \in inodes[r.inode][2] : Whole(k)
            /\ Put(o) /\ ~deleted => r.inode = disk["page"]
         \/ /\ r.stage = "objects"
            /\ r.left \subseteq r.page
            /\ \A k \in r.page : Whole(k)
            /\ Put(o) /\ ~deleted => r.page = Now
         \/ r.stage = "done" /\ ~Put(o)
  PROVE  PageSide'
<1>1. op'[o] = r /\ \A q \in Ops : q # o => op'[q] = op[q]
  BY DEF Moves, CTypes
<1>2. (\A k : Whole(k)' = Whole(k)) /\ Now' = Now
  BY DEF Whole, Now, Content
<1>3. ASSUME NEW q \in Ops
      PROVE  /\ PutAt(q, "write")' = PutAt(q, "write")
             /\ PutAt(q, "writeObjects")' = PutAt(q, "writeObjects")
             /\ PutAt(q, "done")' => PutAt(q, "done") /\ q # o
             /\ PutAt(q, "write") => op'[q] = op[q]
  BY <1>1 DEF PutAt
<1>4. PageFull'
  BY <1>3 DEF PageFull, PageSide
<1>5. PageWhole'
  BY <1>2, <1>3 DEF PageWhole, PageSide
<1>6. ASSUME NEW q \in Ops, PageOp(q)
      PROVE  PutKept(q)'
  <2>1. PutKept(q)
    BY <1>6 DEF PageSide
  <2> QED
    BY <2>1, <1>2, <1>3 DEF PutKept
<1>7. ASSUME NEW q \in Ops, PageOp(q)
      PROVE  PageOpOK(q)'
  <2>1. CASE q # o
    <3>1. PageOpOK(q) /\ op'[q] = op[q]
      BY <2>1, <1>1, <1>7 DEF PageSide
    <3>2. op[q].stage = "read" => ReadOK(q)'
      BY <3>1, <1>2 DEF PageOpOK, ReadOK
    <3>3. op[q].stage = "objects" => ObjectsOK(q)'
      BY <3>1, <1>2 DEF PageOpOK, ObjectsOK
    <3>4. op[q].stage = "write" => WriteOK(q)'
      BY <3>1, <1>2 DEF PageOpOK, WriteOK
    <3>5. op[q].stage = "writeObjects" => WriteObjectsOK(q)'
      BY <3>1, <1>2 DEF PageOpOK, WriteObjectsOK
    <3> QED
      BY <3>1, <3>2, <3>3, <3>4, <3>5 DEF PageOpOK
  <2>2. CASE q = o
    <3>1. r.stage = "read" => ReadOK(q)'
      BY <2>2, <1>1, <1>2 DEF ReadOK
    <3>2. r.stage = "objects" => ObjectsOK(q)'
      BY <2>2, <1>1, <1>2 DEF ObjectsOK
    <3> QED
      BY <3>1, <3>2, <2>2, <1>1 DEF PageOpOK
  <2> QED
    BY <2>1, <2>2
<1> QED
  BY <1>4, <1>5, <1>6, <1>7 DEF PageSide

\* A page operation has read its page.
LEMMA EntriesKeep ==
  ASSUME CTypes, NEW o \in Ops, PageOp(o), NEW s \in CacheRecords, NEW c \in Contents,
         PageRead(o, s, c), object' = object,
         Len(c) = 2 \/ (Len(c) = 0 /\ s.inode = NoFile)
  PROVE  \E r : /\ Moves(o, r) /\ r.stage = "objects" /\ r.page = PageOf(c) /\ r.left = PageOf(c)
                /\ UNCHANGED <<disk, inodes>>
<1>1. EntriesRead(o, s, c)
  BY Zenon DEF PageRead, PageOp
<1>2. PageOf(c) \in SUBSET Listed
  BY PageListed
<1>3. (Len(c) = 1 \/ (c = <<>> /\ s.inode # NoFile)) = FALSE
  BY EmptyContent
<1>4. PICK r : r = [s EXCEPT !.stage = "objects", !.page = PageOf(c), !.left = PageOf(c),
                             !.torn = FALSE]
  OBVIOUS
<1>5. r \in CacheRecords /\ r.stage = "objects" /\ r.page = PageOf(c) /\ r.left = PageOf(c)
  BY <1>2, <1>4, Zenon DEF CacheRecords, Begun
<1>6. op' = [op EXCEPT ![o] = r] /\ UNCHANGED <<disk, inodes>>
  BY <1>1, <1>3, <1>4, Zenon DEF EntriesRead
<1>7. Moves(o, r)
  BY <1>5, <1>6, QuietMoves, Zenon DEF RecordOK, CTypes
<1> QED
  BY <1>5, <1>6, <1>7

\* The lock is granted to an operation of the cache page, and the page is read.
LEMMA PageBegins ==
  ASSUME Calm, NEW o \in Ops, PageOp(o), Begin(o)
  PROVE  Calm'
<1>1. /\ op[o].stage = "wait" /\ object' = object /\ Read(o) /\ Grantable(o)
      /\ File(o) = "page" /\ Kind[o] \notin StorageKinds
  BY Sides DEF Begin, Runs
<1>2. lock' = [lock EXCEPT !["page"] = @ \cup {o}] /\ (overlap => overlap')
  BY <1>1, Zenon DEF Begin
<1>3. ReadPage(o) /\ deleted' = deleted
  BY <1>1 DEF Read, ListCacheStorage, DetectCacheStorage, EnsureCacheStorage, ReadCachePage,
              DeleteCacheStorage, StorageKinds
<1>4. \A q \in lock["page"] : ~Put(o) /\ ~Put(q)
  BY <1>1 DEF Grantable, Put, Writers
<1>5. \A q \in Ops : ~PutAt(q, "write") /\ ~PutAt(q, "writeObjects")
  BY <1>4, Sides DEF PutAt, Calm, PageLock, Begun
<1>6. \A k \in Now : Whole(k)
  BY <1>5 DEF Calm, PageSide, PageWhole
<1>7. PICK d \in Nat : d = disk["page"] /\ d <= Len(inodes)
  BY DEF Calm, CTypes, Files
<1>8. d # NoFile => Len(inodes[d]) = 2
  BY <1>5, <1>7 DEF Calm, PageSide, PageFull
<1>9. PICK s : s = [op[o] EXCEPT !.stage = "read", !.inode = d]
  OBVIOUS
<1>10. /\ op[o] \in CacheRecords /\ s \in CacheRecords /\ s.stage = "read" /\ s.inode = d
       /\ Len(inodes) \in Nat /\ object \in [Keys -> {"none", "empty", "header", "whole"}]
  BY <1>9, LenProperties, Zenon DEF CacheRecords, Begun, Calm, CTypes
<1>11. s = [op[o] EXCEPT !.stage = "read", !.inode = disk[File(o)]]
  BY <1>1, <1>7, <1>9
<1>12. PICK r : /\ Moves(o, r) /\ UNCHANGED <<disk, inodes>>
                /\ \/ r.stage = "read" /\ r.inode = d /\ d # NoFile
                   \/ r.stage = "objects" /\ r.page = Now /\ r.left = Now
  <2>1. CASE d = NoFile
    <3>1. PageRead(o, s, <<>>)
      BY <2>1, <1>3, <1>10, <1>11 DEF ReadPage
    <3>2. Now = PageOf(<<>>)
      BY <2>1, <1>7 DEF Now, Content
    <3> QED
      BY <3>1, <3>2, <2>1, <1>1, <1>10, EmptyContent, EntriesKeep DEF Calm
  <2>2. CASE d # NoFile
    <3>1. op' = [op EXCEPT ![o] = s] /\ UNCHANGED <<disk, inodes>>
      BY <2>2, <1>3, <1>10, <1>11 DEF ReadPage
    <3>2. RecordOK(o, s, Len(inodes))
      BY <2>2, <1>7, <1>10 DEF RecordOK, NoFile
    <3>3. Moves(o, s)
      BY <3>1, <3>2, <1>1, <1>7, <1>10, QuietMoves, Zenon DEF Calm
    <3> QED
      BY <3>1, <3>3, <2>2, <1>10
  <2> QED
    BY <2>1, <2>2
<1>13. PageSide'
  <2>1. CASE r.stage = "read" /\ r.inode = d /\ d # NoFile
    <3>1. Now = inodes[d][2]
      BY <2>1, <1>7, <1>8 DEF Now, Content, PageOf
    <3> QED
      BY <3>1, <2>1, <1>1, <1>3, <1>6, <1>7, <1>8, <1>12, ReaderSteps DEF Calm
  <2>2. CASE r.stage = "objects" /\ r.page = Now /\ r.left = Now
    BY <2>2, <1>1, <1>3, <1>6, <1>12, ReaderSteps DEF Calm
  <2> QED
    BY <2>1, <2>2, <1>12
<1>14. PageLock'
  <2>1. op'[o] = r /\ \A q \in Ops : q # o => op'[q] = op[q]
    BY <1>12 DEF Moves, Calm, CTypes
  <2>2. /\ lock' \in [Files -> SUBSET Ops] /\ lock'["storage"] = {}
        /\ lock'["page"] = lock["page"] \cup {o}
    BY <1>2 DEF Calm, PageLock, Files
  <2>3. \A q \in Ops : q \in lock'["page"] <=> PageOp(q) /\ op'[q].stage \in Begun
    BY <2>1, <2>2, <1>12 DEF Calm, PageLock, Begun
  <2>4. \A q, p \in Ops : q \in lock'["page"] /\ p \in lock'["page"] /\ Put(q) => q = p
    BY <2>2, <1>4 DEF Calm, PageLock
  <2> QED
    BY <2>2, <2>3, <2>4 DEF PageLock
<1>15. CTypes' /\ FilesApart' /\ StorageSide'
  BY <1>2, <1>3, <1>12, MovesKeep, StorageFrame DEF Calm
<1> QED
  BY <1>13, <1>14, <1>15 DEF Calm

\* An operation of the cache page comes to the end of the file it reads.
LEMMA PageReads ==
  ASSUME Calm, NEW o \in Ops, PageOp(o), ReadEof(o)
  PROVE  Calm'
<1>1. /\ op[o].stage = "read" /\ PageRead(o, op[o], inodes[op[o].inode])
      /\ UNCHANGED <<object, lock, down, deleted, overlap>>
  BY DEF ReadEof, Runs
<1>2. op[o] \in CacheRecords /\ op[o].inode \in 1..Len(inodes) /\ inodes \in Seq(Contents)
  BY <1>1 DEF Calm, CTypes, RecordOK
<1>3. PICK c \in Contents : c = inodes[op[o].inode]
  BY <1>2
<1>4. Len(c) = 2 /\ (\A k \in c[2] : Whole(k)) /\ (Put(o) /\ ~deleted => op[o].inode = disk["page"])
  BY <1>1, <1>3 DEF Calm, PageSide, PageOpOK, ReadOK
<1>5. PICK r : /\ Moves(o, r) /\ r.stage = "objects" /\ r.page = PageOf(c) /\ r.left = PageOf(c)
               /\ UNCHANGED <<disk, inodes>>
  BY <1>1, <1>2, <1>3, <1>4, EntriesKeep DEF Calm
<1>6. PageOf(c) = c[2]
  BY <1>4 DEF PageOf
<1>7. Put(o) /\ ~deleted => Now = PageOf(c)
  BY <1>2, <1>3, <1>4 DEF Now, Content, NoFile
<1>8. PageSide'
  BY <1>1, <1>4, <1>5, <1>6, <1>7, ReaderSteps DEF Calm
<1>9. PageLock'
  BY <1>1, <1>5, LockKept DEF Calm, Begun
<1>10. CTypes' /\ FilesApart' /\ StorageSide'
  BY <1>1, <1>5, MovesKeep, StorageFrame DEF Calm
<1> QED
  BY <1>8, <1>9, <1>10 DEF Calm

\* Every object of the page is there, and is read.
LEMMA ObjectIsRead ==
  ASSUME Calm, ~Faulted, NEW o \in Ops, NEW k \in Keys, ReadCacheObjectPage(o, k)
  PROVE  Calm'
<1>1. /\ op[o].stage = "objects" /\ k \in op[o].left
      /\ UNCHANGED <<disk, inodes, object, deleted, overlap>>
  BY DEF ReadCacheObjectPage, Runs
<1>2. /\ PageOp(o) /\ op[o] \in CacheRecords /\ op \in [Ops -> CacheRecords]
      /\ object \in [Keys -> {"none", "empty", "header", "whole"}]
  BY <1>1 DEF Calm, CTypes, RecordOK
<1>3. ObjectsOK(o)
  BY <1>1, <1>2 DEF Calm, PageSide, PageOpOK
<1>4. object[k] = "whole"
  BY <1>1, <1>3 DEF ObjectsOK, Whole
<1>5. op' = [op EXCEPT ![o].left = @ \ {k}] /\ lock' = lock
  BY <1>4 DEF ReadCacheObjectPage
<1>6. PICK r : r = [op[o] EXCEPT !.left = op[o].left \ {k}]
  BY Zenon
<1>7. /\ r \in CacheRecords /\ r.stage = "objects" /\ r.page = op[o].page
      /\ r.left = op[o].left \ {k} /\ op' = [op EXCEPT ![o] = r]
  BY <1>1, <1>2, <1>5, <1>6, Zenon DEF CacheRecords
<1>8. Moves(o, r)
  BY <1>1, <1>2, <1>7, QuietMoves, Zenon DEF RecordOK, Calm
<1>9. PageSide'
  BY <1>1, <1>2, <1>3, <1>7, <1>8, ReaderSteps DEF Calm, ObjectsOK
<1>10. PageLock'
  BY <1>1, <1>2, <1>5, <1>7, <1>8, LockKept DEF Calm, Begun
<1>11. CTypes' /\ FilesApart' /\ StorageSide'
  BY <1>1, <1>2, <1>8, MovesKeep, StorageFrame DEF Calm
<1> QED
  BY <1>9, <1>10, <1>11 DEF Calm

\* A match answers.
LEMMA MatchEnds ==
  ASSUME Calm, NEW o \in Ops, MatchAnswers(o)
  PROVE  Calm'
<1>1. /\ op[o].stage = "objects" /\ Kind[o] = "match" /\ Release(o)
      /\ UNCHANGED <<disk, inodes, object, deleted, overlap>>
      /\ op' = [op EXCEPT ![o].stage = "done"]
  BY DEF MatchAnswers, Runs
<1>2. /\ PageOp(o) /\ ~Put(o) /\ op[o] \in CacheRecords /\ op \in [Ops -> CacheRecords]
      /\ object \in [Keys -> {"none", "empty", "header", "whole"}]
  BY <1>1 DEF Calm, CTypes, PageOp, Put
<1>3. PICK r : r = [op[o] EXCEPT !.stage = "done"]
  BY Zenon
<1>4. r \in CacheRecords /\ r.stage = "done" /\ op' = [op EXCEPT ![o] = r]
  BY <1>1, <1>2, <1>3, Zenon DEF CacheRecords
<1>5. Moves(o, r)
  BY <1>1, <1>2, <1>4, QuietMoves, Zenon DEF RecordOK, Calm
<1>6. PageSide'
  BY <1>1, <1>2, <1>4, <1>5, ReaderSteps DEF Calm
<1>7. PageLock'
  BY <1>1, <1>2, <1>4, <1>5, LockKept DEF Calm, Begun
<1>8. CTypes' /\ FilesApart' /\ StorageSide'
  BY <1>1, <1>2, <1>5, MovesKeep, StorageFrame DEF Calm
<1> QED
  BY <1>6, <1>7, <1>8 DEF Calm

\* The keys in the cache page once the write under way is done, before and after
\* a step that gives the put o the record r.
KeysBefore(o) == IF op[o].stage = "write" THEN op[o].page ELSE Now
KeysAfter(r) == IF r.stage = "write" THEN r.page ELSE Now'

\* A put, alone with the cache page, keeps it.
LEMMA PutSteps ==
  ASSUME CTypes, PageLock, PageSide, NEW o \in Ops, Put(o), op[o].stage \in Begun,
         NEW r, Moves(o, r), deleted' = deleted,
         PageFull', PageWhole', PageOpOK(o)',
         ~deleted => /\ KeysBefore(o) \subseteq KeysAfter(r)
                     /\ r.stage = "done" => Arg[o] \in KeysAfter(r)
  PROVE  PageSide'
<1>1. op'[o] = r /\ \A q \in Ops : q # o => op'[q] = op[q]
  BY DEF Moves, CTypes
<1>2. \A q \in Ops : PageOp(q) /\ q # o => op[q].stage \notin Begun
  BY PutAlone
<1>3. \A q \in Ops : PutAt(q, "write") => q = o
  BY <1>2, Sides DEF PutAt, Begun
<1>4. \A q \in Ops : PutAt(q, "write")' => q = o
  BY <1>1, <1>2, Sides DEF PutAt, Begun
<1>5. ASSUME NEW q \in Ops, PageOp(q)
      PROVE  PageOpOK(q)'
  <2>1. CASE q = o
    BY <2>1
  <2>2. CASE q # o
    BY <2>2, <1>1, <1>2, <1>5 DEF PageOpOK, Begun
  <2> QED
    BY <2>1, <2>2
<1>6. ASSUME NEW q \in Ops, ~deleted, PutAt(q, "done")'
      PROVE  Arg[q] \in KeysAfter(r)
  <2>1. CASE q = o
    BY <2>1, <1>1, <1>6 DEF PutAt
  <2>2. CASE q # o
    <3>1. PutKept(q) /\ PutAt(q, "done")
      BY <2>2, <1>1, <1>6, Sides DEF PageSide, PutAt
    <3>2. CASE op[o].stage = "write"
      BY <3>1, <3>2, <1>6 DEF PutKept, PutAt, KeysBefore
    <3>3. CASE op[o].stage # "write"
      <4>1. \A p \in Ops : ~PutAt(p, "write")
        BY <3>3, <1>3 DEF PutAt
      <4> QED
        BY <4>1, <3>1, <3>3, <1>6 DEF PutKept, KeysBefore
    <3> QED
      BY <3>2, <3>3
  <2> QED
    BY <2>1, <2>2
<1>7. ASSUME NEW q \in Ops
      PROVE  PutKept(q)'
  <2> SUFFICES ASSUME PutAt(q, "done")', ~deleted
               PROVE  /\ \A p \in Ops : PutAt(p, "write")' => Arg[q] \in op'[p].page
                      /\ (\A p \in Ops : ~PutAt(p, "write")') => Arg[q] \in Now'
    BY DEF PutKept
  <2>1. Arg[q] \in KeysAfter(r)
    BY <1>6
  <2>2. PutAt(o, "write")' <=> r.stage = "write"
    BY <1>1 DEF PutAt
  <2>3. CASE r.stage = "write"
    BY <2>1, <2>2, <2>3, <1>1, <1>4 DEF KeysAfter
  <2>4. CASE r.stage # "write"
    BY <2>1, <2>2, <2>4, <1>4 DEF KeysAfter
  <2> QED
    BY <2>3, <2>4
<1> QED
  BY <1>5, <1>7 DEF PageSide

\* A put has read the objects and writes the cache page.
LEMMA PutWritesPage ==
  ASSUME Calm, NEW o \in Ops, WriteCachePage(o)
  PROVE  Calm'
<1>1. /\ op[o].stage = "objects" /\ Put(o) /\ PageOp(o)
      /\ WritePage(o, op[o], op[o].page \cup {Arg[o]})
      /\ UNCHANGED <<object, lock, down, deleted, overlap>>
  BY Sides DEF WriteCachePage, Runs, Put
<1>2. /\ op[o] \in CacheRecords /\ disk \in [Files -> Nat]
      /\ object \in [Keys -> {"none", "empty", "header", "whole"}]
  BY DEF Calm, CTypes
<1>3. ObjectsOK(o)
  BY <1>1 DEF Calm, PageSide, PageOpOK
<1>4. op[o].page \subseteq Keys /\ Arg[o] \in Keys
  BY <1>1, <1>3, Sides DEF ObjectsOK, Whole
<1>5. op[o].page \cup {Arg[o]} \in SUBSET Listed /\ Kind[o] \in Writers
  BY <1>1, <1>4 DEF Listed, Writers, Put
<1>6. PICK r : Moves(o, r) /\ Wrote(o, r, op[o].page \cup {Arg[o]})
  BY <1>1, <1>2, <1>5, WriteMoves DEF Calm
<1>7. File(o) = "page" /\ "page" \in Files /\ "storage" \in Files
  BY <1>1, Sides DEF Files
<1>8. /\ r.stage = "write" /\ r.page = op[o].page \cup {Arg[o]} /\ disk'["page"] = r.inode
      /\ disk'["storage"] = disk["storage"] /\ op'[o] = r
  BY <1>2, <1>6, <1>7 DEF Wrote, Moves, Calm, CTypes
<1>9. PutAt(o, "write")'
  BY <1>1, <1>8 DEF PutAt
<1>10. PageFull' /\ PageWhole'
  BY <1>8, <1>9 DEF PageFull, PageWhole
<1>11. PageOpOK(o)'
  BY <1>4, <1>8 DEF PageOpOK, WriteOK
<1>12. ~deleted => KeysBefore(o) \subseteq KeysAfter(r)
  BY <1>1, <1>3, <1>8 DEF KeysBefore, KeysAfter, ObjectsOK
<1>13. PageSide'
  BY <1>1, <1>6, <1>8, <1>10, <1>11, <1>12, PutSteps DEF Calm, Begun
<1>14. PageLock'
  BY <1>1, <1>6, <1>8, LockKept DEF Calm, Begun
<1>15. CTypes' /\ FilesApart' /\ StorageSide'
  BY <1>1, <1>6, <1>8, MovesKeep, StorageFrame DEF Calm
<1> QED
  BY <1>13, <1>14, <1>15 DEF Calm

\* The stream of the cache page; when it ends the objects are created.
LEMMA PageWrites ==
  ASSUME Calm, NEW o \in Ops, PageOp(o), StreamStep(o)
  PROVE  Calm'
<1>1. op[o].stage = "write" /\ Put(o)
  BY DEF StreamStep, Runs, Calm, CTypes, RecordOK, PageOp, Put, Writers
<1>2. PICK r : /\ Moves(o, r) /\ op[o].inode \in 1..Len(inodes)
               /\ r.page = op[o].page /\ r.inode = op[o].inode /\ disk' = disk
               /\ inodes' = [inodes EXCEPT ![op[o].inode] = r.stream.written]
               /\ UNCHANGED <<disk, lock, down, deleted, overlap>>
               /\ \/ r.stage = "write"
                  \/ /\ r.stage = "writeObjects" /\ r.left = r.page
                     /\ Len(r.stream.written) = 2 /\ r.stream.written[2] = r.page
  BY <1>1, StreamMoves DEF Calm
<1>3. op'[o] = r /\ WriteOK(o)
  BY <1>1, <1>2 DEF Moves, Calm, CTypes, PageSide, PageOpOK
<1>4. inodes'[op[o].inode] = r.stream.written /\ op[o].inode # NoFile
  <2>1. inodes \in Seq(Contents)
    BY DEF Calm, CTypes
  <2>2. PICK i \in 1..Len(inodes) : i = op[o].inode
    BY <1>2
  <2>3. inodes' = [inodes EXCEPT ![i] = r.stream.written]
    BY <2>2, <1>2
  <2>4. inodes'[i] = r.stream.written /\ i # NoFile
    BY ONLY <2>1, <2>3 DEF NoFile
  <2> QED
    BY <2>2, <2>4
<1>5. PageSide'
  <2>1. CASE r.stage = "write"
    <3>1. PutAt(o, "write")'
      BY <2>1, <1>1, <1>3 DEF PutAt
    <3>2. PageFull' /\ PageWhole'
      BY <3>1, <1>2, <1>3 DEF PageFull, PageWhole, WriteOK
    <3>3. PageOpOK(o)'
      BY <2>1, <1>2, <1>3 DEF PageOpOK, WriteOK
    <3>4. KeysBefore(o) = KeysAfter(r)
      BY <2>1, <1>1, <1>2 DEF KeysBefore, KeysAfter
    <3> QED
      BY <3>2, <3>3, <3>4, <2>1, <1>1, <1>2, PutSteps DEF Calm, Begun
  <2>2. CASE /\ r.stage = "writeObjects" /\ r.left = r.page
             /\ Len(r.stream.written) = 2 /\ r.stream.written[2] = r.page
    <3>1. PutAt(o, "writeObjects")'
      BY <2>2, <1>1, <1>3 DEF PutAt
    <3>2. Now' \subseteq r.page /\ (disk["page"] = op[o].inode => Now' = r.page)
      BY <2>2, <1>2, <1>3, <1>4, NoPage DEF Now, Content, PageOf, WriteOK
    <3>3. PageFull' /\ PageWhole'
      BY <3>1, <2>2, <1>2, <1>3, <1>4 DEF PageFull, PageWhole, WriteOK
    <3>4. PageOpOK(o)'
      BY <3>2, <2>2, <1>2, <1>3 DEF PageOpOK, WriteObjectsOK, WriteOK
    <3>5. ~deleted => KeysBefore(o) = KeysAfter(r)
      BY <3>2, <2>2, <1>1, <1>2, <1>3 DEF KeysBefore, KeysAfter, WriteOK
    <3> QED
      BY <3>3, <3>4, <3>5, <2>2, <1>1, <1>2, PutSteps DEF Calm, Begun
  <2> QED
    BY <2>1, <2>2, <1>2
<1>6. PageLock'
  BY <1>1, <1>2, LockKept DEF Calm, Begun
<1>7. CTypes' /\ FilesApart' /\ StorageSide'
  BY <1>2, MovesKeep, StorageFrame DEF Calm
<1> QED
  BY <1>5, <1>6, <1>7 DEF Calm

\* While a put writes objects, the cache page is full.
LEMMA FullBefore ==
  ASSUME Calm, NEW o \in Ops, op[o].stage = "writeObjects"
  PROVE  /\ Put(o) /\ PageOp(o) /\ WriteObjectsOK(o)
         /\ disk["page"] # NoFile => Len(inodes[disk["page"]]) = 2
<1>1. Put(o) /\ PageOp(o)
  BY Sides DEF Calm, CTypes, RecordOK
<1>2. \A q \in Ops : ~PutAt(q, "write")
  BY <1>1, PutAlone, Sides DEF Calm, PutAt, Begun
<1> QED
  BY <1>1, <1>2 DEF Calm, PageSide, PageFull, PageOpOK

\* An object page gets its header, or its body.
LEMMA ObjectGoesOut ==
  ASSUME Calm, NEW o \in Ops, NEW k \in Keys, WriteCacheObjectPage(o, k)
  PROVE  Calm'
<1>1. /\ op[o].stage = "writeObjects" /\ k \in op[o].left
      /\ object' = [object EXCEPT ![k] = IF @ = "header" THEN "whole" ELSE "header"]
      /\ op' = [op EXCEPT ![o].left = IF object'[k] = "whole" THEN @ \ {k} ELSE @]
      /\ UNCHANGED <<disk, inodes, lock, down, deleted, overlap>>
  BY DEF WriteCacheObjectPage, Runs
<1>2. /\ Put(o) /\ PageOp(o) /\ WriteObjectsOK(o)
      /\ disk["page"] # NoFile => Len(inodes[disk["page"]]) = 2
  BY <1>1, FullBefore
<1>3. /\ op[o] \in CacheRecords /\ op \in [Ops -> CacheRecords]
      /\ object \in [Keys -> {"none", "empty", "header", "whole"}]
  BY DEF Calm, CTypes
<1>4. /\ object' \in [Keys -> {"none", "empty", "header", "whole"}]
      /\ \A j \in Keys : j # k => object'[j] = object[j]
  BY <1>1, <1>3
<1>5. PICK left : left = IF object'[k] = "whole" THEN op[o].left \ {k} ELSE op[o].left
  BY Zenon
<1>6. PICK r : r = [op[o] EXCEPT !.left = left]
  BY Zenon
<1>7. /\ r \in CacheRecords /\ r.stage = "writeObjects" /\ r.page = op[o].page
      /\ r.left = left /\ op' = [op EXCEPT ![o] = r]
  BY <1>1, <1>3, <1>5, <1>6, Zenon DEF CacheRecords
<1>8. Moves(o, r)
  BY <1>1, <1>2, <1>3, <1>4, <1>7, QuietMoves, Zenon DEF RecordOK, Calm
<1>9. op'[o] = r /\ Now' = Now
  BY <1>1, <1>3, <1>7 DEF Now, Content
<1>10. PutAt(o, "writeObjects")'
  BY <1>2, <1>7, <1>9 DEF PutAt
<1>11. PageFull' /\ PageWhole'
  BY <1>1, <1>2, <1>10 DEF PageFull, PageWhole
<1>12. \A j \in r.page : j \notin r.left => Whole(j)'
  <2>1. k \notin r.left => object'[k] = "whole"
    BY <1>1, <1>5, <1>7
  <2>2. \A j \in r.page : j # k /\ j \notin r.left => Whole(j)
    BY <1>2, <1>5, <1>7 DEF WriteObjectsOK
  <2> QED
    BY <2>1, <2>2, <1>4 DEF Whole
<1>13. PageOpOK(o)'
  BY <1>1, <1>2, <1>7, <1>9, <1>12, Zenon DEF PageOpOK, WriteObjectsOK
<1>14. KeysBefore(o) = KeysAfter(r)
  BY <1>1, <1>7, <1>9 DEF KeysBefore, KeysAfter
<1>15. PageSide'
  BY <1>1, <1>2, <1>7, <1>8, <1>11, <1>13, <1>14, PutSteps DEF Calm, Begun
<1>16. PageLock'
  BY <1>1, <1>2, <1>7, <1>8, LockKept DEF Calm, Begun
<1>17. CTypes' /\ FilesApart' /\ StorageSide'
  BY <1>1, <1>2, <1>8, MovesKeep, StorageFrame DEF Calm
<1> QED
  BY <1>15, <1>16, <1>17 DEF Calm

\* A put is done.
LEMMA PutEnds ==
  ASSUME Calm, NEW o \in Ops, ObjectsWritten(o)
  PROVE  Calm'
<1>1. /\ op[o].stage = "writeObjects" /\ op[o].left = {} /\ Release(o)
      /\ op' = [op EXCEPT ![o].stage = "done"]
      /\ UNCHANGED <<disk, inodes, object, down, deleted, overlap>>
  BY DEF ObjectsWritten, Runs
<1>2. /\ Put(o) /\ PageOp(o) /\ WriteObjectsOK(o)
      /\ disk["page"] # NoFile => Len(inodes[disk["page"]]) = 2
  BY <1>1, FullBefore
<1>3. /\ op[o] \in CacheRecords /\ op \in [Ops -> CacheRecords]
      /\ object \in [Keys -> {"none", "empty", "header", "whole"}]
  BY DEF Calm, CTypes
<1>4. PICK r : r = [op[o] EXCEPT !.stage = "done"]
  OBVIOUS
<1>5. r \in CacheRecords /\ r.stage = "done" /\ op' = [op EXCEPT ![o] = r] /\ op'[o] = r
  BY <1>1, <1>3, <1>4, Zenon DEF CacheRecords
<1>6. Moves(o, r)
  BY <1>1, <1>3, <1>5, QuietMoves, Zenon DEF RecordOK, Calm
<1>7. Now' = Now /\ \A k : Whole(k)' = Whole(k)
  BY <1>1 DEF Now, Content, Whole
<1>8. PageFull' /\ PageWhole'
  BY <1>1, <1>2, <1>7 DEF PageFull, PageWhole, WriteObjectsOK
<1>9. PageOpOK(o)'
  BY <1>5 DEF PageOpOK
<1>10. ~deleted => KeysBefore(o) = KeysAfter(r) /\ Arg[o] \in KeysAfter(r)
  BY <1>1, <1>2, <1>5, <1>7 DEF KeysBefore, KeysAfter, WriteObjectsOK
<1>11. PageSide'
  BY <1>1, <1>2, <1>6, <1>8, <1>9, <1>10, PutSteps DEF Calm, Begun
<1>12. PageLock'
  BY <1>1, <1>2, <1>5, <1>6, LockKept DEF Calm, Begun
<1>13. CTypes' /\ FilesApart' /\ StorageSide'
  BY <1>1, <1>2, <1>6, MovesKeep, StorageFrame DEF Calm
<1> QED
  BY <1>11, <1>12, <1>13 DEF Calm

\* A step of an operation has to do with that one, and a worker stays down.
LEMMA OneOperation ==
  ASSUME NEW o \in Ops, Step(o) \/ WriteFails(o)
  PROVE  /\ op' = op \/ \E r : op' = [op EXCEPT ![o] = r]
         /\ \A w : w \in down => w \in down'
<1>1. Kind[o] \in StorageKinds \cup {"match", "put"}
  BY KindAssumption
<1>2. ASSUME NEW s, NEW c, PageRead(o, s, c)
      PROVE  \E r : op' = [op EXCEPT ![o] = r]
  <2>1. CASE Kind[o] = "open"
    BY <2>1, <1>2 DEF PageRead, Ensure, WritePage
  <2>2. CASE Kind[o] = "delete"
    BY <2>2, <1>2 DEF PageRead, DeleteName, WritePage
  <2>3. CASE Kind[o] = "has"
    BY <2>3, <1>2 DEF PageRead, Has
  <2>4. CASE Kind[o] = "keys"
    BY <2>4, <1>2 DEF PageRead, List
  <2>5. CASE Kind[o] \in {"match", "put"}
    BY <2>5, <1>2, Zenon DEF PageRead, EntriesRead
  <2> QED
    BY <2>1, <2>2, <2>3, <2>4, <2>5, <1>1 DEF StorageKinds
<1>3. CASE Begin(o)
  <2>1. ReadPage(o) => \E r : op' = [op EXCEPT ![o] = r]
    BY <1>2 DEF ReadPage
  <2>2. DeleteCacheStorage(o) => \E r : op' = [op EXCEPT ![o] = r]
    BY Zenon DEF DeleteCacheStorage
  <2> QED
    BY <2>1, <2>2, <1>3 DEF Begin, Read, ListCacheStorage, DetectCacheStorage, EnsureCacheStorage,
                            ReadCachePage
<1>4. CASE ReadEof(o)
  BY <1>2, <1>4 DEF ReadEof
<1>5. CASE MatchAnswers(o)
  BY <1>5, Zenon DEF MatchAnswers
<1>6. CASE WriteCachePage(o)
  BY <1>6, Zenon DEF WriteCachePage, WritePage
<1>7. CASE StreamStep(o)
  BY <1>7, Zenon DEF StreamStep
<1>8. CASE ObjectsWritten(o)
  BY <1>8, Zenon DEF ObjectsWritten
<1>9. CASE Reclaim(o)
  BY <1>9, Zenon DEF Reclaim
<1>10. ASSUME NEW k \in Keys, ReadCacheObjectPage(o, k)
       PROVE  /\ op' = op \/ \E r : op' = [op EXCEPT ![o] = r]
              /\ \A w : w \in down => w \in down'
  BY <1>10 DEF ReadCacheObjectPage
<1>11. ASSUME NEW k \in Keys, WriteCacheObjectPage(o, k)
       PROVE  /\ op' = op \/ \E r : op' = [op EXCEPT ![o] = r]
              /\ \A w : w \in down => w \in down'
  BY <1>11, Zenon DEF WriteCacheObjectPage
<1>12. CASE WriteFails(o)
  BY <1>12, Zenon DEF WriteFails
<1> QED
  BY <1>3, <1>4, <1>5, <1>6, <1>7, <1>8, <1>9, <1>10, <1>11, <1>12 DEF Step

\* A failure is never undone.
LEMMA FaultStays ==
  ASSUME DOMAIN op = Ops, CacheNext
  PROVE  DOMAIN op' = Ops /\ (Faulted => Faulted')
<1>1. CASE \E w \in Workers : Crash(w)
  BY <1>1 DEF Crash, Faulted
<1>2. ASSUME NEW o \in Ops, Step(o) \/ WriteFails(o)
      PROVE  DOMAIN op' = Ops /\ (Faulted => Faulted')
  <2>1. /\ op' = op \/ \E r : op' = [op EXCEPT ![o] = r]
        /\ \A w : w \in down => w \in down'
    BY <1>2, OneOperation
  <2>2. DOMAIN op' = Ops
    BY <2>1
  <2>3. down # {} => Faulted'
    BY <2>1 DEF Faulted
  <2>4. op[o].stage # "stuck" \/ down # {}
    BY <1>2 DEF Step, WriteFails, Begin, ReadEof, MatchAnswers, WriteCachePage, StreamStep,
                ObjectsWritten, Reclaim, ReadCacheObjectPage, WriteCacheObjectPage, Runs
  <2>5. ASSUME NEW q \in Ops, op[q].stage = "stuck", down = {}
        PROVE  Faulted'
    <3>1. q # o
      BY <2>4, <2>5
    <3>2. op'[q] = op[q]
      BY <3>1, <2>1
    <3> QED
      BY <3>2, <2>5 DEF Faulted
  <2> QED
    BY <2>2, <2>3, <2>5 DEF Faulted
<1> QED
  BY <1>1, <1>2 DEF CacheNext

\* The initial states.
LEMMA InitCInv == CacheInit => CInv
<1> SUFFICES ASSUME CacheInit
             PROVE  CInv
  OBVIOUS
<1>1. PICK started \in Scenarios :
        op = [o \in Ops |-> IF o \in started THEN NewOp ELSE [NewOp EXCEPT !.stage = "unused"]]
  BY DEF CacheInit
<1>2. NewStream \in Streams
  <2>1. <<>> \in Seq(Parts)
    OBVIOUS
  <2> QED
    BY <2>1 DEF NewStream, Streams
<1>3. NewOp \in CacheRecords /\ NewOp.stage = "wait"
  BY <1>2 DEF NewOp, CacheRecords, NoFile
<1>4. /\ [NewOp EXCEPT !.stage = "unused"] \in CacheRecords
      /\ [NewOp EXCEPT !.stage = "unused"].stage = "unused"
  BY <1>3, Zenon DEF CacheRecords
<1>5. op \in [Ops -> CacheRecords] /\ \A o \in Ops : op[o].stage \in {"wait", "unused"}
  BY <1>1, <1>3, <1>4
<1>6. inodes \in Seq(Contents) /\ Len(inodes) = 0
  BY DEF CacheInit
<1>7. /\ disk \in [Files -> Nat] /\ \A f \in Files : disk[f] = NoFile
      /\ lock \in [Files -> SUBSET Ops] /\ \A f \in Files : lock[f] = {}
      /\ "page" \in Files /\ "storage" \in Files
  BY DEF CacheInit, NoFile, Files
<1>8. CTypes
  <2>1. \A o \in Ops : RecordOK(o, op[o], Len(inodes))
    BY <1>5 DEF RecordOK
  <2>2. \A f \in Files : disk[f] <= Len(inodes)
    BY <1>6, <1>7 DEF NoFile
  <2>3. object \in [Keys -> {"none", "empty", "header", "whole"}]
    BY DEF CacheInit
  <2> QED
    BY <2>1, <2>2, <2>3, <1>5, <1>6, <1>7 DEF CTypes
<1>9. FilesApart /\ PageLock
  BY <1>5, <1>7 DEF FilesApart, Uses, PageLock, Begun
<1>10. PageSide
  <2>1. Now = {}
    BY <1>7, NoPage DEF Now, Content
  <2>2. PageFull /\ PageWhole
    BY <2>1, <1>7 DEF PageFull, PageWhole
  <2> QED
    BY <2>2, <1>5 DEF PageSide, PageOpOK, PutKept, PutAt
<1>11. StorageSide
  BY <1>5 DEF StorageSide, StoreOpOK, OpenKept, StoreActive, Begun
<1> QED
  BY <1>5, <1>8, <1>9, <1>10, <1>11 DEF CInv, Calm

\* Every step keeps the invariant.
LEMMA NextCInv == CInv /\ [CacheNext]_cacheVars => CInv'
<1>1. CASE UNCHANGED cacheVars
  <2>1. ASSUME Calm, UNCHANGED cacheVars
        PROVE  Calm'
    <3>1. UNCHANGED <<disk, inodes, object, op, lock, deleted, overlap>>
      BY <2>1 DEF cacheVars
    <3>2. CTypes' /\ FilesApart' /\ PageLock'
      BY <3>1, <2>1 DEF Calm, CTypes, FilesApart, Uses, PageLock
    <3>3. /\ Content("page")' = Content("page") /\ Content("storage")' = Content("storage")
          /\ \A k : Whole(k)' = Whole(k)
      BY <3>1 DEF Content, Whole
    <3>4. PageFull' /\ PageWhole'
      BY <3>1, <3>3, <2>1 DEF Calm, PageSide, PageFull, PageWhole, Now, PutAt
    <3>5. ASSUME NEW o \in Ops, PageOp(o)
          PROVE  PageOpOK(o)' /\ PutKept(o)'
      <4>1. PageOpOK(o) /\ PutKept(o)
        BY <3>5, <2>1 DEF Calm, PageSide
      <4>2. PageOpOK(o)'
        BY <4>1, <3>1, <3>3 DEF PageOpOK, ReadOK, ObjectsOK, WriteOK, WriteObjectsOK, Now
      <4>3. PutKept(o)'
        BY <4>1, <3>1, <3>3 DEF PutKept, PutAt, Now
      <4> QED
        BY <4>2, <4>3
    <3>6. StorageSide'
      BY <3>1, <3>3, <2>1 DEF Calm, StorageSide, StoreOpOK, OpenKept, StoreActive, StoreAt
    <3> QED
      BY <3>2, <3>4, <3>5, <3>6 DEF Calm, PageSide
  <2> QED
    BY <2>1, <1>1 DEF CInv, cacheVars, Faulted
<1>2. ASSUME CInv, CacheNext
      PROVE  CInv'
  <2>1. DOMAIN op = Ops /\ DOMAIN op' = Ops /\ (Faulted => Faulted')
    BY <1>2, FaultStays DEF CInv
  <2> SUFFICES ASSUME ~Faulted'
               PROVE  Calm'
    BY <2>1 DEF CInv
  <2>2. Calm /\ ~Faulted /\ down = {} /\ down' = {}
    BY <2>1, <1>2 DEF CInv, Faulted
  <2>3. ~\E w \in Workers : Crash(w)
    BY <2>2 DEF Crash
  <2>4. PICK o \in Ops : Step(o) \/ WriteFails(o)
    BY <2>3, <1>2 DEF CacheNext
  <2>5. ~WriteFails(o)
    <3> SUFFICES ASSUME WriteFails(o)
                 PROVE  FALSE
      OBVIOUS
    <3>1. op \in [Ops -> CacheRecords]
      BY <2>2 DEF Calm, CTypes
    <3>2. op' = [op EXCEPT ![o].stage = "stuck", ![o].stream = Failed(@)]
      BY DEF WriteFails
    <3>3. op'[o].stage = "stuck"
      BY <3>1, <3>2 DEF CacheRecords
    <3> QED
      BY <3>3 DEF Faulted
  <2>6. ~Reclaim(o)
    BY <2>2 DEF Reclaim
  <2>7. CASE PageOp(o)
    <3>1. CASE Begin(o)
      BY <3>1, <2>2, <2>7, PageBegins
    <3>2. CASE ReadEof(o)
      BY <3>2, <2>2, <2>7, PageReads
    <3>3. CASE StreamStep(o)
      BY <3>3, <2>2, <2>7, PageWrites
    <3> QED
      BY <3>1, <3>2, <3>3, <2>2, <2>4, <2>5, <2>6, MatchEnds, PutWritesPage, PutEnds, ObjectIsRead,
         ObjectGoesOut DEF Step
  <2>8. CASE ~PageOp(o)
    <3>1. CASE Begin(o)
      BY <3>1, <2>2, <2>8, StoreBegins
    <3>2. CASE ReadEof(o)
      BY <3>2, <2>2, <2>8, StoreReads
    <3>3. CASE StreamStep(o)
      BY <3>3, <2>2, <2>8, StoreWrites
    <3> QED
      BY <3>1, <3>2, <3>3, <2>2, <2>4, <2>5, <2>6, MatchEnds, PutWritesPage, PutEnds, ObjectIsRead,
         ObjectGoesOut DEF Step
  <2> QED
    BY <2>7, <2>8
<1> QED
  BY <1>1, <1>2

\* What CInv says of the finished operations.
LEMMA CInvKeeps == CInv => CacheKept
<1> SUFFICES ASSUME Calm, ~Faulted
             PROVE  CacheKept
  BY DEF CInv, CacheKept, PutsKept, WholePages, OpensKeptAlone, Faulted
<1>1. down = {} /\ op \in [Ops -> CacheRecords]
  BY DEF Faulted, Calm, CTypes
<1>2. ASSUME NEW o \in Ops, Kind[o] = "put", op[o].stage = "done", ~deleted
      PROVE  \/ Arg[o] \in PageOf(Content("page"))
             \/ \E p \in Ops : Runs(p, "write") /\ Kind[p] = "put" /\ Arg[o] \in op[p].page
  <2>1. PutKept(o) /\ PutAt(o, "done")
    BY <1>2, Sides DEF Calm, PageSide, PutAt, Put
  <2> QED
    BY <2>1, <1>1, <1>2 DEF PutKept, PutAt, Put, Runs, Now
<1>3. ASSUME NEW o \in Ops
      PROVE  ~op[o].torn /\ op[o].stage # "rejected"
  BY <1>1, Zenon DEF CacheRecords, Begun
<1>4. ASSUME ~overlap, ~deleted, NEW o \in Ops, Kind[o] = "open", op[o].stage = "done"
      PROVE  \/ Arg[o] \in PageOf(Content("storage"))
             \/ \E p \in Ops : Kind[p] = "open" /\ Runs(p, "write") /\ Arg[o] \in op[p].page
  <2>1. OpenKept(o)
    BY <1>4, Sides DEF Calm, StorageSide
  <2>2. ASSUME NEW p \in Ops, StoreAt(p, "write")
        PROVE  Kind[p] = "open"
    <3>1. StoreOpOK(p) /\ RecordOK(p, op[p], Len(inodes)) /\ ~PageOp(p) /\ op[p].stage = "write"
      BY <2>2, <1>4 DEF Calm, StorageSide, StoreAt, CTypes
    <3> QED
      BY <3>1 DEF StoreOpOK, RecordOK, Writers, Begun, PageOp
  <2> QED
    BY <2>1, <2>2, <1>1, <1>4 DEF OpenKept, StoreAt, Runs
<1> QED
  BY <1>2, <1>3, <1>4 DEF CacheKept, PutsKept, WholePages, OpensKeptAlone

\* Whatever operations on the cache the workers start: no put is lost, readers see
\* whole pages, and the storage page lists every opened cache, unless a worker died
\* or a write failed half-way, the cache was deleted, or storage operations
\* overlapped (batchCacheOperations, readCacheFullStorage, CacheStorage::Ensure).
THEOREM CacheIsKept == CacheSpec => []CacheKept
<1>1. CacheInit => CInv
  BY InitCInv
<1>2. CInv /\ [CacheNext]_cacheVars => CInv'
  BY NextCInv
<1>3. CInv => CacheKept
  BY CInvKeeps
<1> QED
  BY <1>1, <1>2, <1>3, PTL DEF CacheSpec
=============================================================================
