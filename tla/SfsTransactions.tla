--------------------------- MODULE SfsTransactions ---------------------------
(***************************************************************************)
(* Transactions of the Smart Filesystem on its administration blocks: the  *)
(* operations of the transaction buffer on two levels, the cache buffers   *)
(* that hold originals and latest versions, the flush that logs the        *)
(* operations before it writes them, the write-back cache below, and the   *)
(* replay of an unfinished flush when the volume is mounted after a crash. *)
(*                                                                         *)
(* The handler is one process, so a call that changes one block is one     *)
(* step; in a flush every block that goes to the cache below is a step,    *)
(* and a crash may come between any two of them and between any two blocks *)
(* that the cache below copies back.  A difference is modelled as the      *)
(* contents it gives.  An operation fills a block of the log of its own.   *)
(* Errors of the device are left out.                                      *)
(***************************************************************************)
EXTENDS Integers, FiniteSets, FiniteSetsExt

CONSTANTS AdminBlocks,    \* numbers of the blocks of an administration area
          SpaceBlock,     \* the one with the AdminSpaceContainer of that area
          Occupied,       \* the blocks in use at first
          Freeable,       \* the blocks that freeadminspace() is called for
          Contents,       \* what the other blocks may hold
          Cleared,        \* the contents of a cleared buffer
          None,           \* no buffer, no data
          FailAfterFree   \* may a transaction fail when it has changed a block and freed it?

ASSUME SfsAssumption ==
  /\ AdminBlocks \subseteq Nat /\ IsFiniteSet(AdminBlocks)
  /\ SpaceBlock \in Occupied /\ Occupied \subseteq AdminBlocks
  /\ Freeable \subseteq AdminBlocks \ {SpaceBlock}
  /\ FailAfterFree \in BOOLEAN
  /\ None \notin Contents /\ None # Cleared /\ \A used \in SUBSET AdminBlocks : None # used

VARIABLES disk,     \* what the device holds
          io,       \* the same with the dirty blocks of the cache below
          cache,    \* the cache buffers of every block
          ops,      \* the operations of transaction level 0 and of level 1
          nest,     \* transactionnestcount
          trouble,  \* how the open transaction fares
          phase     \* where flushtransaction() is

vars == <<disk, io, cache, ops, nest, trouble, phase>>

Block(b) == <<"block", b>>
LogBlock(b) == <<"log", b>>
FailureBlock == <<"failure", 0>>

Places == {Block(b) : b \in AdminBlocks} \cup {LogBlock(b) : b \in AdminBlocks} \cup {FailureBlock}

Data == Contents \cup {Cleared} \cup SUBSET AdminBlocks

\* bits: "change" for 0, "empty" for OI_EMPTY, "delete" for OI_DELETE.
Operation == [bits : {"change", "empty", "delete"}, data : Data \cup {None}]

NoOperation == [bits |-> "none", data |-> None]

FreeOperation == [bits |-> "delete", data |-> None]

\* A block of the log that has not been written yet: anything but a block of the log.
Junk == [bits |-> "junk", data |-> None]

\* The buffer with CB_ORIGINAL and the one with CB_LATEST; if `shared', it is one
\* buffer that has both.  `empty' is CB_EMPTY of the latter.
Buffers == [original : Data \cup {None}, latest : Data \cup {None},
            shared : BOOLEAN, empty : BOOLEAN]

NoBuffers == [original |-> None, latest |-> None, shared |-> FALSE, empty |-> FALSE]

TypeOK ==
  /\ DOMAIN disk = Places /\ DOMAIN io = Places
  /\ \A d \in {disk, io} :
       /\ \A b \in AdminBlocks : d[Block(b)] \in Data
       /\ \A b \in AdminBlocks : d[LogBlock(b)] \in Operation \cup {NoOperation, Junk}
       /\ d[FailureBlock] \in {"TROK", "TRFA"}
  /\ cache \in [AdminBlocks -> Buffers]
  /\ ops \in [0 .. 1 -> [AdminBlocks -> Operation \cup {NoOperation}]]
  /\ nest \in 0 .. 1
  /\ trouble \in {"none", "freed", "failed"}
  /\ phase \in {"idle", "save", "mark", "write", "clear"}

---------------------------------------------------------------------------
(* Operations *)

LatestOperation(b) == IF ops[1][b] # NoOperation THEN ops[1][b] ELSE ops[0][b]

\* uncompress(): an operation of length 0 changes nothing.
Uncompress(o, original) == IF o.bits \in {"change", "empty"} THEN o.data ELSE original

HasTransaction == \E b \in AdminBlocks : ops[0][b] # NoOperation

---------------------------------------------------------------------------
(* Cache buffers *)

\* readoriginalcachebuffer()
ReadOriginal(b) ==
  LET cb == cache[b]
      alone == LatestOperation(b) = NoOperation
  IN  IF cb.original # None THEN cb
      ELSE [cb EXCEPT !.original = io[Block(b)], !.shared = alone,
                      !.latest = IF alone THEN io[Block(b)] ELSE @]

\* saveoriginalcachebuffer()
SaveOriginal(cb) == [cb EXCEPT !.latest = cb.original, !.shared = FALSE]

\* applyoperation()
ApplyOperation(b) ==
  LET o == LatestOperation(b)
  IN  CASE o = NoOperation   -> ReadOriginal(b)
        [] o.bits = "empty"  -> [cache[b] EXCEPT !.latest = o.data, !.empty = TRUE]
        [] OTHER             -> LET split == SaveOriginal(ReadOriginal(b))
                                IN  [split EXCEPT !.latest = Uncompress(o, @)]

\* readcachebuffer()
ReadCacheBuffer(b) == IF cache[b].latest # None THEN cache[b] ELSE ApplyOperation(b)

\* The data of the buffer that readcachebuffer() returns.
Shown(cb) == IF cb.latest # None THEN cb.latest ELSE cb.original

\* preparecachebuffer()
Prepare(cb) == IF cb.shared \/ cb.latest = None THEN SaveOriginal(cb) ELSE cb

\* newcachebuffer()
NewCacheBuffer(b) ==
  IF cache[b].latest # None THEN [Prepare(cache[b]) EXCEPT !.latest = Cleared]
  ELSE [cache[b] EXCEPT !.latest = Cleared, !.empty = TRUE]

\* The operation that storecachebuffer() adds for a buffer.
Store(cb) == [bits |-> IF cb.empty THEN "empty" ELSE "change", data |-> cb.latest]

\* restorecachebuffer(), with `o' the latest operation.
Restore(cb, o) ==
  IF o # NoOperation /\ (o.bits = "empty" \/ ~cb.empty)
  THEN [cb EXCEPT !.latest = Uncompress(o, cb.original)]
  ELSE IF cb.empty THEN [cb EXCEPT !.latest = Cleared]
  ELSE [cb EXCEPT !.latest = cb.original, !.shared = TRUE]

\* getcachebuffer() reuses any buffer but an original with a latest version.
ReuseBuffer(b) ==
  /\ cache[b] # NoBuffers
  /\ cache' = [cache EXCEPT ![b] =
                 IF @.shared \/ @.latest = None THEN NoBuffers
                 ELSE [@ EXCEPT !.latest = None, !.empty = FALSE]]
  /\ UNCHANGED <<disk, io, ops, nest, trouble, phase>>

---------------------------------------------------------------------------
(* Transactions *)

Used == Shown(ReadCacheBuffer(SpaceBlock))

\* A block in use is looked at, within a transaction or not.
ReadBlock(b) ==
  /\ phase = "idle"
  /\ trouble # "failed"
  /\ b \in Used
  /\ cache[b].latest = None
  /\ cache' = [cache EXCEPT ![b] = ReadCacheBuffer(b)]
  /\ UNCHANGED <<disk, io, ops, nest, trouble, phase>>

\* Mutant: endtransaction() forgotten before the next newtransaction().
NewTransactionNested ==
  /\ phase = "idle"
  /\ nest' = nest + 1
  /\ UNCHANGED <<disk, io, cache, ops, trouble, phase>>

NewTransaction ==
  /\ phase = "idle"
  /\ nest = 0
  /\ nest' = 1
  /\ UNCHANGED <<disk, io, cache, ops, trouble, phase>>

InTransaction ==
  /\ nest = 1
  /\ trouble # "failed"
  /\ UNCHANGED <<disk, io, nest, phase>>

Fails ==
  /\ InTransaction
  /\ trouble = "none"
  /\ trouble' = "failed"

\* The AdminSpaceContainer is read, prepared, changed and stored.
Marked(used) == [Prepare(ReadCacheBuffer(SpaceBlock)) EXCEPT !.latest = used]

\* A block in use is read, prepared, changed and stored.
ChangeBlock(b, data) ==
  LET cb == [Prepare(ReadCacheBuffer(b)) EXCEPT !.latest = data]
  IN  /\ InTransaction
      /\ b \in Used \ {SpaceBlock}
      /\ cache' = [cache EXCEPT ![b] = cb]
      /\ ops' = [ops EXCEPT ![1][b] = Store(cb)]
      /\ UNCHANGED trouble

\* allocadminspace(), and the new block is filled in and stored.
AllocBlock(b, data) ==
  LET space == Marked(Used \cup {b})
      cb    == [NewCacheBuffer(b) EXCEPT !.latest = data]
  IN  /\ InTransaction
      /\ b \in AdminBlocks \ Used
      /\ cache' = [cache EXCEPT ![SpaceBlock] = space, ![b] = cb]
      /\ ops' = [ops EXCEPT ![1][SpaceBlock] = Store(space), ![1][b] = Store(cb)]
      /\ trouble' = IF ops[1][b] = FreeOperation THEN "freed" ELSE trouble

\* freeadminspace(); addfreeoperation() drops what the transaction did to the block.
FreeBlock(b) ==
  LET space == Marked(Used \ {b})
  IN  /\ InTransaction
      /\ b \in Used \cap Freeable
      /\ cache' = [cache EXCEPT ![SpaceBlock] = space]
      /\ ops' = [ops EXCEPT ![1][SpaceBlock] = Store(space), ![1][b] = FreeOperation]
      /\ trouble' = IF ops[1][b] # NoOperation THEN "freed" ELSE trouble

\* The change of a block cannot be stored (disk full): dumpcachebuffer().
ChangeFails(b) ==
  /\ Fails
  /\ b \in Used \ {SpaceBlock}
  /\ cache' = [cache EXCEPT ![b] = Restore(Prepare(ReadCacheBuffer(b)), LatestOperation(b))]
  /\ UNCHANGED ops

\* The same of a block just allocated.
AllocFails(b) ==
  LET space == Marked(Used \cup {b})
  IN  /\ Fails
      /\ b \in AdminBlocks \ Used
      /\ ops[1][b] = FreeOperation => FailAfterFree
      /\ cache' = [cache EXCEPT ![SpaceBlock] = space,
                                ![b] = Restore(NewCacheBuffer(b), LatestOperation(b))]
      /\ ops' = [ops EXCEPT ![1][SpaceBlock] = Store(space)]

\* combineoperations(): the operation of level 0, and the buffers, of block b.
Combine(b) ==
  LET new == ops[1][b]
      old == ops[0][b]
      both == new # NoOperation /\ old # NoOperation
  IN  CASE new = NoOperation                -> old
        [] both /\ new.bits = "delete"      -> NoOperation
        [] OTHER                            -> new

\* Mutant: the buffers of a deleted block are left as they are.
DiscardNothing(b) == cache[b]

Discard(b) ==
  LET cb == cache[b]
  IN  IF ~(ops[1][b].bits = "delete" /\ ops[0][b] # NoOperation) THEN cb
      ELSE IF cb.shared \/ cb.original = None THEN NoBuffers
      ELSE [cb EXCEPT !.latest = cb.original, !.shared = TRUE, !.empty = FALSE]

NoOperations == [b \in AdminBlocks |-> NoOperation]

EndTransaction ==
  /\ nest = 1
  /\ trouble # "failed"
  /\ nest' = 0
  /\ trouble' = "none"
  /\ ops' = [ops EXCEPT ![0] = [b \in AdminBlocks |-> Combine(b)], ![1] = NoOperations]
  /\ cache' = [b \in AdminBlocks |-> Discard(b)]
  /\ UNCHANGED <<disk, io, phase>>

\* Mutant: the operations are removed and the buffers left as they are.
RevertNothing(b) == cache[b]

\* deletetransaction(): the buffers of block b.
Revert(b) ==
  LET cb == cache[b]
      o  == ops[0][b]
  IN  IF ops[1][b].bits \in {"none", "delete"} THEN cb
      ELSE IF cb.latest # None THEN Restore(cb, o)
      ELSE IF cb.original # None /\ o = NoOperation
      THEN [cb EXCEPT !.latest = cb.original, !.shared = TRUE]
      ELSE cb

DeleteTransaction ==
  /\ nest = 1
  /\ trouble = "freed" => FailAfterFree
  /\ nest' = 0
  /\ trouble' = "none"
  /\ cache' = [b \in AdminBlocks |-> Revert(b)]
  /\ ops' = [ops EXCEPT ![1] = NoOperations]
  /\ UNCHANGED <<disk, io, phase>>

---------------------------------------------------------------------------
(* Flush *)

\* flushiocache() returns when no block is dirty.
Flushed == io = disk

\* copybackiocache(), called by flushiocache() or for the space.
CopyBack(p) ==
  /\ io[p] # disk[p]
  /\ disk' = [disk EXCEPT ![p] = io[p]]
  /\ UNCHANGED <<io, cache, ops, nest, trouble, phase>>

\* What the block of the log for block b holds before it is written.
NewLog(b) == IF ops[0][b] = NoOperation THEN NoOperation ELSE Junk

WithLog(d, log) == [p \in Places |-> IF p[1] = "log" THEN log[p[2]] ELSE d[p]]

\* flushtransaction() finds a transaction; findspace() gives the blocks of the log.
StartFlush ==
  /\ phase = "idle"
  /\ nest = 0
  /\ HasTransaction
  /\ Flushed
  /\ phase' = "save"
  /\ disk' = WithLog(disk, [b \in AdminBlocks |-> NewLog(b)])
  /\ io' = disk'
  /\ UNCHANGED <<cache, ops, nest, trouble>>

Unsaved == {b \in AdminBlocks : io[LogBlock(b)] = Junk}

\* savetransaction() writes the operations in the order of their blocks.
SaveOperation(b) ==
  /\ phase = "save"
  /\ b \in Unsaved /\ \A c \in Unsaved : b <= c
  /\ io' = [io EXCEPT ![LogBlock(b)] = ops[0][b]]
  /\ UNCHANGED <<disk, cache, ops, nest, trouble, phase>>

\* Mutant: the first flushiocache() after savetransaction() is missing.
MarkFailureUnflushed ==
  /\ phase = "save"
  /\ Unsaved = {}
  /\ io' = [io EXCEPT ![FailureBlock] = "TRFA"]
  /\ phase' = "mark"
  /\ UNCHANGED <<disk, cache, ops, nest, trouble>>

MarkFailure ==
  /\ phase = "save"
  /\ Unsaved = {}
  /\ Flushed
  /\ io' = [io EXCEPT ![FailureBlock] = "TRFA"]
  /\ phase' = "mark"
  /\ UNCHANGED <<disk, cache, ops, nest, trouble>>

\* Mutant: writeoperations() does not remove what it has written.
WriteOperationAgain(b) ==
  /\ phase = "write" \/ (phase = "mark" /\ Flushed)
  /\ ops[0][b] # NoOperation
  /\ phase' = "write"
  /\ io' = [io EXCEPT ![Block(b)] = Shown(ReadCacheBuffer(b))]
  /\ UNCHANGED <<disk, cache, ops, nest, trouble>>

\* writeoperations(), for its first operation.
WriteOperation(b) ==
  LET cb == ReadCacheBuffer(b)
  IN  /\ phase = "write" \/ (phase = "mark" /\ Flushed)
      /\ ops[0][b] # NoOperation
      /\ \A c \in AdminBlocks : ops[0][c] # NoOperation => b <= c
      /\ phase' = "write"
      /\ UNCHANGED <<disk, nest, trouble>>
      /\ io' = [io EXCEPT ![Block(b)] = Shown(cb)]
      /\ cache' = [cache EXCEPT ![b] =
                     IF cb.shared THEN NoBuffers
                     ELSE [original |-> Shown(cb), latest |-> Shown(cb),
                           shared |-> TRUE, empty |-> FALSE]]
      /\ ops' = [ops EXCEPT ![0][b] = NoOperation]

\* Mutant: no flushiocache() at the start of removetransactionfailure().
ClearFailureUnflushed ==
  /\ phase = "write"
  /\ ~HasTransaction
  /\ io' = [io EXCEPT ![FailureBlock] = "TROK"]
  /\ phase' = "clear"
  /\ UNCHANGED <<disk, cache, ops, nest, trouble>>

\* removetransactionfailure()
ClearFailure ==
  /\ phase = "write"
  /\ ~HasTransaction
  /\ Flushed
  /\ io' = [io EXCEPT ![FailureBlock] = "TROK"]
  /\ phase' = "clear"
  /\ UNCHANGED <<disk, cache, ops, nest, trouble>>

\* stoptimeout(); nothing refers to the log any more.
EndFlush ==
  /\ phase = "clear"
  /\ Flushed
  /\ disk' = WithLog(disk, NoOperations)
  /\ io' = disk'
  /\ phase' = "idle"
  /\ UNCHANGED <<cache, ops, nest, trouble>>

---------------------------------------------------------------------------
(* Crash and mount *)

\* loadtransaction() takes an operation of length 0 for the end of the log.
Loaded(d) ==
  [b \in AdminBlocks |->
     IF \E c \in AdminBlocks : c <= b /\ d[LogBlock(c)].bits = "delete"
     THEN NoOperation ELSE d[LogBlock(b)]]

\* checkfortransaction(): the operations found at the mount.
Found(d) == IF d[FailureBlock] = "TRFA" THEN Loaded(d) ELSE NoOperations

\* All that was in memory is lost; the volume is mounted again.
Crash ==
  /\ nest' = 0
  /\ trouble' = "none"
  /\ cache' = [b \in AdminBlocks |-> NoBuffers]
  /\ phase' = IF disk[FailureBlock] = "TRFA" THEN "write" ELSE "idle"
  /\ disk' = IF disk[FailureBlock] = "TRFA" THEN disk ELSE WithLog(disk, NoOperations)
  /\ io' = disk'
  /\ ops' = [ops EXCEPT ![0] = Found(disk), ![1] = NoOperations]

---------------------------------------------------------------------------
\* A volume as it was found at the mount.
Init ==
  /\ \E first \in Contents :
       disk = [p \in Places |->
                CASE p = FailureBlock      -> "TROK"
                  [] p = Block(SpaceBlock) -> Occupied
                  [] p[1] = "log"          -> NoOperation
                  [] OTHER                 -> IF p[2] \in Occupied THEN first ELSE Cleared]
  /\ io = disk
  /\ cache = [b \in AdminBlocks |-> NoBuffers]
  /\ ops = [level \in 0 .. 1 |-> NoOperations]
  /\ nest = 0
  /\ trouble = "none"
  /\ phase = "idle"

Flushing ==
  \/ \E b \in AdminBlocks : SaveOperation(b) \/ WriteOperation(b)
  \/ MarkFailure \/ ClearFailure \/ EndFlush

Changes ==
  \E b \in AdminBlocks :
    \/ \E data \in Contents : ChangeBlock(b, data) \/ AllocBlock(b, data)
    \/ FreeBlock(b) \/ ChangeFails(b) \/ AllocFails(b)

Next ==
  \/ NewTransaction \/ Changes \/ EndTransaction \/ DeleteTransaction
  \/ StartFlush \/ Flushing
  \/ \E b \in AdminBlocks : ReuseBuffer(b) \/ ReadBlock(b)
  \/ \E p \in Places : CopyBack(p)
  \/ Crash

Spec == Init /\ [][Next]_vars

Proceeds ==
  \/ \E p \in Places : CopyBack(p)
  \/ Flushing
  \/ EndTransaction \/ DeleteTransaction

\* The handler goes on with a flush and ends a transaction; the activity timer, whose
\* message waits in its port until the handler is back from a packet, starts a flush.
Fairness == WF_vars(Proceeds) /\ SF_vars(StartFlush)

FairSpec == Spec /\ Fairness

---------------------------------------------------------------------------
(* Properties *)

Current(b) == Shown(ReadCacheBuffer(b))

\* A cache buffer that counts as the latest version of a block in use holds what the
\* latest operation makes of the block on the disk, after any order of changes, frees,
\* failures, commits, flushes and reuse of the buffers: readcachebuffer() returns it
\* without a look at the operations, and a flush writes what that returns.
LatestIsLatest ==
  \A b \in AdminBlocks :
    b \in Used /\ cache[b].latest # None /\ trouble # "failed"
      => cache[b].latest = Uncompress(LatestOperation(b), io[Block(b)])

\* The rules for cache buffers at the end of transactions.c: an original is what the
\* disk holds, a latest version that is not a new block has its original in the
\* cache, only an unmodified block has one buffer for both, and a lone original
\* means that there is an operation.  The differences of a block rely on them.
CacheBufferRules ==
  \A b \in AdminBlocks :
    LET cb == cache[b]
    IN  /\ cb.original # None => cb.original = io[Block(b)]
        /\ cb.latest # None /\ ~cb.shared /\ ~cb.empty => cb.original # None
        /\ cb.shared => LatestOperation(b).bits \in {"none", "delete"}
        /\ cb.original # None /\ ~cb.shared => LatestOperation(b) # NoOperation

Volume(contents) == [b \in contents[SpaceBlock] |-> contents[b]]

\* What a mount after a crash gives; a log with a block that was never written, nothing.
Replayed(d) ==
  LET log == Found(d)
  IN  IF \E b \in AdminBlocks : log[b] = Junk THEN None
      ELSE Volume([b \in AdminBlocks |-> Uncompress(log[b], d[Block(b)])])

stable == Replayed(disk)
latest == Volume([b \in AdminBlocks |-> Uncompress(ops[0][b], io[Block(b)])])
work   == Volume([b \in AdminBlocks |-> Current(b)])

\* Once the TransactionFailure block is on the disk, the machine may crash at any point
\* of the flush and in any state of the cache below: the mount after it gives the
\* volume with all transactions that have ended (flushtransaction(), loadtransaction()).
FlushSurvivesCrash == disk[FailureBlock] = "TRFA" => stable = latest

\* A log that the mount reads to its end: behind an operation of length 0 there is no
\* other that gives contents to a block.
WholeLog ==
  \A b, c \in AdminBlocks :
    b < c /\ disk[LogBlock(b)].bits = "delete"
      => disk[LogBlock(c)].bits \notin {"change", "empty"}

\* What FlushSurvivesCrash says, for every flush whose log the mount reads to its end,
\* whatever blocks were freed (savetransaction(), loadtransaction()).
WholeLogSurvivesCrash == WholeLog => FlushSurvivesCrash

\* Outside a transaction the volume reads as the ended transactions left it, so one that
\* was given up has left nothing behind (deletetransaction()).
GivenUpLeavesNothing == nest = 0 => work = latest

Atomic == INSTANCE AtomicVolume WITH open <- nest = 1, whole <- WholeLog

\* Transactions are atomic: each one happens as a whole or not at all, for the readers
\* of the volume and for a mount after a crash anywhere, and only a finished flush moves
\* what a crash leaves, except where a log is cut short by a freed block: then a crash in
\* the flush may leave part of it, and nothing else goes wrong (AtomicVolume;
\* newtransaction() to removetransactionfailure()).
ImplementsAtomicVolume == Atomic!Spec

NoMoreCrashes == <>[][~Crash]_vars

\* What a transaction has changed reaches the disk in the end, and the flush, also the one
\* that a mount finishes, comes to its end, unless the machine goes on crashing.
IsFlushed == NoMoreCrashes => (HasTransaction ~> phase = "idle" /\ ~HasTransaction /\ Flushed)
=============================================================================
