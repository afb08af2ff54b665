------------------------ MODULE SfsTransactionsProofs ------------------------
(***************************************************************************)
(* Theorems about the buffers and the operations of SfsTransactions, for   *)
(* any blocks, contents and order of steps.                                *)
(*                                                                         *)
(* Every block is invariant on its own: BlockOK relates its buffers, its   *)
(* operations on the two levels and what the cache below holds for it, to  *)
(* whether the block is in use now and was when the transaction began.     *)
(* What its buffers would be if the transaction were given up is part of   *)
(* it.  Only the AdminSpaceContainer ties the blocks together.             *)
(***************************************************************************)
EXTENDS SfsTransactions, TLAPS

(* A container is itself among the blocks in use of its area.              *)
Spaces == {used \in SUBSET AdminBlocks : SpaceBlock \in used}

DataOf(b) == IF b = SpaceBlock THEN Spaces ELSE Data

OperationsOf(b) ==
  {o \in Operation : IF o.bits = "delete" THEN b \in Freeable /\ o = FreeOperation
                      ELSE o.data \in DataOf(b)}
    \cup {NoOperation}

UsedNow    == Uncompress(LatestOperation(SpaceBlock), io[Block(SpaceBlock)])
UsedBefore == Uncompress(ops[0][SpaceBlock], io[Block(SpaceBlock)])

Unchanged == {"none", "delete"}

Newest(old, new) == IF new # NoOperation THEN new ELSE old

(* The rules for the buffers of a block, with its two operations and its data. *)
Sound(cb, old, new, d) ==
  /\ cb.original # None => cb.original = d
  /\ cb.latest # None /\ ~cb.shared /\ ~cb.empty => cb.original # None
  /\ cb.shared => /\ old.bits \in Unchanged /\ new.bits \in Unchanged
                  /\ cb.original # None /\ cb.latest = cb.original /\ ~cb.empty
  /\ cb.original # None /\ ~cb.shared => Newest(old, new) # NoOperation
  /\ cb.latest = None => ~cb.empty

(* The latest version of a block in use is what its operation `o' makes.   *)
Right(cb, o, d) ==
  /\ cb.latest # None => cb.latest = Uncompress(o, d)
  /\ cb.empty => o.bits = "empty"
  /\ o.bits # "delete"

(* What deletetransaction() needs of the buffers of any block ...          *)
Revertible(cb, old, new) ==
  /\ new.bits \in {"delete", "empty"} /\ cb.original # None /\ ~cb.shared => old # NoOperation
  /\ cb.empty /\ cb.original # None => old # NoOperation

(* ... and of one that was in use when the transaction began.              *)
Restorable(cb, old, new, d) ==
  /\ cb.empty => old.bits = "empty"
  /\ new.bits = "empty" => old.bits = "empty"
  /\ new.bits \in Unchanged /\ cb.latest # None => cb.latest = Uncompress(old, d)

BlockOK(cb, old, new, d, used, before, t) ==
  /\ Sound(cb, old, new, d)
  /\ used /\ (t = "failed" => before) => Right(cb, Newest(old, new), d)
  /\ t # "freed" => Revertible(cb, old, new)
  /\ t # "freed" /\ before => Restorable(cb, old, new, d)
  /\ ~used => new.bits \in Unchanged /\ (before => new.bits = "delete")
  /\ new.bits = "delete" => ~used \/ (t = "failed" /\ ~before)
  /\ old.bits = "delete" => ~before

BlockInv(b) ==
  BlockOK(cache[b], ops[0][b], ops[1][b], io[Block(b)],
          b \in UsedNow, b \in UsedBefore, trouble)

(* Types, with what the container of the space may hold.                   *)
Types ==
  /\ TypeOK
  /\ \A b \in AdminBlocks :
       /\ ops[0][b] \in OperationsOf(b) /\ ops[1][b] \in OperationsOf(b)
       /\ disk[Block(b)] \in DataOf(b) /\ io[Block(b)] \in DataOf(b)
       /\ disk[LogBlock(b)] \in OperationsOf(b) \cup {Junk}
       /\ io[LogBlock(b)] \in OperationsOf(b) \cup {Junk}

Nesting ==
  /\ nest = 0 => ops[1] = NoOperations /\ trouble = "none"
  /\ nest = 1 => phase = "idle"

(* Where the cache below may differ from the disk, and the log.            *)
Flush ==
  /\ phase = "idle" => io = disk /\ disk[FailureBlock] = "TROK"
  /\ phase = "save" =>
       /\ io[FailureBlock] = "TROK" /\ disk[FailureBlock] = "TROK"
       /\ \A b \in AdminBlocks : io[Block(b)] = disk[Block(b)]
       /\ \A b \in AdminBlocks : io[LogBlock(b)] \in {Junk, ops[0][b]}
  /\ phase = "mark" =>
       /\ io[FailureBlock] = "TRFA"
       /\ \A b \in AdminBlocks : io[Block(b)] = disk[Block(b)]
       /\ \A b \in AdminBlocks : io[LogBlock(b)] = ops[0][b] /\ disk[LogBlock(b)] = ops[0][b]
  /\ phase = "write" => io[FailureBlock] = "TRFA" /\ disk[FailureBlock] = "TRFA"
  /\ phase = "clear" =>
       /\ io[FailureBlock] = "TROK" /\ ops[0] = NoOperations
       /\ \A b \in AdminBlocks : io[Block(b)] = disk[Block(b)]
  /\ phase \in {"write", "clear"} =>
       \A b \in AdminBlocks : io[LogBlock(b)] = disk[LogBlock(b)] /\ io[LogBlock(b)] # Junk

(* The inductive invariant.                                                *)
Inv ==
  /\ Types
  /\ Nesting
  /\ Flush
  /\ \A b \in AdminBlocks : BlockInv(b)

---------------------------------------------------------------------------
(* Constants and places *)

LEMMA DataFacts ==
  /\ None \notin Data /\ Cleared \in Data /\ Contents \subseteq Data
  /\ SpaceBlock \in AdminBlocks /\ Spaces \subseteq Data
  /\ \A b \in AdminBlocks : DataOf(b) \subseteq Data
  /\ \A b \in AdminBlocks \ {SpaceBlock} : DataOf(b) = Data
  /\ \A used \in Spaces : SpaceBlock \in used /\ used \subseteq AdminBlocks
  /\ Freeable \subseteq AdminBlocks \ {SpaceBlock}
  BY SfsAssumption DEF SfsAssumption, Data, Spaces, DataOf

LEMMA PlaceFacts ==
  /\ FailureBlock \in Places
  /\ \A b \in AdminBlocks : Block(b) \in Places /\ LogBlock(b) \in Places
  /\ \A b, c \in AdminBlocks : Block(b) # LogBlock(c)
  /\ \A b, c \in AdminBlocks : Block(b) = Block(c) => b = c
  /\ \A b, c \in AdminBlocks : LogBlock(b) = LogBlock(c) => b = c
  /\ \A b \in AdminBlocks : Block(b) # FailureBlock /\ LogBlock(b) # FailureBlock
  BY DEF Places, Block, LogBlock, FailureBlock

(* The parts of a place's name that the expressions on places look at.     *)
LEMMA PlaceParts ==
  ASSUME NEW b \in AdminBlocks
  PROVE  /\ Block(b)[1] = "block" /\ Block(b)[2] = b
         /\ LogBlock(b)[1] = "log" /\ LogBlock(b)[2] = b
         /\ FailureBlock[1] = "failure"
  BY DEF Block, LogBlock, FailureBlock

LEMMA NoOperationFacts ==
  /\ NoOperation \notin Operation /\ Junk \notin Operation /\ Junk # NoOperation
  /\ NoOperation.bits = "none" /\ FreeOperation \in Operation /\ FreeOperation.bits = "delete"
  BY DEF NoOperation, Operation, Junk, FreeOperation

(* What an operation of a block can be.                                    *)
LEMMA OperationFacts ==
  ASSUME NEW b \in AdminBlocks, NEW o \in OperationsOf(b)
  PROVE  /\ o \in Operation \cup {NoOperation} /\ o # Junk
         /\ o.bits \in {"change", "empty", "delete", "none"}
         /\ o.bits = "none" <=> o = NoOperation
         /\ o.bits = "delete" => b \in Freeable /\ b # SpaceBlock /\ o = FreeOperation
         /\ \A d \in DataOf(b) : Uncompress(o, d) \in DataOf(b)
  BY NoOperationFacts, DataFacts DEF OperationsOf, Operation, NoOperation, Uncompress
---------------------------------------------------------------------------
(* Buffers of one block *)

(* The types of one block, as the lemmas on its buffers need them.         *)
BlockTypes(b) ==
  /\ cache[b] \in Buffers
  /\ ops[0][b] \in OperationsOf(b) /\ ops[1][b] \in OperationsOf(b)
  /\ io[Block(b)] \in DataOf(b) /\ io[Block(b)] \in Data

LEMMA TypesOfBlock ==
  ASSUME Types, NEW b \in AdminBlocks
  PROVE  BlockTypes(b)
  BY DataFacts DEF Types, TypeOK, BlockTypes

LEMMA LatestIsNewest ==
  ASSUME NEW b
  PROVE  LatestOperation(b) = Newest(ops[0][b], ops[1][b])
  BY DEF LatestOperation, Newest

(* The fields of a buffer.                                                 *)
Is(cb, original, latest_, shared, empty) ==
  /\ cb \in Buffers
  /\ cb.original = original /\ cb.latest = latest_
  /\ cb.shared = shared /\ cb.empty = empty

LEMMA NoBuffersFacts ==
  Is(NoBuffers, None, None, FALSE, FALSE)
  BY DEF NoBuffers, Buffers, Is

LEMMA SaveFields ==
  ASSUME NEW cb \in Buffers
  PROVE  Is(SaveOriginal(cb), cb.original, cb.original, FALSE, cb.empty)
  BY DEF Buffers, SaveOriginal, Is

(* What an assignment to a buffer leaves.                                  *)
LEMMA BufferFields ==
  ASSUME NEW cb \in Buffers, NEW x \in Data \cup {None}
  PROVE  /\ Is([cb EXCEPT !.latest = x], cb.original, x, cb.shared, cb.empty)
         /\ Is([cb EXCEPT !.latest = x, !.empty = TRUE], cb.original, x, cb.shared, TRUE)
         /\ Is([cb EXCEPT !.latest = x, !.shared = TRUE], cb.original, x, TRUE, cb.empty)
         /\ Is([cb EXCEPT !.latest = x, !.empty = FALSE], cb.original, x, cb.shared, FALSE)
         /\ Is([cb EXCEPT !.latest = x, !.shared = TRUE, !.empty = FALSE],
               cb.original, x, TRUE, FALSE)
         /\ Is([cb EXCEPT !.original = x, !.shared = TRUE, !.latest = x], x, x, TRUE, cb.empty)
         /\ Is([cb EXCEPT !.original = x, !.shared = FALSE, !.latest = cb.latest],
               x, cb.latest, FALSE, cb.empty)
  BY DEF Buffers, Is

(* readcachebuffer() makes `cb' of `was': it keeps the rules, gives a      *)
(* buffer with data, and shares it only where there is no operation.       *)
ReadOK(was, cb, old, new, d) ==
  LET o == Newest(old, new)
  IN  /\ cb \in Buffers
      /\ Sound(cb, old, new, d)
      /\ cb.latest # None /\ Shown(cb) = cb.latest
      /\ was.latest # None => cb = was
      /\ was.latest = None =>
           /\ cb.latest = Uncompress(o, d)
           /\ cb.empty <=> o.bits = "empty"
           /\ cb.original # None /\ o.bits = "empty" => was.original # None
           /\ cb.shared <=> o = NoOperation

LEMMA ReadFacts ==
  ASSUME NEW b \in AdminBlocks, BlockTypes(b),
         Sound(cache[b], ops[0][b], ops[1][b], io[Block(b)])
  PROVE  ReadOK(cache[b], ReadCacheBuffer(b), ops[0][b], ops[1][b], io[Block(b)])
<1> DEFINE was == cache[b]
           cb  == ReadCacheBuffer(b)
           old == ops[0][b]
           new == ops[1][b]
           o   == Newest(old, new)
           d   == io[Block(b)]
<1>0. LatestOperation(b) = o
  BY LatestIsNewest
<1>1. /\ was \in Buffers /\ d \in Data /\ d # None /\ Sound(was, old, new, d)
      /\ old \in OperationsOf(b) /\ new \in OperationsOf(b)
  BY DataFacts DEF BlockTypes
<1>2. o \in OperationsOf(b)
  BY <1>1 DEF Newest
<1>3. /\ o.bits \in {"change", "empty", "delete", "none"}
      /\ o.bits = "none" <=> o = NoOperation
      /\ o.bits \in {"change", "empty"} => o.data \in Data /\ o.data # None
  BY <1>2, OperationFacts, DataFacts DEF OperationsOf
<1>4. cb = IF was.latest # None THEN was ELSE ApplyOperation(b)
  BY DEF ReadCacheBuffer
<1>5. /\ was.original # None => ReadOriginal(b) = was
      /\ was.original = None /\ o = NoOperation =>
           ReadOriginal(b) = [was EXCEPT !.original = d, !.shared = TRUE, !.latest = d]
      /\ was.original = None /\ o # NoOperation =>
           ReadOriginal(b) = [was EXCEPT !.original = d, !.shared = FALSE, !.latest = was.latest]
  <2>1. CASE LatestOperation(b) = NoOperation
    <3>1. (LatestOperation(b) = NoOperation) = TRUE
      BY <2>1
    <3> QED
      BY <1>0, <2>1, <3>1 DEF ReadOriginal
  <2>2. CASE LatestOperation(b) # NoOperation
    <3>1. (LatestOperation(b) = NoOperation) = FALSE
      BY <2>2
    <3> QED
      BY <1>0, <2>2, <3>1 DEF ReadOriginal
  <2> QED
    BY <2>1, <2>2
<1>6. ApplyOperation(b) =
        CASE o = NoOperation   -> ReadOriginal(b)
          [] o.bits = "empty"  -> [was EXCEPT !.latest = o.data, !.empty = TRUE]
          [] OTHER             -> [SaveOriginal(ReadOriginal(b)) EXCEPT !.latest = Uncompress(o, @)]
  BY <1>0 DEF ApplyOperation
<1> SUFFICES ReadOK(was, cb, old, new, d)
  OBVIOUS
<1> HIDE DEF was, cb, old, new, o, d
<1>7. CASE was.latest # None
  BY <1>1, <1>4, <1>7 DEF ReadOK, Shown
<1>8. CASE was.latest = None
  <2>1. was.empty = FALSE /\ was.shared = FALSE
    BY <1>1, <1>8 DEF Sound, Buffers
  <2>2. CASE o = NoOperation
    <3>1. was.original = None
      BY <1>1, <2>1, <2>2 DEF Sound, o
    <3>2. cb = [was EXCEPT !.original = d, !.shared = TRUE, !.latest = d]
      BY <1>3, <1>4, <1>5, <1>6, <1>8, <2>2, <3>1, Zenon
    <3>3. Is(cb, d, d, TRUE, FALSE)
      BY <1>1, <3>2, <2>1, BufferFields
    <3>4. old.bits \in Unchanged /\ new.bits \in Unchanged
      BY <2>2, NoOperationFacts DEF Newest, Unchanged, NoOperation, o
    <3> QED
      BY <1>1, <1>8, <2>2, <3>3, <3>4
      DEF Is, ReadOK, Buffers, Sound, Shown, Uncompress, NoOperation, o
  <2>3. CASE o.bits = "empty"
    <3>1. cb = [was EXCEPT !.latest = o.data, !.empty = TRUE]
      BY <1>3, <1>4, <1>6, <1>8, <2>3
    <3>2. Is(cb, was.original, o.data, FALSE, TRUE)
      BY <1>1, <1>3, <2>1, <2>3, <3>1, BufferFields
    <3>3. cb.latest = Uncompress(o, d)
      BY <2>3, <3>2 DEF Uncompress, Is
    <3>4. o # NoOperation
      BY <1>3, <2>3
    <3> QED
      BY <1>1, <1>3, <1>8, <2>3, <3>2, <3>3, <3>4 DEF Is, ReadOK, Buffers, Sound, Shown, o
  <2>4. CASE o # NoOperation /\ o.bits # "empty"
    <3> DEFINE ro   == ReadOriginal(b)
               so   == SaveOriginal(ro)
               data == Uncompress(o, d)
    <3>1. data \in Data /\ data # None
      BY <1>1, <1>3 DEF Uncompress
    <3>2. Is(ro, d, None, FALSE, FALSE)
      <4>1. CASE was.original = None
        <5>1. ro = [was EXCEPT !.original = d, !.shared = FALSE, !.latest = was.latest]
          BY <1>5, <2>4, <4>1, Zenon
        <5> QED
          BY <1>1, <1>8, <2>1, <5>1, BufferFields
      <4>2. CASE was.original # None
        BY <1>1, <1>5, <1>8, <2>1, <4>2 DEF Sound, Is
      <4> QED
        BY <4>1, <4>2
    <3>3. cb = [so EXCEPT !.latest = Uncompress(o, so.latest)]
      BY <1>4, <1>6, <1>8, <2>4
    <3>4. Is(so, d, d, FALSE, FALSE)
      <4> HIDE DEF ro
      <4> QED
        BY <3>2, SaveFields DEF Is
    <3> HIDE DEF so
    <3>5. so \in Buffers /\ so.latest = d
      BY <3>4 DEF Is
    <3>6. Is([so EXCEPT !.latest = data], so.original, data, so.shared, so.empty)
      BY <3>1, <3>5, BufferFields
    <3>7. Is(cb, d, data, FALSE, FALSE)
      BY <3>3, <3>4, <3>5, <3>6 DEF Is
    <3>8. cb.latest = Uncompress(o, d)
      BY <3>7 DEF Is
    <3> HIDE DEF data
    <3> QED
      BY <1>1, <1>3, <1>8, <2>4, <3>1, <3>7, <3>8 DEF Is, ReadOK, Buffers, Sound, Shown, o
  <2> QED
    BY <2>2, <2>3, <2>4
<1> QED
  BY <1>7, <1>8
(* preparecachebuffer() gives a buffer of its own for the latest version.  *)
LEMMA PrepareFacts ==
  ASSUME NEW cb \in Buffers, NEW old, NEW new, NEW d,
         Sound(cb, old, new, d), cb.latest # None
  PROVE  Is(Prepare(cb), cb.original, cb.latest, FALSE, cb.empty)
<1>1. CASE cb.shared
  <2>1. Prepare(cb) = SaveOriginal(cb) /\ cb.original = cb.latest
    BY <1>1 DEF Prepare, Sound
  <2> QED
    BY <2>1, SaveFields DEF Is
<1>2. CASE ~cb.shared
  <2>1. Prepare(cb) = cb /\ cb.shared = FALSE
    BY <1>2 DEF Prepare, Buffers
  <2> QED
    BY <2>1 DEF Is
<1> QED
  BY <1>1, <1>2

(* Reading a block in use leaves it as it should be.                       *)
LEMMA ReadKeeps ==
  ASSUME NEW b \in AdminBlocks, NEW was \in Buffers, NEW old \in OperationsOf(b),
         NEW new \in OperationsOf(b), NEW d \in DataOf(b), NEW before \in BOOLEAN, NEW t, NEW now, b \in now,
         BlockOK(was, old, new, d, b \in now, before, t), t # "failed",
         NEW cb, ReadOK(was, cb, old, new, d)
  PROVE  /\ BlockOK(cb, old, new, d, b \in now, before, t)
         /\ Right(cb, Newest(old, new), d)
         /\ Shown(cb) = Uncompress(Newest(old, new), d)
<1> DEFINE o == Newest(old, new)
<1>1. Right(was, o, d) /\ Sound(was, old, new, d) /\ Sound(cb, old, new, d)
  BY DEF BlockOK, ReadOK
<1>2. o = new \/ o = old
  BY DEF Newest
<1>3. new = NoOperation => o = old
  BY DEF Newest
<1>4. \A a \in {old, new} : a.bits = "none" <=> a = NoOperation
  BY OperationFacts
<1>5. new.bits # "delete"
  BY DEF BlockOK
<1> HIDE DEF o
<1>6. CASE cb = was
  <2>1. cb.latest # None /\ Shown(cb) = cb.latest
    BY DEF ReadOK
  <2> QED
    BY <1>1, <1>6, <2>1 DEF Right, o
<1>7. CASE was.latest = None
  <2>1. Right(cb, o, d)
    BY <1>1, <1>7 DEF ReadOK, Right, o
  <2>2. cb.empty /\ cb.original # None =>
          o.bits = "empty" /\ was.original # None /\ ~was.shared
    BY <1>1, <1>7 DEF ReadOK, Sound, o
  <2>3. t # "freed" => Revertible(cb, old, new)
    <3>1. t # "freed" /\ cb.empty /\ cb.original # None => old # NoOperation
      BY <1>2, <1>4, <2>2 DEF BlockOK, Revertible
    <3>2. cb.original # None /\ new.bits = "empty" /\ ~cb.shared => was.original # None /\ ~was.shared
      <4>1. new.bits = "empty" => o = new
        BY NoOperationFacts DEF Newest, NoOperation, o
      <4> QED
        BY <1>1, <1>7, <4>1 DEF ReadOK, Sound, o
    <3> QED
      BY <1>5, <3>1, <3>2 DEF BlockOK, Revertible
  <2>4. t # "freed" /\ before => Restorable(cb, old, new, d)
    <3>1. SUFFICES ASSUME t # "freed", before
                   PROVE  Restorable(cb, old, new, d)
      OBVIOUS
    <3>2. new.bits = "empty" => old.bits = "empty"
      BY <3>1 DEF BlockOK, Restorable
    <3>3. cb.empty => old.bits = "empty"
      BY <1>2, <2>1, <3>2 DEF Right
    <3>4. new.bits \in Unchanged => new = NoOperation
      BY <1>4, <1>5 DEF Unchanged
    <3> QED
      BY <1>3, <2>1, <3>2, <3>3, <3>4 DEF Restorable, Right
  <2> QED
    BY <1>1, <2>1, <2>3, <2>4 DEF BlockOK, ReadOK, Right, o
<1> QED
  BY <1>6, <1>7 DEF ReadOK

(* A block in use that has been read, is prepared, given new data and      *)
(* stored.                                                                 *)
Changed(cb, x, data) ==
  /\ x \in Buffers
  /\ x.original = cb.original /\ x.latest = data /\ x.shared = FALSE /\ x.empty = cb.empty

LEMMA StoreFacts ==
  ASSUME NEW b \in AdminBlocks, NEW cb \in Buffers, NEW old \in OperationsOf(b),
         NEW new \in OperationsOf(b), NEW d \in DataOf(b), NEW before \in BOOLEAN, NEW t, NEW now, b \in now,
         BlockOK(cb, old, new, d, b \in now, before, t), t # "failed", cb.latest # None,
         NEW data \in DataOf(b), NEW x, Changed(cb, x, data)
  PROVE  /\ BlockOK(x, old, Store(x), d, b \in now, before, t)
         /\ Store(x) \in OperationsOf(b)
         /\ Uncompress(Store(x), d) = data
<1>1. data \in Data /\ data # None /\ x \in Buffers
  BY DataFacts DEF Changed
<1>2. Store(x) = [bits |-> IF x.empty THEN "empty" ELSE "change", data |-> data]
  BY DEF Store, Changed
<1>3. Store(x).bits = (IF x.empty THEN "empty" ELSE "change") /\ Store(x).data = data
  BY <1>2
<1>4. Store(x) \in Operation /\ Store(x) # NoOperation /\ Store(x).bits \in {"empty", "change"}
  BY <1>1, <1>2, <1>3, NoOperationFacts DEF Operation
<1>5. Uncompress(Store(x), d) = data /\ Store(x) \in OperationsOf(b)
  BY <1>3, <1>4 DEF Uncompress, OperationsOf
<1>6. Newest(old, Store(x)) = Store(x)
  BY <1>4 DEF Newest
<1>7. Sound(x, old, Store(x), d)
  BY <1>1, <1>4, <1>6 DEF BlockOK, Sound, Changed
<1>8. Right(x, Store(x), d)
  BY <1>1, <1>3, <1>4, <1>5 DEF Right, Changed
<1>9. t # "freed" => Revertible(x, old, Store(x))
  BY <1>3 DEF BlockOK, Revertible, Changed
<1>10. t # "freed" /\ before => Restorable(x, old, Store(x), d)
  BY <1>3, <1>4 DEF BlockOK, Restorable, Changed, Unchanged
<1> QED
  BY <1>4, <1>5, <1>6, <1>7, <1>8, <1>9, <1>10 DEF BlockOK
(* newcachebuffer() on a block that is not in use: the buffer counts as    *)
(* empty unless there was a latest version.                                *)
NewBuffer(was, x, data) ==
  /\ x \in Buffers
  /\ x.original = was.original /\ x.latest = data /\ x.shared = FALSE
  /\ x.empty <=> was.latest = None \/ was.empty
LEMMA NewFields ==
  ASSUME NEW b \in AdminBlocks, cache[b] \in Buffers, NEW old, NEW new, NEW d,
         Sound(cache[b], old, new, d)
  PROVE  NewBuffer(cache[b], NewCacheBuffer(b), Cleared)
<1> DEFINE was == cache[b]
<1>1. Cleared \in Data \cup {None}
  BY DataFacts
<1>2. CASE was.latest # None
  <2> DEFINE p == Prepare(was)
  <2>1. Is(p, was.original, was.latest, FALSE, was.empty)
    BY <1>2, PrepareFacts
  <2>2. NewCacheBuffer(b) = [p EXCEPT !.latest = Cleared]
    BY <1>2 DEF NewCacheBuffer
  <2> HIDE DEF p
  <2>3. Is([p EXCEPT !.latest = Cleared], p.original, Cleared, p.shared, p.empty)
    <3>1. p \in Buffers
      BY <2>1 DEF Is
    <3> QED
      BY <1>1, <3>1, BufferFields
  <2> QED
    BY <1>2, <2>1, <2>2, <2>3 DEF Is, NewBuffer
<1>3. CASE was.latest = None
  <2>1. NewCacheBuffer(b) = [was EXCEPT !.latest = Cleared, !.empty = TRUE]
    BY <1>3 DEF NewCacheBuffer
  <2>2. was.shared = FALSE
    BY <1>3 DEF Sound, Buffers
  <2>3. Is(NewCacheBuffer(b), was.original, Cleared, FALSE, TRUE)
    BY <1>1, <1>3, <2>1, <2>2, BufferFields
  <2> QED
    BY <1>3, <2>3 DEF Is, NewBuffer
<1> QED
  BY <1>2, <1>3

LEMMA NewFacts ==
  ASSUME NEW b \in AdminBlocks, NEW was, NEW old, NEW new \in OperationsOf(b),
         NEW d, NEW before, NEW t, NEW now, b \notin now,
         BlockOK(was, old, new, d, b \in now, before, t),
         NEW data, NEW x, NewBuffer(was, x, data)
  PROVE  /\ ~x.empty => x.original # None
         /\ t # "freed" => (x.empty /\ x.original # None => old # NoOperation)
         /\ new \in {NoOperation, FreeOperation}
         /\ new = NoOperation => ~before
<1>1. new \in {NoOperation, FreeOperation}
  BY OperationFacts DEF BlockOK, Unchanged
<1>2. ~x.empty => x.original # None
  BY DEF BlockOK, Sound, NewBuffer
<1>3. t # "freed" => (x.empty /\ x.original # None => old # NoOperation)
  <2>1. CASE was.latest # None
    BY <2>1 DEF BlockOK, Revertible, NewBuffer
  <2>2. CASE was.latest = None
    <3>1. was.original # None => ~was.shared
      BY <2>2 DEF BlockOK, Sound
    <3>2. was.original # None => Newest(old, new) # NoOperation
      BY <3>1 DEF BlockOK, Sound
    <3>3. CASE new = NoOperation
      BY <3>2, <3>3 DEF Newest, NewBuffer
    <3>4. CASE new = FreeOperation
      BY <3>1, <3>4, NoOperationFacts DEF BlockOK, Revertible, NewBuffer
    <3> QED
      BY <1>1, <3>3, <3>4
  <2> QED
    BY <2>1, <2>2
<1>4. new = NoOperation => ~before
  BY NoOperationFacts DEF BlockOK, NoOperation
<1> QED
  BY <1>1, <1>2, <1>3, <1>4

(* A block that is allocated, filled in and stored.                        *)
LEMMA AllocFacts ==
  ASSUME NEW b \in AdminBlocks, NEW was \in Buffers, NEW old \in OperationsOf(b),
         NEW new \in OperationsOf(b), NEW d \in DataOf(b), NEW before \in BOOLEAN, NEW t,
         NEW now, b \notin now, NEW later, b \in later,
         BlockOK(was, old, new, d, b \in now, before, t),
         NEW data \in DataOf(b), NEW x, NewBuffer(was, x, data), t # "failed"
  PROVE  /\ BlockOK(x, old, Store(x), d, b \in later, before, IF new = FreeOperation THEN "freed" ELSE t)
         /\ Store(x) \in OperationsOf(b)
<1>0. /\ ~x.empty => x.original # None
      /\ t # "freed" => (x.empty /\ x.original # None => old # NoOperation)
      /\ new \in {NoOperation, FreeOperation}
      /\ new = NoOperation => ~before
  BY NewFacts, Zenon
<1>1. data \in Data /\ data # None /\ x \in Buffers
  BY DataFacts DEF NewBuffer
<1>2. Store(x) = [bits |-> IF x.empty THEN "empty" ELSE "change", data |-> data]
  BY DEF Store, NewBuffer
<1>3. Store(x).bits = (IF x.empty THEN "empty" ELSE "change") /\ Store(x).data = data
  BY <1>2
<1>4. Store(x) \in Operation /\ Store(x) # NoOperation /\ Store(x).bits \in {"empty", "change"}
  BY <1>1, <1>2, <1>3, NoOperationFacts DEF Operation
<1>5. Uncompress(Store(x), d) = data /\ Store(x) \in OperationsOf(b)
  BY <1>3, <1>4 DEF Uncompress, OperationsOf
<1>6. Newest(old, Store(x)) = Store(x)
  BY <1>4 DEF Newest
<1>7. Sound(x, old, Store(x), d)
  BY <1>0, <1>1, <1>4, <1>6 DEF BlockOK, Sound, NewBuffer
<1>8. Right(x, Store(x), d)
  BY <1>0, <1>1, <1>3, <1>4, <1>5 DEF Right, NewBuffer
<1>9. t # "freed" => Revertible(x, old, Store(x))
  BY <1>0, <1>3 DEF Revertible, NewBuffer
<1>10. old.bits = "delete" => ~before
  BY DEF BlockOK
<1> QED
  BY <1>0, <1>4, <1>5, <1>6, <1>7, <1>8, <1>9, <1>10 DEF BlockOK

(* restorecachebuffer() on a buffer that is not shared.                    *)
LEMMA RestoreFields ==
  ASSUME NEW b \in AdminBlocks, NEW p \in Buffers, p.shared = FALSE, NEW o \in OperationsOf(b)
  PROVE  /\ o # NoOperation /\ (o.bits = "empty" \/ ~p.empty)
              => Is(Restore(p, o), p.original, Uncompress(o, p.original), FALSE, p.empty)
         /\ ~(o # NoOperation /\ (o.bits = "empty" \/ ~p.empty)) /\ p.empty
              => Is(Restore(p, o), p.original, Cleared, FALSE, TRUE)
         /\ o = NoOperation /\ ~p.empty
              => Is(Restore(p, o), p.original, p.original, TRUE, FALSE)
<1>1. CASE o # NoOperation /\ (o.bits = "empty" \/ ~p.empty)
  <2>1. Uncompress(o, p.original) \in Data \cup {None}
    BY OperationFacts DEF Operation, Uncompress, Buffers, NoOperation
  <2>2. Restore(p, o) = [p EXCEPT !.latest = Uncompress(o, p.original)]
    BY <1>1 DEF Restore
  <2> QED
    BY <1>1, <2>1, <2>2, BufferFields
<1>2. CASE ~(o # NoOperation /\ (o.bits = "empty" \/ ~p.empty)) /\ p.empty
  <2>1. Restore(p, o) = [p EXCEPT !.latest = Cleared]
    BY <1>2 DEF Restore
  <2>2. p.empty = TRUE /\ Cleared \in Data \cup {None}
    BY <1>2, DataFacts DEF Buffers
  <2> QED
    BY <1>2, <2>1, <2>2, BufferFields
<1>3. CASE o = NoOperation /\ ~p.empty
  <2>1. Restore(p, o) = [p EXCEPT !.latest = p.original, !.shared = TRUE]
    BY <1>3 DEF Restore
  <2>2. p.empty = FALSE /\ p.original \in Data \cup {None}
    BY <1>3 DEF Buffers
  <2> QED
    BY <1>3, <2>1, <2>2, BufferFields
<1> QED
  BY <1>1, <1>2, <1>3
(* A block that is allocated and cannot be stored.                         *)
LEMMA AllocFailsFacts ==
  ASSUME NEW b \in AdminBlocks, NEW was, NEW old \in OperationsOf(b),
         NEW new \in OperationsOf(b), NEW d, NEW before \in BOOLEAN, NEW t,
         NEW now, b \notin now, NEW later, b \in later,
         BlockOK(was, old, new, d, b \in now, before, t), NEW data, NEW p, NewBuffer(was, p, data)
  PROVE  data = Cleared /\ t = "none" /\ new = NoOperation
           => /\ Restore(p, old) \in Buffers
              /\ BlockOK(Restore(p, old), old, new, d, b \in later, before, "failed")
<1>0. /\ ~p.empty => p.original # None
      /\ t # "freed" => (p.empty /\ p.original # None => old # NoOperation)
      /\ new \in {NoOperation, FreeOperation}
      /\ new = NoOperation => ~before
  BY NewFacts
<1> DEFINE x == Restore(p, old)
<1> SUFFICES ASSUME data = Cleared, t = "none", new = NoOperation
             PROVE  x \in Buffers /\ BlockOK(x, old, new, d, b \in later, before, "failed")
  OBVIOUS
<1>1. /\ ~p.empty => p.original # None
      /\ p.empty /\ p.original # None => old # NoOperation
      /\ ~before
  BY <1>0
<1>2. p \in Buffers /\ p.shared = FALSE /\ p.original = was.original
  BY DEF NewBuffer
<1>3. p.original # None => p.original = d
  BY <1>2 DEF BlockOK, Sound
<1>4. old.bits = "none" <=> old = NoOperation
  BY OperationFacts
<1>5. new.bits = "none" /\ Newest(old, new) = old
  BY DEF NoOperation, Newest
<1>6. SUFFICES x \in Buffers /\ Sound(x, old, new, d) /\ Revertible(x, old, new)
  BY <1>1, <1>5 DEF BlockOK
<1>7. CASE old # NoOperation /\ (old.bits = "empty" \/ ~p.empty)
  <2>1. Is(x, p.original, Uncompress(old, p.original), FALSE, p.empty)
    BY <1>2, <1>7, RestoreFields, Zenon
  <2>2. old.bits = "empty" => old.data # None
    BY DataFacts DEF OperationsOf, NoOperation
  <2> QED
    BY <1>1, <1>2, <1>3, <1>5, <1>7, <2>1, <2>2 DEF Is, Sound, Revertible, Uncompress
<1>8. CASE ~(old # NoOperation /\ (old.bits = "empty" \/ ~p.empty)) /\ p.empty
  <2>1. Is(x, p.original, Cleared, FALSE, TRUE)
    BY <1>2, <1>8, RestoreFields, Zenon
  <2> QED
    BY <1>1, <1>3, <1>5, <1>8, <2>1, DataFacts DEF Is, Sound, Revertible
<1>9. CASE old = NoOperation /\ ~p.empty
  <2>1. Is(x, p.original, p.original, TRUE, FALSE)
    BY <1>2, <1>9, RestoreFields, Zenon
  <2> QED
    BY <1>1, <1>3, <1>4, <1>5, <1>9, <2>1 DEF Is, Sound, Revertible, Unchanged
<1> QED
  BY <1>7, <1>8, <1>9

(* A block in use that is read and prepared and cannot be stored.          *)
LEMMA ChangeFailsFacts ==
  ASSUME NEW b \in AdminBlocks, NEW cb \in Buffers, cb.latest # None,
         NEW old \in OperationsOf(b), NEW new \in OperationsOf(b), NEW d, NEW before, NEW now, b \in now,
         BlockOK(cb, old, new, d, b \in now, before, "none"),
         NEW x, x = Restore(Prepare(cb), Newest(old, new))
  PROVE  x \in Buffers /\ BlockOK(x, old, new, d, b \in now, before, "failed")
<1> DEFINE o == Newest(old, new)
           p == Prepare(cb)
<1>1. /\ Sound(cb, old, new, d) /\ Right(cb, o, d) /\ Revertible(cb, old, new)
      /\ before => Restorable(cb, old, new, d)
      /\ new.bits # "delete" /\ (old.bits = "delete" => ~before)
  BY DEF BlockOK
<1>2. Is(p, cb.original, cb.latest, FALSE, cb.empty)
  BY <1>1, PrepareFacts
<1>3. o \in OperationsOf(b) /\ (o.bits = "none" <=> o = NoOperation) /\ (o = old \/ o = new)
  BY OperationFacts DEF Newest
<1>4. x = Restore(p, o)
  OBVIOUS
<1>5. new.bits = "none" <=> new = NoOperation
  BY OperationFacts
<1>6. o = NoOperation => old = NoOperation /\ new = NoOperation
  BY DEF Newest
<1>7. o.bits \in {"change", "empty", "none"}
  BY <1>1, <1>3, OperationFacts DEF Right
<1> HIDE DEF o, p
<1>8. SUFFICES /\ x \in Buffers /\ Sound(x, old, new, d) /\ Right(x, o, d)
               /\ Revertible(x, old, new) /\ (before => Restorable(x, old, new, d))
  BY <1>1 DEF BlockOK, o
<1>9. CASE o # NoOperation
  <2>1. o.bits = "empty" \/ ~p.empty
    BY <1>1, <1>2 DEF Is, Right
  <2>2. Is(x, p.original, Uncompress(o, p.original), FALSE, p.empty)
    <3>1. p \in Buffers /\ p.shared = FALSE
      BY <1>2 DEF Is
    <3> QED
      BY <1>3, <1>4, <1>9, <2>1, <3>1, RestoreFields, Zenon
  <2>3. Uncompress(o, p.original) = cb.latest
    BY <1>1, <1>3, <1>7, <1>9 DEF Right, Uncompress
  <2>4. ~cb.shared
    BY <1>1, <1>3, <1>5, <1>9 DEF Sound, Unchanged, Right
  <2>5. Is(x, cb.original, cb.latest, FALSE, cb.empty)
    BY <1>2, <2>2, <2>3 DEF Is
  <2> QED
    BY <1>1, <2>4, <2>5 DEF Is, Sound, Right, Revertible, Restorable
<1>10. CASE o = NoOperation
  <2>1. ~cb.empty /\ p.empty = FALSE
    BY <1>1, <1>2, <1>3, <1>10 DEF Right, Is, Buffers
  <2>2. Is(x, p.original, p.original, TRUE, FALSE)
    <3>1. p \in Buffers /\ p.shared = FALSE /\ ~p.empty
      BY <1>2, <2>1 DEF Is
    <3> QED
      BY <1>3, <1>4, <1>10, <3>1, RestoreFields, Zenon
  <2>3. cb.original # None /\ cb.original = d
    BY <1>1, <2>1 DEF Sound
  <2>4. Is(x, d, d, TRUE, FALSE)
    BY <1>2, <2>2, <2>3 DEF Is
  <2>5. Uncompress(NoOperation, d) = d
    BY DEF Uncompress, NoOperation
  <2> QED
    BY <1>1, <1>3, <1>6, <1>10, <2>3, <2>4, <2>5, NoOperationFacts
    DEF Is, Sound, Right, Revertible, Restorable, Unchanged, NoOperation
<1> QED
  BY <1>9, <1>10
---------------------------------------------------------------------------
(* The end of a transaction, for one block *)

(* A committed transaction: one level of operations remains.               *)
LEMMA EndFacts ==
  ASSUME NEW b \in AdminBlocks, BlockTypes(b), NEW used \in BOOLEAN, NEW before \in BOOLEAN,
         NEW t, BlockOK(cache[b], ops[0][b], ops[1][b], io[Block(b)], used, before, t),
         t # "failed"
  PROVE  /\ Discard(b) \in Buffers /\ Combine(b) \in OperationsOf(b)
         /\ BlockOK(Discard(b), Combine(b), NoOperation, io[Block(b)], used, used, "none")
         /\ used => Combine(b) = LatestOperation(b)
<1> DEFINE was == cache[b]
           old == ops[0][b]
           new == ops[1][b]
           d   == io[Block(b)]
           o   == Newest(old, new)
           op  == Combine(b)
           cb  == Discard(b)
<1>1. LatestOperation(b) = o
  BY LatestIsNewest
<1>2. was \in Buffers /\ old \in OperationsOf(b) /\ new \in OperationsOf(b) /\ d \in Data
  BY DEF BlockTypes
<1>3. /\ (old.bits = "none" <=> old = NoOperation)
      /\ (new.bits = "none" <=> new = NoOperation)
      /\ NoOperation.bits = "none" /\ NoOperation \in OperationsOf(b)
  BY <1>2, OperationFacts, NoOperationFacts DEF OperationsOf
<1>4. op = IF new = NoOperation THEN old
           ELSE IF old # NoOperation /\ new.bits = "delete" THEN NoOperation ELSE new
  BY DEF Combine
<1>5. /\ ~(new.bits = "delete" /\ old # NoOperation) => cb = was
      /\ new.bits = "delete" /\ old # NoOperation /\ (was.shared \/ was.original = None)
           => cb = NoBuffers
      /\ new.bits = "delete" /\ old # NoOperation /\ ~was.shared /\ was.original # None
           => cb = [was EXCEPT !.latest = was.original, !.shared = TRUE, !.empty = FALSE]
  BY DEF Discard
<1>6. BlockOK(was, old, new, d, used, before, t)
  OBVIOUS
<1>7. SUFFICES /\ cb \in Buffers /\ op \in OperationsOf(b)
               /\ BlockOK(cb, op, NoOperation, d, used, used, "none")
               /\ used => op = o
  BY <1>1
<1>8. Newest(op, NoOperation) = op
  BY DEF Newest
<1> HIDE DEF was, old, new, d, op, cb
<1>9. op \in OperationsOf(b)
  BY <1>2, <1>3, <1>4
<1>10. CASE new.bits = "delete" /\ old # NoOperation
  <2>1. ~used /\ op = NoOperation
    BY <1>3, <1>4, <1>6, <1>10 DEF BlockOK
  <2>2. CASE was.shared \/ was.original = None
    <3>1. Is(cb, None, None, FALSE, FALSE)
      BY <1>5, <1>10, <2>2, NoBuffersFacts
    <3> QED
      BY <1>3, <1>8, <1>9, <2>1, <3>1 DEF Is, BlockOK, Sound, Revertible, Unchanged
  <2>3. CASE ~was.shared /\ was.original # None
    <3>1. was.original = d
      BY <1>6, <2>3 DEF BlockOK, Sound
    <3>2. Is(cb, d, d, TRUE, FALSE)
      BY <1>2, <1>5, <1>10, <2>3, <3>1, BufferFields
    <3> QED
      BY <1>3, <1>8, <1>9, <2>1, <2>3, <3>1, <3>2 DEF Is, BlockOK, Sound, Revertible, Unchanged
  <2> QED
    BY <2>2, <2>3
<1>11. CASE ~(new.bits = "delete" /\ old # NoOperation)
  <2>1. cb = was /\ op = o
    BY <1>3, <1>4, <1>5, <1>11 DEF Newest, o
  <2> HIDE DEF o
  <2>2. Newest(old, new) = o /\ (o = old \/ o = new)
    BY DEF Newest, o
  <2>3. used => Right(was, o, d)
    BY <1>6, <2>2 DEF BlockOK
  <2>4. Sound(was, o, NoOperation, d)
    BY <1>3, <1>6, <1>8, <2>1, <2>2 DEF BlockOK, Sound, Unchanged
  <2>5. Revertible(was, o, NoOperation)
    <3>1. was.empty /\ was.original # None => o # NoOperation
      BY <1>6, <2>2 DEF BlockOK, Sound
    <3> QED
      BY <1>3, <3>1 DEF Revertible
  <2>6. used => Restorable(was, o, NoOperation, d)
    BY <1>3, <2>3 DEF Right, Restorable
  <2>7. o.bits = "delete" => ~used
    BY <2>3 DEF Right
  <2> QED
    BY <1>2, <1>3, <1>8, <1>9, <2>1, <2>3, <2>4, <2>5, <2>6, <2>7 DEF BlockOK, Unchanged
<1> QED
  BY <1>10, <1>11

(* A transaction that is given up: the older operation is the latest again. *)
LEMMA RevertFacts ==
  ASSUME NEW b \in AdminBlocks, BlockTypes(b), NEW used \in BOOLEAN, NEW before \in BOOLEAN,
         NEW t, BlockOK(cache[b], ops[0][b], ops[1][b], io[Block(b)], used, before, t),
         t # "freed"
  PROVE  /\ Revert(b) \in Buffers
         /\ BlockOK(Revert(b), ops[0][b], NoOperation, io[Block(b)], before, before, "none")
<1> DEFINE was == cache[b]
           old == ops[0][b]
           new == ops[1][b]
           d   == io[Block(b)]
           cb  == Revert(b)
<1>1. was \in Buffers /\ old \in OperationsOf(b) /\ new \in OperationsOf(b) /\ d \in Data /\ d # None
  BY DataFacts DEF BlockTypes
<1>2. /\ (old.bits = "none" <=> old = NoOperation)
      /\ (new.bits = "none" <=> new = NoOperation)
      /\ NoOperation.bits = "none"
      /\ old.bits \in {"empty", "change"} => old.data # None
      /\ old.bits \in {"change", "empty", "delete", "none"}
      /\ new.bits \in {"change", "empty", "delete", "none"}
  BY <1>1, OperationFacts, NoOperationFacts, DataFacts DEF OperationsOf
<1>3. /\ new.bits \in {"none", "delete"} => cb = was
      /\ new.bits \notin {"none", "delete"} /\ was.latest # None => cb = Restore(was, old)
      /\ new.bits \notin {"none", "delete"} /\ was.latest = None
           /\ was.original # None /\ old = NoOperation
           => cb = [was EXCEPT !.latest = was.original, !.shared = TRUE]
      /\ new.bits \notin {"none", "delete"} /\ was.latest = None
           /\ ~(was.original # None /\ old = NoOperation)
           => cb = was
  BY DEF Revert
<1>4. BlockOK(was, old, new, d, used, before, t)
  OBVIOUS
<1> SUFFICES cb \in Buffers /\ BlockOK(cb, old, NoOperation, d, before, before, "none")
  OBVIOUS
<1>5. Newest(old, NoOperation) = old
  BY DEF Newest
<1> HIDE DEF was, old, new, d, cb
<1>6. /\ Sound(was, old, new, d) /\ Revertible(was, old, new)
      /\ before => Restorable(was, old, new, d)
      /\ old.bits = "delete" => ~before
  BY <1>4 DEF BlockOK
<1>7. SUFFICES /\ cb \in Buffers /\ Sound(cb, old, NoOperation, d)
               /\ Revertible(cb, old, NoOperation)
               /\ before => /\ cb.latest # None => cb.latest = Uncompress(old, d)
                            /\ cb.empty => old.bits = "empty"
  BY <1>2, <1>5, <1>6 DEF BlockOK, Right, Restorable, Unchanged
<1>8. CASE new.bits \in {"none", "delete"}
  <2>1. was.original # None /\ ~was.shared => old # NoOperation
    BY <1>2, <1>6, <1>8 DEF Sound, Revertible, Newest
  <2>2. Sound(was, old, NoOperation, d)
    BY <1>2, <1>5, <1>6, <2>1 DEF Sound, Unchanged
  <2> QED
    BY <1>1, <1>2, <1>3, <1>6, <1>8, <2>2 DEF Revertible, Restorable, Unchanged
<1>9. CASE new.bits \notin {"none", "delete"} /\ was.latest # None
  <2>1. was.shared = FALSE
    BY <1>1, <1>6, <1>9 DEF Sound, Unchanged, Buffers
  <2>2. cb = Restore(was, old)
    BY <1>3, <1>9
  <2>3. CASE old # NoOperation /\ (old.bits = "empty" \/ ~was.empty)
    <3>1. Is(cb, was.original, Uncompress(old, was.original), FALSE, was.empty)
      BY <1>1, <2>1, <2>2, <2>3, RestoreFields, Zenon
    <3>2. Uncompress(old, was.original) = None => ~was.empty
      BY <1>2, <2>3 DEF Uncompress
    <3>3. Sound(cb, old, NoOperation, d)
      BY <1>5, <1>6, <2>3, <3>1, <3>2, <1>9 DEF Is, Sound
    <3>4. before /\ cb.latest # None => cb.latest = Uncompress(old, d)
      BY <1>2, <1>6, <2>3, <3>1 DEF Is, Uncompress, Sound, Restorable
    <3> QED
      BY <1>2, <1>6, <3>1, <3>3, <3>4 DEF Is, Revertible, Restorable
  <2>4. CASE ~(old # NoOperation /\ (old.bits = "empty" \/ ~was.empty)) /\ was.empty
    <3>1. Is(cb, was.original, Cleared, FALSE, TRUE)
      BY <1>1, <2>1, <2>2, <2>4, RestoreFields, Zenon
    <3>2. ~before
      BY <1>2, <1>6, <2>4 DEF Restorable
    <3> QED
      BY <1>2, <1>5, <1>6, <2>4, <3>1, <3>2, DataFacts DEF Is, Sound, Revertible
  <2>5. CASE old = NoOperation /\ ~was.empty
    <3>1. Is(cb, was.original, was.original, TRUE, FALSE)
      BY <1>1, <2>1, <2>2, <2>5, RestoreFields, Zenon
    <3>2. was.original # None /\ was.original = d
      BY <1>6, <1>9, <2>1, <2>5 DEF Sound
    <3> QED
      BY <1>2, <1>5, <2>5, <3>1, <3>2 DEF Is, Sound, Revertible, Unchanged, Uncompress
  <2> QED
    BY <2>3, <2>4, <2>5
<1>10. CASE new.bits \notin {"none", "delete"} /\ was.latest = None
  <2>1. was.empty = FALSE /\ was.shared = FALSE
    BY <1>1, <1>6, <1>10 DEF Sound, Buffers
  <2>2. CASE was.original # None /\ old = NoOperation
    <3>1. cb = [was EXCEPT !.latest = was.original, !.shared = TRUE] /\ was.original = d
      BY <1>3, <1>6, <1>10, <2>2 DEF Sound
    <3>2. Is(cb, d, d, TRUE, FALSE)
      BY <1>1, <2>1, <3>1, BufferFields
    <3> QED
      BY <1>1, <1>2, <1>5, <2>2, <3>2 DEF Is, Sound, Revertible, Unchanged, Uncompress
  <2>3. CASE ~(was.original # None /\ old = NoOperation)
    <3>1. cb = was
      BY <1>3, <1>10, <2>3
    <3> QED
      BY <1>1, <1>2, <1>5, <1>6, <1>10, <2>1, <2>3, <3>1 DEF Sound, Revertible
  <2> QED
    BY <2>2, <2>3
<1> QED
  BY <1>8, <1>9, <1>10
---------------------------------------------------------------------------
(* The other steps on one block *)

(* freeadminspace() leaves the buffers of the block as they are.           *)
LEMMA FreeFacts ==
  ASSUME NEW b \in AdminBlocks, NEW was \in Buffers, NEW old \in OperationsOf(b),
         NEW new \in OperationsOf(b), NEW d, NEW before \in BOOLEAN, NEW t,
         NEW now, b \in now, NEW later, b \notin later,
         BlockOK(was, old, new, d, b \in now, before, t), t # "failed"
  PROVE  BlockOK(was, old, FreeOperation, d, b \in later, before,
                 IF new # NoOperation THEN "freed" ELSE t)
<1>1. FreeOperation.bits = "delete" /\ FreeOperation # NoOperation /\ NoOperation.bits = "none"
  BY NoOperationFacts DEF NoOperation
<1>2. Newest(old, FreeOperation) = FreeOperation /\ Newest(old, NoOperation) = old
  BY <1>1 DEF Newest
<1>3. Sound(was, old, FreeOperation, d)
  BY <1>1, <1>2 DEF BlockOK, Sound, Unchanged
<1>4. CASE new # NoOperation
  BY <1>1, <1>3, <1>4 DEF BlockOK, Unchanged
<1>5. CASE new = NoOperation
  <2>1. t # "freed" => Revertible(was, old, FreeOperation)
    BY <1>1, <1>2, <1>5 DEF BlockOK, Sound, Revertible
  <2>2. t # "freed" /\ before => Restorable(was, old, FreeOperation, d)
    BY <1>1, <1>5 DEF BlockOK, Restorable, Unchanged
  <2> QED
    BY <1>1, <1>3, <1>5, <2>1, <2>2 DEF BlockOK, Unchanged
<1> QED
  BY <1>4, <1>5

(* A block that a transaction in trouble has not touched.                  *)
LEMMA TroubleFacts ==
  ASSUME NEW cb, NEW old, NEW new, NEW d, NEW used, NEW before, NEW t,
         BlockOK(cb, old, new, d, used, before, t)
  PROVE  /\ t # "failed" => BlockOK(cb, old, new, d, used, before, "freed")
         /\ t = "none" => BlockOK(cb, old, new, d, used, before, "failed")
  BY DEF BlockOK

(* A buffer that is taken for another block.                               *)
LEMMA ReuseFacts ==
  ASSUME NEW was \in Buffers, NEW old, NEW new, NEW d, NEW used, NEW before, NEW t,
         BlockOK(was, old, new, d, used, before, t),
         NEW x, x = IF was.shared \/ was.latest = None THEN NoBuffers
                    ELSE [was EXCEPT !.latest = None, !.empty = FALSE]
  PROVE  x \in Buffers /\ BlockOK(x, old, new, d, used, before, t)
<1>1. CASE was.shared \/ was.latest = None
  <2>1. Is(x, None, None, FALSE, FALSE)
    BY <1>1, NoBuffersFacts
  <2> QED
    BY <2>1 DEF Is, BlockOK, Sound, Right, Revertible, Restorable
<1>2. CASE ~(was.shared \/ was.latest = None)
  <2>1. was.shared = FALSE
    BY <1>2 DEF Buffers
  <2>2. Is(x, was.original, None, FALSE, FALSE)
    BY <1>2, <2>1, BufferFields
  <2> QED
    BY <2>1, <2>2 DEF Is, BlockOK, Sound, Right, Revertible, Restorable
<1> QED
  BY <1>1, <1>2

(* writeoperations() on a block: the cache below gets what was read, and   *)
(* that is what the operation makes of the block, if it is in use.         *)
LEMMA WriteFacts ==
  ASSUME NEW b \in AdminBlocks, NEW was \in Buffers, NEW old \in OperationsOf(b),
         NEW d \in DataOf(b), NEW used \in BOOLEAN,
         BlockOK(was, old, NoOperation, d, used, used, "none"),
         NEW cb, ReadOK(was, cb, old, NoOperation, d),
         NEW x, x = IF cb.shared THEN NoBuffers
                    ELSE [original |-> Shown(cb), latest |-> Shown(cb),
                          shared |-> TRUE, empty |-> FALSE]
  PROVE  /\ x \in Buffers /\ Shown(cb) \in Data
         /\ BlockOK(x, NoOperation, NoOperation, Shown(cb), used, used, "none")
         /\ used => Shown(cb) = Uncompress(old, d)
<1>1. Newest(old, NoOperation) = old /\ Newest(NoOperation, NoOperation) = NoOperation
      /\ NoOperation.bits = "none"
  BY DEF Newest, NoOperation
<1>2. Shown(cb) = cb.latest /\ Shown(cb) \in Data /\ Shown(cb) # None
  BY DEF ReadOK, Buffers
<1>3. used => Shown(cb) = Uncompress(old, d)
  BY <1>1 DEF BlockOK, ReadOK, Right
<1>4. Uncompress(NoOperation, Shown(cb)) = Shown(cb)
  BY <1>1 DEF Uncompress
<1>5. CASE cb.shared
  <2>1. Is(x, None, None, FALSE, FALSE)
    BY <1>5, NoBuffersFacts
  <2> QED
    BY <1>1, <1>2, <1>3, <2>1
    DEF Is, BlockOK, Sound, Right, Revertible, Restorable, Unchanged
<1>6. CASE ~cb.shared
  <2>1. Is(x, Shown(cb), Shown(cb), TRUE, FALSE)
    BY <1>2, <1>6 DEF Is, Buffers
  <2> QED
    BY <1>1, <1>2, <1>3, <1>4, <2>1
    DEF Is, BlockOK, Sound, Right, Revertible, Restorable, Unchanged
<1> QED
  BY <1>5, <1>6

(* Buffers that are empty, after a crash.                                  *)
LEMMA EmptyFacts ==
  ASSUME NEW old, NEW d, NEW used \in BOOLEAN, old.bits # "delete"
  PROVE  BlockOK(NoBuffers, old, NoOperation, d, used, used, "none")
<1>1. Is(NoBuffers, None, None, FALSE, FALSE) /\ NoOperation.bits = "none"
  BY NoBuffersFacts DEF NoOperation
<1>2. Newest(old, NoOperation) = old
  BY DEF Newest
<1> QED
  BY <1>1, <1>2 DEF Is, BlockOK, Sound, Right, Revertible, Restorable, Unchanged
---------------------------------------------------------------------------
(* The container of the space, and steps in a transaction *)

LEMMA SpaceFacts ==
  ASSUME Types
  PROVE  /\ UsedNow \in Spaces /\ UsedBefore \in Spaces
         /\ UsedNow \subseteq AdminBlocks /\ UsedBefore \subseteq AdminBlocks
         /\ SpaceBlock \in UsedNow /\ SpaceBlock \in UsedBefore /\ SpaceBlock \in AdminBlocks
<1>1. SpaceBlock \in AdminBlocks /\ DataOf(SpaceBlock) = Spaces
  BY DataFacts DEF DataOf
<1>2. /\ io[Block(SpaceBlock)] \in DataOf(SpaceBlock)
      /\ ops[0][SpaceBlock] \in OperationsOf(SpaceBlock)
      /\ ops[1][SpaceBlock] \in OperationsOf(SpaceBlock)
  BY <1>1 DEF Types
<1>3. LatestOperation(SpaceBlock) \in OperationsOf(SpaceBlock)
  BY <1>2 DEF LatestOperation
<1>4. UsedNow \in Spaces /\ UsedBefore \in Spaces
  BY <1>1, <1>2, <1>3, OperationFacts DEF UsedNow, UsedBefore
<1> QED
  BY <1>1, <1>4, DataFacts

(* What a step on a block in use finds.                                    *)
LEMMA InUseFacts ==
  ASSUME Inv, trouble # "failed", NEW b \in UsedNow
  PROVE  LET r == ReadCacheBuffer(b)
         IN  /\ b \in AdminBlocks /\ r \in Buffers /\ r.latest # None
             /\ BlockOK(cache[b], ops[0][b], ops[1][b], io[Block(b)], b \in UsedNow, b \in UsedBefore, trouble)
             /\ ReadOK(cache[b], r, ops[0][b], ops[1][b], io[Block(b)])
             /\ BlockOK(r, ops[0][b], ops[1][b], io[Block(b)], b \in UsedNow, b \in UsedBefore, trouble)
             /\ Shown(r) = Uncompress(LatestOperation(b), io[Block(b)])
<1> DEFINE r == ReadCacheBuffer(b)
           before == b \in UsedBefore
<1>1. b \in AdminBlocks /\ BlockTypes(b)
  BY SpaceFacts, TypesOfBlock DEF Inv
<1>2. BlockInv(b)
  BY <1>1 DEF Inv
<1>3. BlockOK(cache[b], ops[0][b], ops[1][b], io[Block(b)], b \in UsedNow, before, trouble)
  BY <1>2 DEF BlockInv, BlockOK
<1>4. Sound(cache[b], ops[0][b], ops[1][b], io[Block(b)])
  BY <1>3 DEF BlockOK
<1>5. ReadOK(cache[b], r, ops[0][b], ops[1][b], io[Block(b)])
  BY <1>1, <1>4, ReadFacts
<1>6. r \in Buffers /\ r.latest # None
  BY <1>5 DEF ReadOK
<1>7. /\ BlockOK(r, ops[0][b], ops[1][b], io[Block(b)], b \in UsedNow, before, trouble)
      /\ Right(r, Newest(ops[0][b], ops[1][b]), io[Block(b)])
      /\ Shown(r) = Uncompress(Newest(ops[0][b], ops[1][b]), io[Block(b)])
  <2>1. /\ cache[b] \in Buffers /\ ops[0][b] \in OperationsOf(b) /\ ops[1][b] \in OperationsOf(b)
        /\ io[Block(b)] \in DataOf(b) /\ before \in BOOLEAN
    BY <1>1 DEF BlockTypes
  <2> DEFINE was == cache[b]
             old == ops[0][b]
             new == ops[1][b]
             d   == io[Block(b)]
  <2>2. /\ b \in AdminBlocks /\ was \in Buffers /\ old \in OperationsOf(b)
        /\ new \in OperationsOf(b) /\ d \in DataOf(b) /\ before \in BOOLEAN
        /\ BlockOK(was, old, new, d, b \in UsedNow, before, trouble) /\ trouble # "failed"
        /\ ReadOK(was, r, old, new, d)
    BY <1>1, <1>3, <1>5, <2>1
  <2> SUFFICES /\ BlockOK(r, old, new, d, b \in UsedNow, before, trouble)
               /\ Right(r, Newest(old, new), d)
               /\ Shown(r) = Uncompress(Newest(old, new), d)
    OBVIOUS
  <2> HIDE DEF r, before, was, old, new, d
  <2> QED
    BY <2>2, ReadKeeps
<1> QED
  BY <1>1, <1>3, <1>5, <1>6, <1>7, LatestIsNewest

LEMMA UsedFacts ==
  ASSUME Inv, trouble # "failed"
  PROVE  Used = UsedNow
  BY InUseFacts, SpaceFacts DEF Inv, Used, UsedNow

(* A block in use that is read, prepared, changed and stored.              *)
LEMMA StoreStep ==
  ASSUME Inv, trouble # "failed", NEW b \in UsedNow, NEW data \in DataOf(b), NEW x,
         x = [Prepare(ReadCacheBuffer(b)) EXCEPT !.latest = data]
  PROVE  /\ x \in Buffers /\ Store(x) \in OperationsOf(b)
         /\ BlockOK(x, ops[0][b], Store(x), io[Block(b)], b \in UsedNow, b \in UsedBefore, trouble)
         /\ Uncompress(Store(x), io[Block(b)]) = data
<1> DEFINE r == ReadCacheBuffer(b)
           p == Prepare(r)
           before == b \in UsedBefore
<1>1. /\ b \in AdminBlocks /\ r \in Buffers /\ r.latest # None
      /\ BlockOK(r, ops[0][b], ops[1][b], io[Block(b)], b \in UsedNow, before, trouble)
  BY InUseFacts
<1>2. Sound(r, ops[0][b], ops[1][b], io[Block(b)])
  BY <1>1 DEF BlockOK
<1>3. ops[0][b] \in OperationsOf(b) /\ ops[1][b] \in OperationsOf(b) /\ io[Block(b)] \in DataOf(b)
      /\ before \in BOOLEAN /\ data \in Data \cup {None}
  BY <1>1, DataFacts DEF Inv, Types
<1> DEFINE old == ops[0][b]
           new == ops[1][b]
           d   == io[Block(b)]
<1> HIDE DEF r, before
<1>4. Is(p, r.original, r.latest, FALSE, r.empty)
  BY <1>1, <1>2, PrepareFacts
<1> HIDE DEF p
<1>5. Is([p EXCEPT !.latest = data], p.original, data, p.shared, p.empty)
  <2>1. p \in Buffers
    BY <1>4 DEF Is
  <2> QED
    BY <1>3, <2>1, BufferFields
<1>6. Changed(r, x, data)
  <2>1. x = [p EXCEPT !.latest = data]
    BY DEF p, r
  <2> QED
    BY <1>4, <1>5, <2>1 DEF Is, Changed
<1>7. /\ BlockOK(x, old, Store(x), d, b \in UsedNow, before, trouble)
      /\ Store(x) \in OperationsOf(b)
      /\ Uncompress(Store(x), d) = data
  <2>1. /\ b \in AdminBlocks /\ r \in Buffers /\ old \in OperationsOf(b)
        /\ new \in OperationsOf(b) /\ d \in DataOf(b) /\ before \in BOOLEAN
        /\ BlockOK(r, old, new, d, b \in UsedNow, before, trouble) /\ trouble # "failed"
        /\ r.latest # None /\ data \in DataOf(b)
        /\ Changed(r, x, data)
    BY <1>1, <1>3, <1>6
  <2> HIDE DEF old, new, d
  <2> QED
    BY <2>1, StoreFacts
<1> QED
  BY <1>6, <1>7 DEF Changed, before
---------------------------------------------------------------------------
(* The steps of a transaction *)

LEMMA OperationsTyped ==
  ASSUME NEW f, NEW b \in AdminBlocks, NEW o \in OperationsOf(b),
         f \in [0 .. 1 -> [AdminBlocks -> Operation \cup {NoOperation}]]
  PROVE  /\ [f EXCEPT ![1][b] = o] \in [0 .. 1 -> [AdminBlocks -> Operation \cup {NoOperation}]]
         /\ [f EXCEPT ![1][b] = o][0] = f[0]
         /\ [f EXCEPT ![1][b] = o][1] = [f[1] EXCEPT ![b] = o]
  BY OperationFacts

(* A step that leaves the disk and the cache below alone.                  *)
LEMMA MemoryTypes ==
  ASSUME Types, UNCHANGED <<disk, io, phase>>,
         cache' \in [AdminBlocks -> Buffers],
         ops' \in [0 .. 1 -> [AdminBlocks -> Operation \cup {NoOperation}]],
         \A b \in AdminBlocks : ops'[0][b] \in OperationsOf(b) /\ ops'[1][b] \in OperationsOf(b),
         nest' \in 0 .. 1, trouble' \in {"none", "freed", "failed"}
  PROVE  Types'
  BY DEF Types, TypeOK

LEMMA IdleFlush ==
  ASSUME Flush, phase = "idle", UNCHANGED <<disk, io, phase>>
  PROVE  Flush'
  BY DEF Flush

LEMMA NotFailedStep ==
  ASSUME Inv, InTransaction
  PROVE  /\ trouble \in {"none", "freed"} /\ nest = 1 /\ phase = "idle"
         /\ UNCHANGED <<disk, io, phase>> /\ nest' = nest
         /\ Used = UsedNow /\ UsedNow \in Spaces /\ UsedNow \subseteq AdminBlocks
         /\ SpaceBlock \in UsedNow /\ SpaceBlock \in AdminBlocks
         /\ cache \in [AdminBlocks -> Buffers]
         /\ ops \in [0 .. 1 -> [AdminBlocks -> Operation \cup {NoOperation}]]
         /\ \A b \in AdminBlocks : ops[0][b] \in OperationsOf(b) /\ ops[1][b] \in OperationsOf(b)
  BY UsedFacts, SpaceFacts DEF Inv, Types, TypeOK, Nesting, InTransaction

(* The blocks in use, after a step that stores the container or does not.  *)
LEMMA UsedStep ==
  ASSUME UNCHANGED io, ops'[0][SpaceBlock] = ops[0][SpaceBlock]
  PROVE  /\ UsedBefore' = UsedBefore
         /\ ops'[1][SpaceBlock] = ops[1][SpaceBlock] => UsedNow' = UsedNow
         /\ ops'[1][SpaceBlock] # NoOperation
              => UsedNow' = Uncompress(ops'[1][SpaceBlock], io[Block(SpaceBlock)])
  BY DEF UsedNow, UsedBefore, LatestOperation

(* A block that a step leaves alone.                                       *)
LEMMA OtherBlock ==
  ASSUME NEW c \in AdminBlocks, BlockInv(c), UNCHANGED io,
         cache'[c] = cache[c], ops'[0][c] = ops[0][c], ops'[1][c] = ops[1][c],
         c \in UsedNow' <=> c \in UsedNow, UsedBefore' = UsedBefore,
         \/ trouble' = trouble
         \/ trouble # "failed" /\ trouble' = "freed"
         \/ trouble = "none" /\ trouble' = "failed"
  PROVE  BlockInv(c)'
<1>1. CASE trouble' = trouble
  BY <1>1 DEF BlockInv, BlockOK
<1>2. CASE trouble # "failed" /\ trouble' = "freed"
  BY <1>2 DEF BlockInv, BlockOK
<1>3. CASE trouble = "none" /\ trouble' = "failed"
  BY <1>3 DEF BlockInv, BlockOK
<1> QED
  BY <1>1, <1>2, <1>3

LEMMA ChangeBlockInv ==
  ASSUME Inv, NEW b \in AdminBlocks, NEW data \in Contents, ChangeBlock(b, data)
  PROVE  Inv'
<1> DEFINE x == [Prepare(ReadCacheBuffer(b)) EXCEPT !.latest = data]
<1>1. /\ InTransaction /\ b \in Used \ {SpaceBlock} /\ trouble' = trouble
      /\ cache' = [cache EXCEPT ![b] = x]
      /\ ops' = [ops EXCEPT ![1][b] = Store(x)]
  BY DEF ChangeBlock
<1>2. /\ trouble \in {"none", "freed"} /\ nest = 1 /\ phase = "idle"
      /\ UNCHANGED <<disk, io, phase>> /\ nest' = nest
      /\ b \in UsedNow /\ b # SpaceBlock /\ SpaceBlock \in AdminBlocks
      /\ cache \in [AdminBlocks -> Buffers]
      /\ ops \in [0 .. 1 -> [AdminBlocks -> Operation \cup {NoOperation}]]
      /\ \A c \in AdminBlocks : ops[0][c] \in OperationsOf(c) /\ ops[1][c] \in OperationsOf(c)
  BY <1>1, NotFailedStep
<1>3. data \in DataOf(b)
  BY <1>2, DataFacts
<1>4. /\ x \in Buffers /\ Store(x) \in OperationsOf(b)
      /\ BlockOK(x, ops[0][b], Store(x), io[Block(b)], b \in UsedNow, b \in UsedBefore, trouble)
  BY <1>2, <1>3, StoreStep
<1> HIDE DEF x
<1>5. /\ ops' \in [0 .. 1 -> [AdminBlocks -> Operation \cup {NoOperation}]]
      /\ ops'[0] = ops[0] /\ ops'[1] = [ops[1] EXCEPT ![b] = Store(x)]
  BY <1>1, <1>2, <1>4, OperationsTyped
<1>6. /\ cache' \in [AdminBlocks -> Buffers]
      /\ cache'[b] = x /\ ops'[1][b] = Store(x)
      /\ \A c \in AdminBlocks \ {b} : cache'[c] = cache[c] /\ ops'[1][c] = ops[1][c]
  BY <1>1, <1>2, <1>4, <1>5
<1>7. Types' /\ Flush' /\ Nesting'
  <2>1. \A c \in AdminBlocks : ops'[0][c] \in OperationsOf(c) /\ ops'[1][c] \in OperationsOf(c)
    BY <1>2, <1>4, <1>5, <1>6
  <2>2. Types'
    BY <1>1, <1>2, <1>5, <1>6, <2>1, MemoryTypes DEF Inv
  <2> QED
    BY <1>2, <2>2, IdleFlush DEF Inv, Nesting
<1>8. UsedNow' = UsedNow /\ UsedBefore' = UsedBefore
  BY <1>2, <1>5, <1>6, UsedStep
<1>9. ASSUME NEW c \in AdminBlocks PROVE BlockInv(c)'
  <2>1. CASE c = b
    BY <1>1, <1>2, <1>4, <1>5, <1>6, <1>8, <2>1 DEF BlockInv
  <2>2. CASE c # b
    BY <1>1, <1>2, <1>5, <1>6, <1>8, <2>2, OtherBlock DEF Inv
  <2> QED
    BY <2>1, <2>2
<1> QED
  BY <1>7, <1>9 DEF Inv
(* A block with new buffers in a step that may change how the transaction  *)
(* fares.                                                                  *)
LEMMA NewBlock ==
  ASSUME NEW c \in AdminBlocks, NEW used,
         BlockOK(cache'[c], ops'[0][c], ops'[1][c], io[Block(c)],
                 c \in used, c \in UsedBefore, trouble),
         UNCHANGED io, c \in UsedNow' <=> c \in used, UsedBefore' = UsedBefore,
         \/ trouble' = trouble
         \/ trouble # "failed" /\ trouble' = "freed"
         \/ trouble = "none" /\ trouble' = "failed"
  PROVE  BlockInv(c)'
<1>1. CASE trouble' = trouble
  BY <1>1 DEF BlockInv, BlockOK
<1>2. CASE trouble # "failed" /\ trouble' = "freed"
  BY <1>2 DEF BlockInv, BlockOK
<1>3. CASE trouble = "none" /\ trouble' = "failed"
  BY <1>3 DEF BlockInv, BlockOK
<1> QED
  BY <1>1, <1>2, <1>3

(* The container with other blocks in use.                                 *)
LEMMA MarkStep ==
  ASSUME Inv, InTransaction, NEW used \in Spaces
  PROVE  LET x == Marked(used)
         IN  /\ x \in Buffers /\ Store(x) \in OperationsOf(SpaceBlock)
             /\ BlockOK(x, ops[0][SpaceBlock], Store(x), io[Block(SpaceBlock)],
                        SpaceBlock \in UsedNow, SpaceBlock \in UsedBefore, trouble)
             /\ Uncompress(Store(x), io[Block(SpaceBlock)]) = used
             /\ Store(x) # NoOperation
<1> DEFINE x == Marked(used)
<1>1. SpaceBlock \in UsedNow /\ used \in DataOf(SpaceBlock) /\ trouble # "failed"
  BY NotFailedStep DEF DataOf, InTransaction
<1>2. x = [Prepare(ReadCacheBuffer(SpaceBlock)) EXCEPT !.latest = used]
  BY DEF Marked
<1> HIDE DEF x
<1>3. Store(x) # NoOperation
  BY DEF Store, NoOperation
<1> QED
  BY <1>1, <1>2, <1>3, StoreStep DEF x

(* A step that stores the container, with `used' in it, and does something *)
(* to a block b.                                                           *)
LEMMA MarkedInv ==
  ASSUME Inv, InTransaction, NEW b \in AdminBlocks \ {SpaceBlock}, NEW used \in Spaces,
         \A c \in AdminBlocks \ {b} : c \in used <=> c \in UsedNow,
         NEW x, x = Marked(used), NEW y \in Buffers, NEW o \in OperationsOf(b),
         cache' = [cache EXCEPT ![SpaceBlock] = x, ![b] = y],
         ops'[0] = ops[0],
         ops'[1] = [ops[1] EXCEPT ![SpaceBlock] = Store(x), ![b] = o],
         ops' \in [0 .. 1 -> [AdminBlocks -> Operation \cup {NoOperation}]],
         BlockOK(y, ops[0][b], o, io[Block(b)], b \in used, b \in UsedBefore, trouble'),
         \/ trouble' = trouble
         \/ trouble # "failed" /\ trouble' = "freed"
         \/ trouble = "none" /\ trouble' = "failed"
  PROVE  Inv'
<1>1. /\ trouble \in {"none", "freed"} /\ nest = 1 /\ phase = "idle"
      /\ UNCHANGED <<disk, io, phase>> /\ nest' = nest
      /\ SpaceBlock \in AdminBlocks /\ b \in AdminBlocks /\ b # SpaceBlock
      /\ cache \in [AdminBlocks -> Buffers]
      /\ ops \in [0 .. 1 -> [AdminBlocks -> Operation \cup {NoOperation}]]
      /\ \A c \in AdminBlocks : ops[0][c] \in OperationsOf(c) /\ ops[1][c] \in OperationsOf(c)
  BY NotFailedStep
<1>2. /\ x \in Buffers /\ Store(x) \in OperationsOf(SpaceBlock)
      /\ BlockOK(x, ops[0][SpaceBlock], Store(x), io[Block(SpaceBlock)],
                 SpaceBlock \in UsedNow, SpaceBlock \in UsedBefore, trouble)
      /\ Uncompress(Store(x), io[Block(SpaceBlock)]) = used
      /\ Store(x) # NoOperation
  BY MarkStep
<1>3. /\ cache' \in [AdminBlocks -> Buffers]
      /\ cache'[b] = y /\ cache'[SpaceBlock] = x
      /\ \A c \in AdminBlocks \ {b, SpaceBlock} : cache'[c] = cache[c]
  BY <1>1, <1>2
<1>4. /\ ops'[1][b] = o /\ ops'[1][SpaceBlock] = Store(x)
      /\ \A c \in AdminBlocks \ {b, SpaceBlock} : ops'[1][c] = ops[1][c]
  <2>1. ops[1] \in [AdminBlocks -> Operation \cup {NoOperation}]
    BY <1>1
  <2> QED
    BY <1>1, <2>1
<1>5. Types' /\ Flush' /\ Nesting'
  <2>1. \A c \in AdminBlocks : ops'[0][c] \in OperationsOf(c) /\ ops'[1][c] \in OperationsOf(c)
    BY <1>1, <1>2, <1>4
  <2>2. Types'
    BY <1>1, <1>3, <2>1, MemoryTypes DEF Inv
  <2> QED
    BY <1>1, <2>2, IdleFlush DEF Inv, Nesting
<1>6. UsedNow' = used /\ UsedBefore' = UsedBefore
  BY <1>1, <1>2, <1>4, UsedStep
<1>7. ASSUME NEW c \in AdminBlocks PROVE BlockInv(c)'
  <2>1. CASE c = b
    BY <1>1, <1>3, <1>4, <1>6, <2>1 DEF BlockInv
  <2>2. CASE c = SpaceBlock
    <3>1. c \in UsedNow' <=> c \in UsedNow
      BY <1>1, <1>6, <2>2
    <3> QED
      BY <1>1, <1>2, <1>3, <1>4, <1>6, <2>2, <3>1, NewBlock
  <2>3. CASE c # b /\ c # SpaceBlock
    <3>1. c \in UsedNow' <=> c \in UsedNow
      BY <1>6, <2>3
    <3> QED
      BY <1>1, <1>3, <1>4, <1>6, <2>3, <3>1, OtherBlock DEF Inv
  <2> QED
    BY <2>1, <2>2, <2>3
<1> QED
  BY <1>5, <1>7 DEF Inv
LEMMA BlockArguments ==
  ASSUME Inv, NEW b \in AdminBlocks
  PROVE  /\ cache[b] \in Buffers
         /\ ops[0][b] \in OperationsOf(b) /\ ops[1][b] \in OperationsOf(b)
         /\ io[Block(b)] \in DataOf(b) /\ BlockTypes(b)
         /\ BlockOK(cache[b], ops[0][b], ops[1][b], io[Block(b)],
                    b \in UsedNow, b \in UsedBefore, trouble)
         /\ Sound(cache[b], ops[0][b], ops[1][b], io[Block(b)])
<1>1. BlockTypes(b)
  BY TypesOfBlock DEF Inv
<1>2. BlockOK(cache[b], ops[0][b], ops[1][b], io[Block(b)],
              b \in UsedNow, b \in UsedBefore, trouble)
  BY DEF Inv, BlockInv
<1>3. Sound(cache[b], ops[0][b], ops[1][b], io[Block(b)])
  BY <1>2 DEF BlockOK
<1> QED
  BY <1>1, <1>2, <1>3 DEF BlockTypes

LEMMA AllocBlockInv ==
  ASSUME Inv, NEW b \in AdminBlocks, NEW data \in Contents, AllocBlock(b, data)
  PROVE  Inv'
<1> DEFINE used == Used \cup {b}
           x == Marked(used)
           n == NewCacheBuffer(b)
           y == [n EXCEPT !.latest = data]
           o == Store(y)
           was == cache[b]
           old == ops[0][b]
           new == ops[1][b]
           d   == io[Block(b)]
           before == b \in UsedBefore
<1>1. /\ InTransaction /\ b \notin Used
      /\ cache' = [cache EXCEPT ![SpaceBlock] = x, ![b] = y]
      /\ trouble' = IF new = FreeOperation THEN "freed" ELSE trouble
  BY DEF AllocBlock
<1>0. ops' = [ops EXCEPT ![1][SpaceBlock] = Store(x), ![1][b] = o]
  BY DEF AllocBlock
<1>2. /\ trouble \in {"none", "freed"} /\ Used = UsedNow /\ UsedNow \in Spaces
      /\ SpaceBlock \in UsedNow /\ b # SpaceBlock /\ SpaceBlock \in AdminBlocks
      /\ ops \in [0 .. 1 -> [AdminBlocks -> Operation \cup {NoOperation}]]
  BY <1>1, NotFailedStep
<1>3. used \in Spaces /\ (\A c \in AdminBlocks \ {b} : c \in used <=> c \in UsedNow)
      /\ b \in used /\ b \notin UsedNow
  BY <1>1, <1>2 DEF Spaces
<1>4. /\ was \in Buffers /\ old \in OperationsOf(b) /\ new \in OperationsOf(b) /\ d \in DataOf(b)
      /\ BlockOK(was, old, new, d, b \in UsedNow, before, trouble) /\ Sound(was, old, new, d)
  BY BlockArguments
<1>5. NewBuffer(was, n, Cleared)
  BY <1>4, NewFields
<1>6. data \in DataOf(b) /\ data \in Data \cup {None}
  BY <1>2, DataFacts
<1>7. NewBuffer(was, y, data)
  <2> HIDE DEF n
  <2>1. n \in Buffers
    BY <1>5 DEF NewBuffer
  <2>2. Is(y, n.original, data, n.shared, n.empty)
    BY <1>6, <2>1, BufferFields
  <2> QED
    BY <1>5, <2>2 DEF NewBuffer, Is
<1>8. before \in BOOLEAN /\ trouble # "failed" /\ y \in Buffers
  BY <1>2, <1>7 DEF NewBuffer
<1> HIDE DEF x, y, was, old, new, d, before, used
<1>9. /\ BlockOK(y, old, Store(y), d, b \in used, before, trouble')
      /\ Store(y) \in OperationsOf(b)
  BY <1>1, <1>3, <1>4, <1>6, <1>7, <1>8, AllocFacts
<1>10. x = Marked(used) /\ Store(x) \in OperationsOf(SpaceBlock)
  BY <1>1, <1>3, MarkStep DEF x
<1> HIDE DEF o
<1>11. o = Store(y)
  BY DEF o
<1>12. /\ ops' \in [0 .. 1 -> [AdminBlocks -> Operation \cup {NoOperation}]]
       /\ ops'[0] = ops[0] /\ ops'[1] = [ops[1] EXCEPT ![SpaceBlock] = Store(x), ![b] = o]
  <2>1. Store(x) \in Operation \cup {NoOperation} /\ o \in Operation \cup {NoOperation}
    BY <1>2, <1>9, <1>10, <1>11, OperationFacts
  <2> QED
    BY <1>0, <1>2, <2>1
<1>13. trouble' = trouble \/ (trouble # "failed" /\ trouble' = "freed")
  <2>1. CASE new = FreeOperation
    BY <1>1, <1>8, <2>1
  <2>2. CASE new # FreeOperation
    BY <1>1, <2>2
  <2> QED
    BY <2>1, <2>2
<1>14. BlockOK(y, ops[0][b], o, io[Block(b)], b \in used, b \in UsedBefore, trouble')
  BY <1>9, <1>11 DEF old, d, before
<1> QED
  BY <1>1, <1>2, <1>3, <1>8, <1>9, <1>10, <1>11, <1>12, <1>13, <1>14, MarkedInv

LEMMA FreeBlockInv ==
  ASSUME Inv, NEW b \in AdminBlocks, FreeBlock(b)
  PROVE  Inv'
<1> DEFINE used == Used \ {b}
           x == Marked(used)
           o == FreeOperation
           was == cache[b]
           old == ops[0][b]
           new == ops[1][b]
           d   == io[Block(b)]
           before == b \in UsedBefore
<1>1. /\ InTransaction /\ b \in Used \cap Freeable
      /\ cache' = [cache EXCEPT ![SpaceBlock] = x]
      /\ trouble' = IF new # NoOperation THEN "freed" ELSE trouble
  BY DEF FreeBlock
<1>0. ops' = [ops EXCEPT ![1][SpaceBlock] = Store(x), ![1][b] = o]
  BY DEF FreeBlock
<1>2. /\ trouble \in {"none", "freed"} /\ Used = UsedNow /\ UsedNow \in Spaces
      /\ SpaceBlock \in UsedNow /\ b # SpaceBlock /\ SpaceBlock \in AdminBlocks
      /\ ops \in [0 .. 1 -> [AdminBlocks -> Operation \cup {NoOperation}]]
      /\ cache \in [AdminBlocks -> Buffers]
  BY <1>1, NotFailedStep, DataFacts
<1>3. used \in Spaces /\ (\A c \in AdminBlocks \ {b} : c \in used <=> c \in UsedNow)
      /\ b \notin used /\ b \in UsedNow
  BY <1>1, <1>2 DEF Spaces
<1>4. /\ was \in Buffers /\ old \in OperationsOf(b) /\ new \in OperationsOf(b) /\ d \in DataOf(b)
      /\ BlockOK(was, old, new, d, b \in UsedNow, before, trouble)
  BY BlockArguments
<1>5. o \in OperationsOf(b)
  BY <1>1, NoOperationFacts DEF OperationsOf
<1>6. before \in BOOLEAN /\ trouble # "failed"
  BY <1>2
<1> HIDE DEF x, was, old, new, d, before, used, o
<1>7. BlockOK(was, old, FreeOperation, d, b \in used, before, trouble')
  BY <1>1, <1>3, <1>4, <1>6, FreeFacts
<1>8. x = Marked(used) /\ Store(x) \in OperationsOf(SpaceBlock) /\ x \in Buffers
  BY <1>1, <1>3, MarkStep DEF x
<1>9. /\ ops' \in [0 .. 1 -> [AdminBlocks -> Operation \cup {NoOperation}]]
      /\ ops'[0] = ops[0] /\ ops'[1] = [ops[1] EXCEPT ![SpaceBlock] = Store(x), ![b] = o]
  <2>1. Store(x) \in Operation \cup {NoOperation} /\ o \in Operation \cup {NoOperation}
    BY <1>2, <1>5, <1>8, OperationFacts
  <2> QED
    BY <1>0, <1>2, <2>1
<1>10. cache' = [cache EXCEPT ![SpaceBlock] = x, ![b] = was]
  BY <1>1, <1>2, <1>8 DEF was
<1>11. trouble' = trouble \/ (trouble # "failed" /\ trouble' = "freed")
  <2>1. CASE new # NoOperation
    BY <1>1, <1>6, <2>1
  <2>2. CASE new = NoOperation
    BY <1>1, <2>2
  <2> QED
    BY <2>1, <2>2
<1>12. BlockOK(was, ops[0][b], o, io[Block(b)], b \in used, b \in UsedBefore, trouble')
  BY <1>7 DEF old, d, before, o
<1> QED
  BY <1>1, <1>2, <1>3, <1>4, <1>5, <1>8, <1>9, <1>10, <1>11, <1>12, MarkedInv
(* A step that changes the buffers of one block, and nothing but how the   *)
(* transaction fares.                                                      *)
LEMMA CacheInv ==
  ASSUME Inv, UNCHANGED <<disk, io, ops, nest, phase>>,
         NEW b \in AdminBlocks, NEW x \in Buffers, cache' = [cache EXCEPT ![b] = x],
         BlockOK(x, ops[0][b], ops[1][b], io[Block(b)], b \in UsedNow, b \in UsedBefore, trouble'),
         \/ trouble' = trouble
         \/ trouble = "none" /\ trouble' = "failed" /\ nest = 1
  PROVE  Inv'
<1>1. cache' \in [AdminBlocks -> Buffers] /\ cache'[b] = x
      /\ \A c \in AdminBlocks \ {b} : cache'[c] = cache[c]
  BY DEF Inv, Types, TypeOK
<1>2. Types'
  <2>1. trouble' \in {"none", "freed", "failed"}
    BY DEF Inv, Types, TypeOK
  <2> QED
    BY <1>1, <2>1 DEF Inv, Types, TypeOK
<1>3. Nesting' /\ Flush'
  BY DEF Inv, Nesting, Flush
<1>4. UsedNow' = UsedNow /\ UsedBefore' = UsedBefore
  BY DEF UsedNow, UsedBefore, LatestOperation
<1>5. ASSUME NEW c \in AdminBlocks PROVE BlockInv(c)'
  <2>1. CASE c = b
    BY <1>1, <1>4, <2>1 DEF BlockInv
  <2>2. CASE c # b
    BY <1>1, <1>4, <2>2, OtherBlock DEF Inv
  <2> QED
    BY <2>1, <2>2
<1> QED
  BY <1>2, <1>3, <1>5 DEF Inv

LEMMA ReuseBufferInv ==
  ASSUME Inv, NEW b \in AdminBlocks, ReuseBuffer(b)
  PROVE  Inv'
<1> DEFINE was == cache[b]
           x == IF was.shared \/ was.latest = None THEN NoBuffers
                ELSE [was EXCEPT !.latest = None, !.empty = FALSE]
           old == ops[0][b]
           new == ops[1][b]
           d   == io[Block(b)]
           now == b \in UsedNow
           before == b \in UsedBefore
<1>1. was \in Buffers /\ BlockOK(was, old, new, d, now, before, trouble)
  BY BlockArguments
<1>2. cache' = [cache EXCEPT ![b] = x] /\ UNCHANGED <<disk, io, ops, nest, trouble, phase>>
  BY DEF ReuseBuffer
<1> HIDE DEF was, old, new, d, now, before
<1>3. x \in Buffers /\ BlockOK(x, old, new, d, now, before, trouble)
  BY <1>1, ReuseFacts
<1> HIDE DEF x
<1> QED
  BY <1>2, <1>3, CacheInv DEF old, new, d, now, before

LEMMA ReadBlockInv ==
  ASSUME Inv, NEW b \in AdminBlocks, ReadBlock(b)
  PROVE  Inv'
<1>1. trouble # "failed" /\ b \in UsedNow
  BY UsedFacts DEF ReadBlock
<1>2. /\ ReadCacheBuffer(b) \in Buffers
      /\ BlockOK(ReadCacheBuffer(b), ops[0][b], ops[1][b], io[Block(b)],
                 b \in UsedNow, b \in UsedBefore, trouble)
  BY <1>1, InUseFacts
<1> QED
  BY <1>2, CacheInv DEF ReadBlock

LEMMA ChangeFailsInv ==
  ASSUME Inv, NEW b \in AdminBlocks, ChangeFails(b)
  PROVE  Inv'
<1> DEFINE r == ReadCacheBuffer(b)
           o == LatestOperation(b)
           x == Restore(Prepare(r), o)
           old == ops[0][b]
           new == ops[1][b]
           d   == io[Block(b)]
           before == b \in UsedBefore
<1>1. /\ trouble = "none" /\ trouble' = "failed" /\ nest = 1 /\ b \in UsedNow
      /\ cache' = [cache EXCEPT ![b] = x] /\ UNCHANGED <<disk, io, ops, nest, phase>>
  BY NotFailedStep DEF ChangeFails, Fails, InTransaction
<1>2. /\ r \in Buffers /\ r.latest # None
      /\ BlockOK(r, old, new, d, b \in UsedNow, before, "none")
  BY <1>1, InUseFacts
<1>3. old \in OperationsOf(b) /\ new \in OperationsOf(b) /\ o = Newest(old, new)
  BY BlockArguments, LatestIsNewest
<1> HIDE DEF r, o, old, new, d, before
<1>4. x = Restore(Prepare(r), Newest(old, new))
  BY <1>3
<1> HIDE DEF x
<1>5. x \in Buffers /\ BlockOK(x, old, new, d, b \in UsedNow, before, "failed")
  BY <1>1, <1>2, <1>3, <1>4, ChangeFailsFacts
<1> QED
  BY <1>1, <1>5, CacheInv DEF old, new, d, before

LEMMA AllocFailsInv ==
  ASSUME Inv, FailAfterFree = FALSE, NEW b \in AdminBlocks, AllocFails(b)
  PROVE  Inv'
<1> DEFINE used == Used \cup {b}
           x == Marked(used)
           n == NewCacheBuffer(b)
           was == cache[b]
           old == ops[0][b]
           new == ops[1][b]
           d   == io[Block(b)]
           before == b \in UsedBefore
           y == Restore(n, old)
<1>1. /\ InTransaction /\ b \notin Used /\ new # FreeOperation
      /\ trouble = "none" /\ trouble' = "failed"
      /\ cache' = [cache EXCEPT ![SpaceBlock] = x, ![b] = Restore(n, LatestOperation(b))]
  BY DEF AllocFails, Fails
<1>2. ops' = [ops EXCEPT ![1][SpaceBlock] = Store(x)]
  BY DEF AllocFails
<1>3. /\ Used = UsedNow /\ UsedNow \in Spaces
      /\ SpaceBlock \in UsedNow /\ b # SpaceBlock /\ SpaceBlock \in AdminBlocks
      /\ ops \in [0 .. 1 -> [AdminBlocks -> Operation \cup {NoOperation}]]
  BY <1>1, NotFailedStep
<1>4. used \in Spaces /\ (\A c \in AdminBlocks \ {b} : c \in used <=> c \in UsedNow)
      /\ b \in used /\ b \notin UsedNow
  BY <1>1, <1>3 DEF Spaces
<1>5. /\ was \in Buffers /\ old \in OperationsOf(b) /\ new \in OperationsOf(b)
      /\ BlockOK(was, old, new, d, b \in UsedNow, before, "none") /\ Sound(was, old, new, d)
  BY <1>1, BlockArguments
<1>6. NewBuffer(was, n, Cleared)
  BY <1>5, NewFields
<1>7. new = NoOperation
  BY <1>1, <1>4, <1>5, OperationFacts DEF BlockOK, Unchanged
<1>8. LatestOperation(b) = old
  BY <1>7 DEF LatestOperation
<1>9. before \in BOOLEAN
  OBVIOUS
<1>10. x = Marked(used) /\ Store(x) \in OperationsOf(SpaceBlock)
  BY <1>1, <1>4, MarkStep
<1> HIDE DEF x, n, was, old, new, d, before, used
<1>11. y \in Buffers /\ BlockOK(y, old, new, d, b \in used, before, "failed")
  BY <1>4, <1>5, <1>6, <1>7, <1>9, AllocFailsFacts
<1> HIDE DEF y
<1>12. cache' = [cache EXCEPT ![SpaceBlock] = x, ![b] = y]
  BY <1>1, <1>8 DEF y
<1>13. /\ ops' \in [0 .. 1 -> [AdminBlocks -> Operation \cup {NoOperation}]]
       /\ ops'[0] = ops[0] /\ ops'[1] = [ops[1] EXCEPT ![SpaceBlock] = Store(x)]
  <2>1. Store(x) \in Operation \cup {NoOperation}
    BY <1>3, <1>10, OperationFacts
  <2> QED
    BY <1>2, <1>3, <2>1
<1>14. ops'[1] = [ops[1] EXCEPT ![SpaceBlock] = Store(x), ![b] = new]
  <2>1. ops[1] \in [AdminBlocks -> Operation \cup {NoOperation}] /\ new = ops[1][b]
    BY <1>3 DEF new
  <2> QED
    BY <1>3, <1>13, <2>1
<1>15. BlockOK(y, ops[0][b], new, io[Block(b)], b \in used, b \in UsedBefore, trouble')
  BY <1>1, <1>11 DEF old, d, before
<1> QED
  BY <1>1, <1>3, <1>4, <1>5, <1>10, <1>11, <1>12, <1>13, <1>14, <1>15, MarkedInv
---------------------------------------------------------------------------
(* A transaction begins and ends *)

LEMMA NewTransactionInv ==
  ASSUME Inv, NewTransaction
  PROVE  Inv'
<1>1. Types' /\ Nesting' /\ Flush'
  BY DEF Inv, NewTransaction, Types, TypeOK, Nesting, Flush
<1>2. \A c \in AdminBlocks : BlockInv(c)'
  BY DEF Inv, NewTransaction, BlockInv, UsedNow, UsedBefore, LatestOperation
<1> QED
  BY <1>1, <1>2 DEF Inv

LEMMA EndTransactionInv ==
  ASSUME Inv, EndTransaction
  PROVE  /\ Inv'
         /\ \A b \in UsedNow : ops'[0][b] = LatestOperation(b)
         /\ UsedBefore' = UsedNow
<1>1. /\ nest = 1 /\ trouble # "failed" /\ nest' = 0 /\ trouble' = "none" /\ phase = "idle"
      /\ cache' = [b \in AdminBlocks |-> Discard(b)]
      /\ UNCHANGED <<disk, io, phase>>
      /\ ops \in [0 .. 1 -> [AdminBlocks -> Operation \cup {NoOperation}]]
  BY DEF EndTransaction, Inv, Nesting, Types, TypeOK
<1>2. ops' = [ops EXCEPT ![0] = [b \in AdminBlocks |-> Combine(b)], ![1] = NoOperations]
  BY DEF EndTransaction
<1>3. ASSUME NEW b \in AdminBlocks
      PROVE  /\ Discard(b) \in Buffers /\ Combine(b) \in OperationsOf(b)
             /\ BlockOK(Discard(b), Combine(b), NoOperation, io[Block(b)],
                        b \in UsedNow, b \in UsedNow, "none")
             /\ b \in UsedNow => Combine(b) = LatestOperation(b)
  <2> DEFINE now == b \in UsedNow
             before == b \in UsedBefore
  <2>1. BlockTypes(b) /\ BlockOK(cache[b], ops[0][b], ops[1][b], io[Block(b)], now, before, trouble)
    BY BlockArguments
  <2>2. now \in BOOLEAN /\ before \in BOOLEAN
    OBVIOUS
  <2> HIDE DEF now, before
  <2>3. /\ Discard(b) \in Buffers /\ Combine(b) \in OperationsOf(b)
        /\ BlockOK(Discard(b), Combine(b), NoOperation, io[Block(b)], now, now, "none")
        /\ now => Combine(b) = LatestOperation(b)
    BY <1>1, <2>1, <2>2, EndFacts
  <2> QED
    BY <2>3 DEF now
<1>4. /\ ops' \in [0 .. 1 -> [AdminBlocks -> Operation \cup {NoOperation}]]
      /\ ops'[1] = NoOperations
      /\ \A b \in AdminBlocks : ops'[0][b] = Combine(b) /\ ops'[1][b] = NoOperation
  <2>1. [b \in AdminBlocks |-> Combine(b)] \in [AdminBlocks -> Operation \cup {NoOperation}]
    BY <1>3, OperationFacts
  <2>2. NoOperations \in [AdminBlocks -> Operation \cup {NoOperation}]
        /\ \A b \in AdminBlocks : NoOperations[b] = NoOperation
    BY DEF NoOperations
  <2> QED
    BY <1>1, <1>2, <2>1, <2>2
<1>5. cache' \in [AdminBlocks -> Buffers] /\ \A b \in AdminBlocks : cache'[b] = Discard(b)
  BY <1>1, <1>3
<1>6. Types' /\ Flush' /\ Nesting'
  <2>1. \A c \in AdminBlocks : ops'[0][c] \in OperationsOf(c) /\ ops'[1][c] \in OperationsOf(c)
    BY <1>3, <1>4 DEF OperationsOf
  <2>2. Types'
    BY <1>1, <1>4, <1>5, <2>1, MemoryTypes DEF Inv
  <2> QED
    BY <1>1, <1>4, <2>2, IdleFlush DEF Inv, Nesting
<1>7. UsedNow' = UsedNow /\ UsedBefore' = UsedNow
  <2>1. SpaceBlock \in UsedNow /\ SpaceBlock \in AdminBlocks
    BY SpaceFacts DEF Inv
  <2>2. ops'[0][SpaceBlock] = LatestOperation(SpaceBlock) /\ ops'[1][SpaceBlock] = NoOperation
    BY <1>3, <1>4, <2>1
  <2> QED
    BY <1>1, <2>2 DEF UsedNow, UsedBefore, LatestOperation
<1>8. ASSUME NEW c \in AdminBlocks PROVE BlockInv(c)'
  BY <1>1, <1>3, <1>4, <1>5, <1>7 DEF BlockInv
<1> QED
  BY <1>3, <1>4, <1>6, <1>7, <1>8, SpaceFacts DEF Inv

LEMMA DeleteTransactionInv ==
  ASSUME Inv, FailAfterFree = FALSE, DeleteTransaction
  PROVE  /\ Inv'
         /\ ops'[0] = ops[0] /\ UsedBefore' = UsedBefore
<1>1. /\ nest = 1 /\ trouble # "freed" /\ nest' = 0 /\ trouble' = "none" /\ phase = "idle"
      /\ cache' = [b \in AdminBlocks |-> Revert(b)]
      /\ UNCHANGED <<disk, io, phase>>
      /\ ops \in [0 .. 1 -> [AdminBlocks -> Operation \cup {NoOperation}]]
  BY DEF DeleteTransaction, Inv, Nesting, Types, TypeOK
<1>2. ops' = [ops EXCEPT ![1] = NoOperations]
  BY DEF DeleteTransaction
<1>3. ASSUME NEW b \in AdminBlocks
      PROVE  /\ Revert(b) \in Buffers
             /\ BlockOK(Revert(b), ops[0][b], NoOperation, io[Block(b)],
                        b \in UsedBefore, b \in UsedBefore, "none")
  <2> DEFINE now == b \in UsedNow
             before == b \in UsedBefore
  <2>1. BlockTypes(b) /\ BlockOK(cache[b], ops[0][b], ops[1][b], io[Block(b)], now, before, trouble)
    BY BlockArguments
  <2>2. now \in BOOLEAN /\ before \in BOOLEAN
    OBVIOUS
  <2> HIDE DEF now, before
  <2>3. /\ Revert(b) \in Buffers
        /\ BlockOK(Revert(b), ops[0][b], NoOperation, io[Block(b)], before, before, "none")
    BY <1>1, <2>1, <2>2, RevertFacts
  <2> QED
    BY <2>3 DEF before
<1>4. /\ ops' \in [0 .. 1 -> [AdminBlocks -> Operation \cup {NoOperation}]]
      /\ ops'[0] = ops[0] /\ ops'[1] = NoOperations
      /\ \A b \in AdminBlocks : ops'[1][b] = NoOperation
  <2>1. NoOperations \in [AdminBlocks -> Operation \cup {NoOperation}]
        /\ \A b \in AdminBlocks : NoOperations[b] = NoOperation
    BY DEF NoOperations
  <2> QED
    BY <1>1, <1>2, <2>1
<1>5. cache' \in [AdminBlocks -> Buffers] /\ \A b \in AdminBlocks : cache'[b] = Revert(b)
  BY <1>1, <1>3
<1>6. Types' /\ Flush' /\ Nesting'
  <2>1. \A c \in AdminBlocks : ops'[0][c] \in OperationsOf(c) /\ ops'[1][c] \in OperationsOf(c)
    BY <1>4, BlockArguments DEF OperationsOf
  <2>2. Types'
    BY <1>1, <1>4, <1>5, <2>1, MemoryTypes DEF Inv
  <2> QED
    BY <1>1, <1>4, <2>2, IdleFlush DEF Inv, Nesting
<1>7. UsedNow' = UsedBefore /\ UsedBefore' = UsedBefore
  <2>1. SpaceBlock \in AdminBlocks
    BY SpaceFacts DEF Inv
  <2> QED
    BY <1>1, <1>4, <2>1 DEF UsedNow, UsedBefore, LatestOperation
<1>8. ASSUME NEW c \in AdminBlocks PROVE BlockInv(c)'
  BY <1>1, <1>3, <1>4, <1>5, <1>7 DEF BlockInv
<1> QED
  BY <1>4, <1>6, <1>7, <1>8 DEF Inv
---------------------------------------------------------------------------
(* Flushes *)

LEMMA WithLogFacts ==
  ASSUME NEW d, NEW log
  PROVE  /\ DOMAIN WithLog(d, log) = Places
         /\ WithLog(d, log)[FailureBlock] = d[FailureBlock]
         /\ \A b \in AdminBlocks :
              WithLog(d, log)[Block(b)] = d[Block(b)] /\ WithLog(d, log)[LogBlock(b)] = log[b]
<1>1. ASSUME NEW p \in Places PROVE WithLog(d, log)[p] = IF p[1] = "log" THEN log[p[2]] ELSE d[p]
  BY DEF WithLog
<1>2. WithLog(d, log)[FailureBlock] = d[FailureBlock]
  <2>1. FailureBlock \in Places /\ FailureBlock[1] # "log"
    BY PlaceFacts DEF FailureBlock
  <2> QED
    BY <1>1, <2>1
<1>3. ASSUME NEW b \in AdminBlocks
      PROVE  WithLog(d, log)[Block(b)] = d[Block(b)] /\ WithLog(d, log)[LogBlock(b)] = log[b]
  <2>1. /\ Block(b) \in Places /\ LogBlock(b) \in Places
        /\ Block(b)[1] = "block" /\ LogBlock(b)[1] = "log" /\ LogBlock(b)[2] = b
    BY PlaceFacts, PlaceParts
  <2> QED
    BY <1>1, <2>1
<1> QED
  BY <1>2, <1>3 DEF WithLog

LEMMA NoOperationsFacts ==
  /\ NoOperations \in [AdminBlocks -> Operation \cup {NoOperation}]
  /\ \A b \in AdminBlocks : NoOperations[b] = NoOperation /\ NoOperation \in OperationsOf(b)
  BY DEF NoOperations, OperationsOf

(* What the types ask of the disk or the cache below.                      *)
Typed(d) ==
  /\ DOMAIN d = Places /\ d[FailureBlock] \in {"TROK", "TRFA"}
  /\ \A b \in AdminBlocks :
       d[Block(b)] \in DataOf(b) /\ d[LogBlock(b)] \in OperationsOf(b) \cup {Junk}

LEMMA DiskTypes ==
  ASSUME Types
  PROVE  /\ Typed(disk) /\ Typed(io)
         /\ ops \in [0 .. 1 -> [AdminBlocks -> Operation \cup {NoOperation}]]
         /\ cache \in [AdminBlocks -> Buffers]
         /\ nest \in 0 .. 1
  BY DEF Types, TypeOK, Typed

LEMMA DiskStep ==
  ASSUME Types, Typed(disk'), Typed(io'), UNCHANGED <<cache, ops, nest, trouble>>,
         phase' \in {"idle", "save", "mark", "write", "clear"}
  PROVE  Types'
<1>1. \A b \in AdminBlocks : DataOf(b) \subseteq Data
        /\ OperationsOf(b) \cup {Junk} \subseteq Operation \cup {NoOperation, Junk}
  BY DataFacts DEF OperationsOf
<1>2. TypeOK'
  BY <1>1 DEF Types, TypeOK, Typed
<1> QED
  BY <1>2 DEF Types, Typed

LEMMA SameBlocks ==
  ASSUME Inv, UNCHANGED <<cache, ops, nest, trouble>>,
         \A b \in AdminBlocks : io'[Block(b)] = io[Block(b)]
  PROVE  /\ \A b \in AdminBlocks : BlockInv(b)'
         /\ UsedNow' = UsedNow /\ UsedBefore' = UsedBefore
<1>1. SpaceBlock \in AdminBlocks
  BY DataFacts
<1>2. UsedNow' = UsedNow /\ UsedBefore' = UsedBefore
  BY <1>1 DEF UsedNow, UsedBefore, LatestOperation
<1> QED
  BY <1>2 DEF Inv, BlockInv

(* A step of a flush, or of the cache below, that writes no block.         *)
LEMMA LogStepInv ==
  ASSUME Inv, Typed(disk'), Typed(io'), UNCHANGED <<cache, ops, nest, trouble>>,
         \A b \in AdminBlocks : io'[Block(b)] = io[Block(b)],
         phase' \in {"idle", "save", "mark", "write", "clear"},
         phase' # "idle" => nest = 0, Flush'
  PROVE  Inv'
<1>1. Types'
  BY DiskStep DEF Inv
<1>2. Nesting'
  BY DEF Inv, Nesting, Types, TypeOK
<1>3. \A b \in AdminBlocks : BlockInv(b)'
  BY SameBlocks
<1> QED
  BY <1>1, <1>2, <1>3 DEF Inv

(* The value of a place after a write to it.                               *)
LEMMA WriteFields ==
  ASSUME NEW d, DOMAIN d = Places, NEW p \in Places, NEW v, NEW e, e = [d EXCEPT ![p] = v]
  PROVE  /\ DOMAIN e = Places /\ e[p] = v
         /\ \A q \in Places : q # p => e[q] = d[q]
  OBVIOUS

LEMMA CopyBackInv ==
  ASSUME Inv, NEW p \in Places, CopyBack(p)
  PROVE  Inv'
<1>1. /\ disk' = [disk EXCEPT ![p] = io[p]] /\ io[p] # disk[p]
      /\ UNCHANGED <<io, cache, ops, nest, trouble, phase>>
  BY DEF CopyBack
<1>2. Typed(disk) /\ Typed(io) /\ DOMAIN disk = Places
  BY DiskTypes DEF Inv, Typed
<1>3. DOMAIN disk' = Places /\ disk'[p] = io[p] /\ \A q \in Places : q # p => disk'[q] = disk[q]
  BY <1>1, <1>2, WriteFields
<1>4. \A q \in Places : disk'[q] \in {disk[q], io[q]}
  BY <1>3
<1>5. /\ FailureBlock \in Places
      /\ \A b \in AdminBlocks : Block(b) \in Places /\ LogBlock(b) \in Places
  BY PlaceFacts
<1>6. Typed(disk') /\ Typed(io')
  BY <1>1, <1>2, <1>3, <1>4, <1>5 DEF Typed
<1>7. Flush'
  BY <1>1, <1>4, <1>5 DEF Inv, Flush
<1>8. phase' \in {"idle", "save", "mark", "write", "clear"} /\ (phase' # "idle" => nest = 0)
  BY <1>1, DiskTypes DEF Inv, Types, TypeOK, Nesting
<1> QED
  BY <1>1, <1>6, <1>7, <1>8, LogStepInv
LEMMA StartFlushInv ==
  ASSUME Inv, StartFlush
  PROVE  Inv'
<1> DEFINE log == [b \in AdminBlocks |-> NewLog(b)]
<1>1. /\ phase = "idle" /\ nest = 0 /\ phase' = "save" /\ io = disk
      /\ disk' = WithLog(disk, log) /\ io' = disk'
      /\ UNCHANGED <<cache, ops, nest, trouble>>
  BY DEF StartFlush, Flushed
<1>2. Typed(disk) /\ disk[FailureBlock] = "TROK"
  BY <1>1, DiskTypes DEF Inv, Flush
<1>3. \A b \in AdminBlocks : log[b] \in {Junk, ops[0][b]} /\ log[b] \in OperationsOf(b) \cup {Junk}
  BY DEF NewLog, OperationsOf
<1> HIDE DEF log
<1>4. /\ DOMAIN disk' = Places /\ disk'[FailureBlock] = "TROK"
      /\ \A b \in AdminBlocks : disk'[Block(b)] = disk[Block(b)] /\ disk'[LogBlock(b)] = log[b]
  BY <1>1, <1>2, WithLogFacts
<1>5. Typed(disk') /\ Typed(io')
  BY <1>1, <1>2, <1>3, <1>4 DEF Typed
<1>6. Flush'
  BY <1>1, <1>3, <1>4 DEF Flush
<1> QED
  BY <1>1, <1>4, <1>5, <1>6, LogStepInv

(* A write of a block of the log or of the TransactionFailure block.       *)
LEMMA WriteStepInv ==
  ASSUME Inv, NEW p \in Places, NEW v, io' = [io EXCEPT ![p] = v],
         p = FailureBlock => v \in {"TROK", "TRFA"},
         p # FailureBlock => \E b \in AdminBlocks : p = LogBlock(b) /\ v \in OperationsOf(b),
         UNCHANGED <<disk, cache, ops, nest, trouble>>, nest = 0,
         phase' \in {"save", "mark", "write", "clear"},
         /\ io'[p] = v
         /\ \A b \in AdminBlocks : io'[Block(b)] = io[Block(b)]
         /\ p = FailureBlock => \A b \in AdminBlocks : io'[LogBlock(b)] = io[LogBlock(b)]
         /\ p # FailureBlock => io'[FailureBlock] = io[FailureBlock]
         /\ \A q \in Places : q # p => io'[q] = io[q]
         => Flush'
  PROVE  Inv'
<1>1. Typed(disk) /\ Typed(io)
  BY DiskTypes DEF Inv
<1>2. DOMAIN io' = Places /\ io'[p] = v /\ \A q \in Places : q # p => io'[q] = io[q]
  BY <1>1, WriteFields DEF Typed
<1>3. /\ \A b \in AdminBlocks : io'[Block(b)] = io[Block(b)]
      /\ p = FailureBlock => \A b \in AdminBlocks : io'[LogBlock(b)] = io[LogBlock(b)]
      /\ p # FailureBlock => io'[FailureBlock] = io[FailureBlock]
  BY <1>2, PlaceFacts
<1>4. \A b \in AdminBlocks : io'[LogBlock(b)] \in OperationsOf(b) \cup {Junk}
  <2> TAKE b \in AdminBlocks
  <2>1. CASE p = LogBlock(b)
    BY <1>2, <2>1, PlaceFacts
  <2>2. CASE p # LogBlock(b)
    BY <1>1, <1>2, <2>2, PlaceFacts DEF Typed
  <2> QED
    BY <2>1, <2>2
<1>5. Typed(disk') /\ Typed(io')
  BY <1>1, <1>2, <1>3, <1>4 DEF Typed
<1>6. Flush'
  BY <1>2, <1>3
<1> QED
  BY <1>3, <1>5, <1>6, LogStepInv

LEMMA SaveOperationInv ==
  ASSUME Inv, NEW b \in AdminBlocks, SaveOperation(b)
  PROVE  Inv'
<1>1. /\ phase = "save" /\ io' = [io EXCEPT ![LogBlock(b)] = ops[0][b]]
      /\ UNCHANGED <<disk, cache, ops, nest, trouble, phase>>
  BY DEF SaveOperation
<1>2. nest = 0 /\ ops[0][b] \in OperationsOf(b)
  BY <1>1, DiskTypes, BlockArguments DEF Inv, Nesting
<1>3. LogBlock(b) \in Places /\ LogBlock(b) # FailureBlock
  BY PlaceFacts
<1>4. ASSUME /\ io'[LogBlock(b)] = ops[0][b]
             /\ \A c \in AdminBlocks : io'[Block(c)] = io[Block(c)]
             /\ io'[FailureBlock] = io[FailureBlock]
             /\ \A q \in Places : q # LogBlock(b) => io'[q] = io[q]
      PROVE  Flush'
  <2>1. \A c \in AdminBlocks : io'[LogBlock(c)] \in {Junk, ops[0][c]}
    BY <1>1, <1>4, PlaceFacts DEF Inv, Flush
  <2> QED
    BY <1>1, <1>4, <2>1 DEF Inv, Flush
<1> QED
  BY <1>1, <1>2, <1>3, <1>4, WriteStepInv

LEMMA MarkFailureInv ==
  ASSUME Inv, MarkFailure
  PROVE  Inv'
<1>1. /\ phase = "save" /\ phase' = "mark" /\ Unsaved = {} /\ io = disk
      /\ io' = [io EXCEPT ![FailureBlock] = "TRFA"]
      /\ UNCHANGED <<disk, cache, ops, nest, trouble>>
  BY DEF MarkFailure, Flushed
<1>2. nest = 0 /\ FailureBlock \in Places
  BY <1>1, DiskTypes, PlaceFacts DEF Inv, Nesting
<1>3. ASSUME /\ io'[FailureBlock] = "TRFA"
             /\ \A c \in AdminBlocks : io'[Block(c)] = io[Block(c)]
             /\ \A c \in AdminBlocks : io'[LogBlock(c)] = io[LogBlock(c)]
      PROVE  Flush'
  BY <1>1, <1>3 DEF Inv, Flush, Unsaved
<1> QED
  BY <1>1, <1>2, <1>3, WriteStepInv

LEMMA ClearFailureInv ==
  ASSUME Inv, ClearFailure
  PROVE  Inv'
<1>1. /\ phase = "write" /\ phase' = "clear" /\ ~HasTransaction /\ io = disk
      /\ io' = [io EXCEPT ![FailureBlock] = "TROK"]
      /\ UNCHANGED <<disk, cache, ops, nest, trouble>>
  BY DEF ClearFailure, Flushed
<1>2. nest = 0 /\ FailureBlock \in Places
  BY <1>1, DiskTypes, PlaceFacts DEF Inv, Nesting
<1>3. ops[0] = NoOperations
  BY <1>1, DiskTypes DEF Inv, HasTransaction, NoOperations
<1>4. ASSUME /\ io'[FailureBlock] = "TROK"
             /\ \A c \in AdminBlocks : io'[Block(c)] = io[Block(c)]
             /\ \A c \in AdminBlocks : io'[LogBlock(c)] = io[LogBlock(c)]
      PROVE  Flush'
  BY <1>1, <1>3, <1>4 DEF Inv, Flush
<1> QED
  BY <1>1, <1>2, <1>4, WriteStepInv

LEMMA EndFlushInv ==
  ASSUME Inv, EndFlush
  PROVE  Inv'
<1>1. /\ phase = "clear" /\ phase' = "idle" /\ io = disk
      /\ disk' = WithLog(disk, NoOperations) /\ io' = disk'
      /\ UNCHANGED <<cache, ops, nest, trouble>>
  BY DEF EndFlush, Flushed
<1>2. Typed(disk) /\ disk[FailureBlock] = "TROK"
  BY <1>1, DiskTypes DEF Inv, Flush
<1>3. /\ DOMAIN disk' = Places /\ disk'[FailureBlock] = "TROK"
      /\ \A b \in AdminBlocks :
           disk'[Block(b)] = disk[Block(b)] /\ disk'[LogBlock(b)] = NoOperations[b]
  BY <1>1, <1>2, WithLogFacts
<1>4. Typed(disk') /\ Typed(io')
  BY <1>1, <1>2, <1>3, NoOperationsFacts DEF Typed
<1>5. Flush'
  BY <1>1, <1>3 DEF Flush
<1> QED
  BY <1>1, <1>3, <1>4, <1>5, LogStepInv
(* The blocks in use keep what their operations make of them when one of   *)
(* them is written.                                                        *)
LEMMA WriteOperationInv ==
  ASSUME Inv, NEW b \in AdminBlocks, WriteOperation(b)
  PROVE  /\ Inv'
         /\ UsedBefore' = UsedBefore
         /\ ops'[0][b] = NoOperation
         /\ b \in UsedBefore => io'[Block(b)] = Uncompress(ops[0][b], io[Block(b)])
         /\ \A c \in AdminBlocks \ {b} :
              ops'[0][c] = ops[0][c] /\ io'[Block(c)] = io[Block(c)]
<1> DEFINE cb == ReadCacheBuffer(b)
           was == cache[b]
           old == ops[0][b]
           d == io[Block(b)]
           used == b \in UsedBefore
           x == IF cb.shared THEN NoBuffers
                ELSE [original |-> Shown(cb), latest |-> Shown(cb), shared |-> TRUE, empty |-> FALSE]
<1>1. /\ phase \in {"mark", "write"} /\ phase' = "write"
      /\ phase = "mark" => io = disk
      /\ io' = [io EXCEPT ![Block(b)] = Shown(cb)]
      /\ cache' = [cache EXCEPT ![b] = x]
      /\ UNCHANGED <<disk, nest, trouble>>
  BY DEF WriteOperation, Flushed
<1>2. ops' = [ops EXCEPT ![0][b] = NoOperation]
  BY DEF WriteOperation
<1>3. nest = 0 /\ ops[1] = NoOperations /\ trouble = "none"
  BY <1>1, DiskTypes DEF Inv, Nesting
<1>4. \A c \in AdminBlocks : ops[1][c] = NoOperation
  BY <1>3, NoOperationsFacts
<1>5. UsedNow = UsedBefore /\ SpaceBlock \in UsedBefore /\ SpaceBlock \in AdminBlocks
  BY <1>4, SpaceFacts DEF Inv, UsedNow, UsedBefore, LatestOperation
<1>6. /\ was \in Buffers /\ old \in OperationsOf(b) /\ d \in DataOf(b)
      /\ BlockOK(was, old, NoOperation, d, used, used, "none")
      /\ ReadOK(was, cb, old, NoOperation, d)
  <2>1. BlockTypes(b) /\ Sound(was, ops[0][b], ops[1][b], d)
    BY BlockArguments
  <2>2. ReadOK(was, cb, ops[0][b], ops[1][b], d)
    BY <2>1, ReadFacts
  <2> QED
    BY <1>3, <1>4, <1>5, <2>2, BlockArguments
<1>7. used \in BOOLEAN
  OBVIOUS
<1>8. /\ x \in Buffers /\ Shown(cb) \in Data
      /\ BlockOK(x, NoOperation, NoOperation, Shown(cb), used, used, "none")
      /\ used => Shown(cb) = Uncompress(old, d)
  <2> HIDE DEF used, cb, was, old, d
  <2> QED
    BY <1>6, <1>7, WriteFacts
<1> HIDE DEF cb, x
<1>9. /\ DOMAIN io' = Places /\ io'[Block(b)] = Shown(cb)
      /\ \A c \in AdminBlocks \ {b} : io'[Block(c)] = io[Block(c)]
      /\ \A c \in AdminBlocks : io'[LogBlock(c)] = io[LogBlock(c)]
      /\ io'[FailureBlock] = io[FailureBlock]
  BY <1>1, DiskTypes, PlaceFacts DEF Inv, Typed
<1>10. /\ ops' \in [0 .. 1 -> [AdminBlocks -> Operation \cup {NoOperation}]]
       /\ ops'[0][b] = NoOperation /\ ops'[1] = ops[1]
       /\ \A c \in AdminBlocks \ {b} : ops'[0][c] = ops[0][c]
  BY <1>2, DiskTypes DEF Inv
<1>11. /\ cache' \in [AdminBlocks -> Buffers] /\ cache'[b] = x
       /\ \A c \in AdminBlocks \ {b} : cache'[c] = cache[c]
  BY <1>1, <1>8, DiskTypes DEF Inv
<1>12. UsedBefore' = UsedBefore /\ UsedNow' = UsedNow
  <2>1. CASE b = SpaceBlock
    <3>1. io'[Block(SpaceBlock)] = UsedBefore /\ ops'[0][SpaceBlock] = NoOperation
      BY <1>5, <1>8, <1>9, <1>10, <2>1 DEF UsedBefore
    <3>2. ops'[1][SpaceBlock] = NoOperation
      BY <1>4, <1>5, <1>10
    <3> QED
      BY <1>5, <3>1, <3>2 DEF UsedNow, UsedBefore, LatestOperation, Uncompress, NoOperation
  <2>2. CASE b # SpaceBlock
    BY <1>5, <1>9, <1>10, <2>2 DEF UsedNow, UsedBefore, LatestOperation
  <2> QED
    BY <2>1, <2>2
<1>13. Types'
  <2>1. Shown(cb) \in DataOf(b)
    <3>1. CASE b = SpaceBlock
      BY <1>5, <1>6, <1>8, <3>1, OperationFacts
    <3>2. CASE b # SpaceBlock
      BY <1>8, <3>2, DataFacts
    <3> QED
      BY <3>1, <3>2
  <2>2. Typed(io') /\ Typed(disk')
    BY <1>1, <1>9, <2>1, DiskTypes DEF Inv, Typed
  <2>3. \A c \in AdminBlocks : ops'[0][c] \in OperationsOf(c) /\ ops'[1][c] \in OperationsOf(c)
    BY <1>10, BlockArguments, NoOperationsFacts
  <2>4. \A c \in AdminBlocks : DataOf(c) \subseteq Data
          /\ OperationsOf(c) \cup {Junk} \subseteq Operation \cup {NoOperation, Junk}
    BY DataFacts DEF OperationsOf
  <2>5. TypeOK'
    BY <1>1, <1>10, <1>11, <2>2, <2>4 DEF Inv, Types, TypeOK, Typed
  <2> QED
    BY <2>2, <2>3, <2>5 DEF Types, Typed
<1>14. Nesting'
  BY <1>1, <1>3, <1>10 DEF Nesting
<1>15. Flush'
  <2>1. /\ io[FailureBlock] = "TRFA" /\ disk[FailureBlock] = "TRFA"
        /\ \A c \in AdminBlocks : io[LogBlock(c)] = disk[LogBlock(c)] /\ io[LogBlock(c)] # Junk
    <3>1. \A c \in AdminBlocks : ops[0][c] # Junk
      BY BlockArguments, OperationFacts
    <3> QED
      BY <1>1, <3>1 DEF Inv, Flush
  <2> QED
    BY <1>1, <1>9, <2>1 DEF Flush
<1>16. ASSUME NEW c \in AdminBlocks PROVE BlockInv(c)'
  <2>1. CASE c = b
    BY <1>1, <1>3, <1>4, <1>5, <1>8, <1>9, <1>10, <1>11, <1>12, <2>1 DEF BlockInv
  <2>2. CASE c # b
    BY <1>1, <1>9, <1>10, <1>11, <1>12, <2>2 DEF Inv, BlockInv
  <2> QED
    BY <2>1, <2>2
<1> QED
  BY <1>8, <1>9, <1>10, <1>12, <1>13, <1>14, <1>15, <1>16 DEF Inv
---------------------------------------------------------------------------
(* Crash and mount *)

(* What loadtransaction() makes of a log that has been written.            *)
LEMMA FoundFacts ==
  ASSUME NEW d, NEW b \in AdminBlocks,
         d[FailureBlock] = "TRFA" => d[LogBlock(b)] \in OperationsOf(b)
  PROVE  Found(d)[b] \in OperationsOf(b) /\ Found(d)[b].bits # "delete"
<1>1. NoOperation \in OperationsOf(b) /\ NoOperation.bits # "delete"
  BY NoOperationsFacts, NoOperationFacts
<1>2. CASE d[FailureBlock] # "TRFA"
  BY <1>1, <1>2, NoOperationsFacts DEF Found
<1>3. CASE d[FailureBlock] = "TRFA"
  <2>1. Found(d)[b] = IF \E c \in AdminBlocks : c <= b /\ d[LogBlock(c)].bits = "delete"
                      THEN NoOperation ELSE d[LogBlock(b)]
    BY <1>3 DEF Found, Loaded
  <2>2. b <= b
    BY SfsAssumption DEF SfsAssumption
  <2> QED
    BY <1>1, <1>3, <2>1, <2>2
<1> QED
  BY <1>2, <1>3

LEMMA CrashInv ==
  ASSUME Inv, Crash
  PROVE  Inv'
<1> DEFINE failed == disk[FailureBlock] = "TRFA"
<1>1. /\ nest' = 0 /\ trouble' = "none"
      /\ cache' = [b \in AdminBlocks |-> NoBuffers]
      /\ phase' = IF failed THEN "write" ELSE "idle"
      /\ disk' = IF failed THEN disk ELSE WithLog(disk, NoOperations)
      /\ io' = disk'
  BY DEF Crash
<1>2. ops' = [ops EXCEPT ![0] = Found(disk), ![1] = NoOperations]
  BY DEF Crash
<1>3. Typed(disk) /\ ops \in [0 .. 1 -> [AdminBlocks -> Operation \cup {NoOperation}]]
  BY DiskTypes DEF Inv
<1>4. ASSUME failed, NEW b \in AdminBlocks PROVE disk[LogBlock(b)] # Junk
  <2>1. ops[0][b] # Junk
    BY BlockArguments, OperationFacts
  <2>2. phase \in {"mark", "write", "clear"}
    BY <1>4 DEF Inv, Types, TypeOK, Flush
  <2> QED
    BY <1>4, <2>1, <2>2 DEF Inv, Flush
<1>5. ASSUME NEW b \in AdminBlocks
      PROVE  Found(disk)[b] \in OperationsOf(b) /\ Found(disk)[b].bits # "delete"
  <2>1. failed => disk[LogBlock(b)] \in OperationsOf(b)
    BY <1>3, <1>4 DEF Typed
  <2> QED
    BY <2>1, FoundFacts
<1>6. /\ ops' \in [0 .. 1 -> [AdminBlocks -> Operation \cup {NoOperation}]]
      /\ ops'[0] = Found(disk) /\ ops'[1] = NoOperations
      /\ \A b \in AdminBlocks : ops'[1][b] = NoOperation
  <2>1. Found(disk) \in [AdminBlocks -> Operation \cup {NoOperation}]
    <3>1. Found(disk) = [b \in AdminBlocks |-> Found(disk)[b]]
      BY DEF Found, Loaded, NoOperations
    <3>2. \A b \in AdminBlocks : Found(disk)[b] \in Operation \cup {NoOperation}
      BY <1>5, OperationFacts
    <3> QED
      BY <3>1, <3>2
  <2> QED
    BY <1>2, <1>3, <2>1, NoOperationsFacts
<1>7. /\ Typed(disk') /\ Typed(io') /\ io' = disk'
      /\ failed => \A b \in AdminBlocks : disk'[LogBlock(b)] = disk[LogBlock(b)]
      /\ \A b \in AdminBlocks : disk'[Block(b)] = disk[Block(b)]
      /\ disk'[FailureBlock] = disk[FailureBlock]
  <2>1. CASE failed
    BY <1>1, <1>3, <2>1
  <2>2. CASE ~failed
    <3>1. disk' = WithLog(disk, NoOperations)
      BY <1>1, <2>2
    <3>2. /\ DOMAIN disk' = Places /\ disk'[FailureBlock] = disk[FailureBlock]
          /\ \A b \in AdminBlocks :
               disk'[Block(b)] = disk[Block(b)] /\ disk'[LogBlock(b)] = NoOperation
      BY <3>1, WithLogFacts, NoOperationsFacts
    <3>3. Typed(disk')
      BY <1>3, <3>2, NoOperationsFacts DEF Typed
    <3> QED
      BY <1>1, <2>2, <3>2, <3>3
  <2> QED
    BY <2>1, <2>2
<1>8. Types'
  <2>1. \A b \in AdminBlocks : DataOf(b) \subseteq Data
          /\ OperationsOf(b) \cup {Junk} \subseteq Operation \cup {NoOperation, Junk}
    BY DataFacts DEF OperationsOf
  <2>2. cache' \in [AdminBlocks -> Buffers]
    BY <1>1, NoBuffersFacts DEF Is
  <2>3. phase' \in {"idle", "write"}
    BY <1>1
  <2>4. TypeOK'
    BY <1>1, <1>6, <1>7, <2>1, <2>2, <2>3 DEF TypeOK, Typed
  <2>5. \A b \in AdminBlocks : ops'[0][b] \in OperationsOf(b) /\ ops'[1][b] \in OperationsOf(b)
    BY <1>5, <1>6, NoOperationsFacts
  <2> QED
    BY <1>7, <2>4, <2>5 DEF Types, Typed
<1>9. Nesting'
  BY <1>1, <1>6 DEF Nesting
<1>10. Flush'
  <2>1. CASE failed
    BY <1>1, <1>4, <1>7, <2>1 DEF Flush
  <2>2. CASE ~failed
    BY <1>1, <1>3, <1>7, <2>2 DEF Flush, Typed
  <2> QED
    BY <2>1, <2>2
<1>11. ASSUME NEW b \in AdminBlocks PROVE BlockInv(b)'
  <2> DEFINE used == b \in UsedBefore'
  <2>1. UsedNow' = UsedBefore'
    BY <1>6, DataFacts DEF UsedNow, UsedBefore, LatestOperation
  <2>2. /\ cache'[b] = NoBuffers /\ ops'[0][b].bits # "delete" /\ ops'[1][b] = NoOperation
        /\ trouble' = "none" /\ used \in BOOLEAN
    BY <1>1, <1>5, <1>6
  <2> HIDE DEF used
  <2>3. BlockOK(NoBuffers, ops'[0][b], NoOperation, io'[Block(b)], used, used, "none")
    BY <2>2, EmptyFacts
  <2> QED
    BY <2>1, <2>2, <2>3 DEF BlockInv, used
<1> QED
  BY <1>8, <1>9, <1>10, <1>11 DEF Inv
---------------------------------------------------------------------------
(* Theorems *)

LEMMA InitInv ==
  ASSUME Init
  PROVE  Inv
<1>1. PICK first \in Contents :
        disk = [p \in Places |->
                  CASE p = FailureBlock      -> "TROK"
                    [] p = Block(SpaceBlock) -> Occupied
                    [] p[1] = "log"          -> NoOperation
                    [] OTHER                 -> IF p[2] \in Occupied THEN first ELSE Cleared]
  BY DEF Init
<1>2. /\ io = disk /\ cache = [b \in AdminBlocks |-> NoBuffers]
      /\ ops = [level \in 0 .. 1 |-> NoOperations]
      /\ nest = 0 /\ trouble = "none" /\ phase = "idle"
  BY DEF Init
<1>3. Occupied \in Spaces /\ first \in Data /\ Cleared \in Data
  BY DataFacts, SfsAssumption DEF SfsAssumption, Spaces
<1>4. disk[FailureBlock] = "TROK"
  <2>1. /\ FailureBlock \in Places /\ FailureBlock # Block(SpaceBlock)
        /\ FailureBlock[1] # "log"
    BY PlaceFacts, PlaceParts, DataFacts
  <2> QED
    BY <1>1, <2>1
<1>5. disk[Block(SpaceBlock)] = Occupied
  <2>1. /\ Block(SpaceBlock) \in Places /\ FailureBlock # Block(SpaceBlock)
        /\ Block(SpaceBlock)[1] # "log"
    BY PlaceFacts, PlaceParts, DataFacts
  <2> QED
    BY <1>1, <2>1
<1>6. ASSUME NEW b \in AdminBlocks
      PROVE  /\ b # SpaceBlock => disk[Block(b)] \in Data
             /\ disk[LogBlock(b)] = NoOperation
  <2>1. /\ Block(b) \in Places /\ LogBlock(b) \in Places
        /\ Block(b) # FailureBlock /\ LogBlock(b) # FailureBlock
        /\ LogBlock(b) # Block(SpaceBlock) /\ (b # SpaceBlock => Block(b) # Block(SpaceBlock))
        /\ Block(b)[1] # "log" /\ LogBlock(b)[1] = "log"
    BY PlaceFacts, PlaceParts, DataFacts
  <2>2. disk[LogBlock(b)] = NoOperation
    BY <1>1, <2>1
  <2>3. ASSUME b # SpaceBlock PROVE disk[Block(b)] \in Data
    <3>1. disk[Block(b)] = IF Block(b)[2] \in Occupied THEN first ELSE Cleared
      BY <1>1, <2>1, <2>3
    <3> QED
      BY <1>3, <3>1
  <2> QED
    BY <2>2, <2>3
<1>7. Typed(disk) /\ Typed(io)
  <2>1. DOMAIN disk = Places
    BY <1>1
  <2>2. \A b \in AdminBlocks : disk[Block(b)] \in DataOf(b)
    BY <1>3, <1>5, <1>6 DEF DataOf
  <2> QED
    BY <1>2, <1>4, <1>6, <2>1, <2>2, NoOperationsFacts DEF Typed
<1>8. /\ ops \in [0 .. 1 -> [AdminBlocks -> Operation \cup {NoOperation}]]
      /\ ops[0] = NoOperations /\ ops[1] = NoOperations
  BY <1>2, NoOperationsFacts
<1>9. Types
  <2>1. cache \in [AdminBlocks -> Buffers]
    BY <1>2, NoBuffersFacts DEF Is
  <2>2. \A b \in AdminBlocks : DataOf(b) \subseteq Data
          /\ OperationsOf(b) \cup {Junk} \subseteq Operation \cup {NoOperation, Junk}
    BY DataFacts DEF OperationsOf
  <2>3. TypeOK
    BY <1>2, <1>7, <1>8, <2>1, <2>2 DEF TypeOK, Typed
  <2> QED
    BY <1>7, <1>8, <2>3, NoOperationsFacts DEF Types, Typed
<1>10. Nesting /\ Flush
  BY <1>2, <1>4, <1>8 DEF Nesting, Flush
<1>11. ASSUME NEW b \in AdminBlocks PROVE BlockInv(b)
  <2> DEFINE used == b \in UsedBefore
  <2>1. UsedNow = UsedBefore
    BY <1>8, DataFacts DEF UsedNow, UsedBefore, LatestOperation
  <2>2. /\ cache[b] = NoBuffers /\ ops[0][b] = NoOperation /\ ops[1][b] = NoOperation
        /\ NoOperation.bits # "delete" /\ used \in BOOLEAN
    BY <1>2, <1>8, NoOperationsFacts, NoOperationFacts
  <2> HIDE DEF used
  <2>3. BlockOK(NoBuffers, ops[0][b], NoOperation, io[Block(b)], used, used, "none")
    BY <2>2, EmptyFacts
  <2> QED
    BY <1>2, <2>1, <2>2, <2>3 DEF BlockInv, used
<1> QED
  BY <1>9, <1>10, <1>11 DEF Inv

(* Every step of the handler, of the cache below, and a crash keep the invariant. *)
LEMMA NextInv ==
  ASSUME Inv, [Next]_vars, FailAfterFree = FALSE
  PROVE  Inv'
<1>1. CASE NewTransaction
  BY <1>1, NewTransactionInv
<1>2. CASE Changes
  <2>1. PICK b \in AdminBlocks :
          \/ \E data \in Contents : ChangeBlock(b, data) \/ AllocBlock(b, data)
          \/ FreeBlock(b) \/ ChangeFails(b) \/ AllocFails(b)
    BY <1>2 DEF Changes
  <2> QED
    BY <2>1, ChangeBlockInv, AllocBlockInv, FreeBlockInv, ChangeFailsInv, AllocFailsInv
<1>3. CASE EndTransaction \/ DeleteTransaction
  BY <1>3, EndTransactionInv, DeleteTransactionInv
<1>4. CASE StartFlush \/ Flushing
  BY <1>4, StartFlushInv, SaveOperationInv, WriteOperationInv, MarkFailureInv,
     ClearFailureInv, EndFlushInv DEF Flushing
<1>5. CASE \E b \in AdminBlocks : ReuseBuffer(b) \/ ReadBlock(b)
  BY <1>5, ReuseBufferInv, ReadBlockInv
<1>6. CASE \E p \in Places : CopyBack(p)
  BY <1>6, CopyBackInv
<1>7. CASE Crash
  BY <1>7, CrashInv
<1>8. CASE UNCHANGED vars
  BY <1>8 DEF vars, Inv, Types, TypeOK, Nesting, Flush, BlockInv, UsedNow, UsedBefore, LatestOperation
<1> QED
  BY <1>1, <1>2, <1>3, <1>4, <1>5, <1>6, <1>7, <1>8 DEF Next

(* As long as no transaction fails when it has changed a block and freed   *)
(* it, whatever the order of transactions, flushes, reuse of buffers and   *)
(* crashes, the invariant holds.                                           *)
THEOREM SpecInv ==
  ASSUME FailAfterFree = FALSE
  PROVE  Spec => []Inv
<1>1. Init => Inv
  BY InitInv
<1>2. Inv /\ [Next]_vars => Inv'
  BY NextInv
<1> QED
  BY <1>1, <1>2, PTL DEF Spec

(* The buffers, the operations and the blocks of the log hold what the     *)
(* code takes them to hold.                                                *)
THEOREM SpecTypeOK ==
  ASSUME FailAfterFree = FALSE
  PROVE  Spec => []TypeOK
<1>1. Inv => TypeOK
  BY DEF Inv, Types
<1> QED
  BY <1>1, SpecInv, PTL

(* The buffer that readcachebuffer() returns for a block in use without a  *)
(* look at the operations holds what the operations make of the block.     *)
THEOREM SpecLatestIsLatest ==
  ASSUME FailAfterFree = FALSE
  PROVE  Spec => []LatestIsLatest
<1>1. Inv => LatestIsLatest
  <2> SUFFICES ASSUME Inv, trouble # "failed", NEW b \in AdminBlocks, b \in Used, cache[b].latest # None
               PROVE  cache[b].latest = Uncompress(LatestOperation(b), io[Block(b)])
    BY DEF LatestIsLatest
  <2>1. b \in UsedNow
    BY UsedFacts
  <2> QED
    BY <2>1, BlockArguments, LatestIsNewest DEF BlockOK, Right
<1> QED
  BY <1>1, SpecInv, PTL

(* The rules for cache buffers hold whenever a call of the handler is over. *)
THEOREM SpecCacheBufferRules ==
  ASSUME FailAfterFree = FALSE
  PROVE  Spec => []CacheBufferRules
<1>1. Inv => CacheBufferRules
  BY BlockArguments, LatestIsNewest, NoOperationFacts
  DEF CacheBufferRules, Sound, Newest, Unchanged
<1> QED
  BY <1>1, SpecInv, PTL

(* Out of a transaction, and out of one that has failed, every block in    *)
(* use reads as its latest operation makes it.                             *)
LEMMA WorkFacts ==
  ASSUME Inv, trouble # "failed"
  PROVE  work = [b \in UsedNow |-> Uncompress(LatestOperation(b), io[Block(b)])]
<1>1. \A b \in UsedNow : Current(b) = Uncompress(LatestOperation(b), io[Block(b)])
  BY InUseFacts DEF Current
<1>2. SpaceBlock \in AdminBlocks /\ SpaceBlock \in UsedNow /\ UsedNow \subseteq AdminBlocks
  BY SpaceFacts DEF Inv
<1>3. Current(SpaceBlock) = UsedNow
  BY <1>1, <1>2 DEF UsedNow
<1> QED
  BY <1>1, <1>2, <1>3 DEF work, Volume

LEMMA LatestFacts ==
  ASSUME Inv
  PROVE  latest = [b \in UsedBefore |-> Uncompress(ops[0][b], io[Block(b)])]
<1>1. SpaceBlock \in AdminBlocks /\ UsedBefore \subseteq AdminBlocks
  BY SpaceFacts DEF Inv
<1> QED
  BY <1>1 DEF latest, Volume, UsedBefore

LEMMA OutsideFacts ==
  ASSUME Inv, nest = 0
  PROVE  work = latest /\ trouble = "none"
<1>1. ops[1] = NoOperations /\ trouble = "none"
  BY DEF Inv, Nesting
<1>2. \A b \in AdminBlocks : LatestOperation(b) = ops[0][b]
  BY <1>1, NoOperationsFacts DEF LatestOperation
<1>3. UsedNow = UsedBefore /\ UsedBefore \subseteq AdminBlocks
  BY <1>2, SpaceFacts DEF Inv, UsedNow, UsedBefore
<1> QED
  BY <1>1, <1>2, <1>3, WorkFacts, LatestFacts

(* A transaction that was given up has left nothing behind, and one that   *)
(* has ended reads as it was.                                              *)
THEOREM SpecGivenUpLeavesNothing ==
  ASSUME FailAfterFree = FALSE
  PROVE  Spec => []GivenUpLeavesNothing
<1>1. Inv => GivenUpLeavesNothing
  BY OutsideFacts DEF GivenUpLeavesNothing
<1> QED
  BY <1>1, SpecInv, PTL

-----------------------------------------------------------------------------
(* Crashes: a mount at any point of a flush finds all of it or none if it  *)
(* reads the log to its end, and whatever it reads, nothing but what a     *)
(* crash leaves can go wrong.  Any blocks may be freed: a freed block      *)
(* below one that changes makes a log that is not whole, and then part of  *)
(* the flush may be lost (the run sfs_free).                               *)

(* From the TransactionFailure block on, the log and the disk give what    *)
(* the operations that remain and the cache below give.                    *)
Replay ==
  phase \in {"mark", "write", "clear"} /\ WholeLog =>
    \A b \in UsedBefore :
      /\ io[LogBlock(b)].bits # "delete"
      /\ ops[0][b] \in {NoOperation, io[LogBlock(b)]}
      /\ Uncompress(ops[0][b], io[Block(b)]) = Uncompress(io[LogBlock(b)], disk[Block(b)])

CrashSafe == Inv /\ Replay

(* What the types and the flush give for a block of the log.               *)
LEMMA LogFacts ==
  ASSUME Inv, phase \in {"mark", "write", "clear"}, NEW b \in AdminBlocks
  PROVE  /\ nest = 0 /\ disk[LogBlock(b)] = io[LogBlock(b)]
         /\ disk[LogBlock(b)] \in OperationsOf(b) /\ disk[LogBlock(b)] # Junk
<1>1. ops[0][b] \in OperationsOf(b) /\ ops[0][b] # Junk
  BY BlockArguments, OperationFacts
<1>2. disk[LogBlock(b)] \in OperationsOf(b) \cup {Junk}
  BY DEF Inv, Types
<1>3. nest = 0
  BY DiskTypes DEF Inv, Nesting
<1> QED
  BY <1>1, <1>2, <1>3 DEF Inv, Flush

LEMMA FailedPhase ==
  ASSUME Inv, disk[FailureBlock] = "TRFA"
  PROVE  phase \in {"mark", "write", "clear"}
  BY DEF Inv, Types, TypeOK, Flush

(* Steps that leave the log on the disk as it is.                          *)
LEMMA SameLog ==
  ASSUME \A b \in AdminBlocks : disk'[LogBlock(b)] = disk[LogBlock(b)]
  PROVE  WholeLog' = WholeLog
  BY DEF WholeLog

LEMMA CopyBackLog ==
  ASSUME Inv, phase \in {"mark", "write", "clear"}, NEW p \in Places, CopyBack(p)
  PROVE  WholeLog' = WholeLog
<1>1. io[p] # disk[p] /\ disk' = [disk EXCEPT ![p] = io[p]]
  BY DEF CopyBack
<1>2. \A b \in AdminBlocks : disk'[LogBlock(b)] = disk[LogBlock(b)]
  BY <1>1, LogFacts
<1> QED
  BY <1>2, SameLog

(* The operations that a mount finds are those that were logged.           *)
LEMMA FoundNotJunk ==
  ASSUME Inv, disk[FailureBlock] = "TRFA", NEW b \in AdminBlocks
  PROVE  Found(disk)[b] # Junk
<1>1. phase \in {"mark", "write", "clear"}
  BY FailedPhase
<1> QED
  BY <1>1, LogFacts, FoundFacts, NoOperationFacts DEF OperationsOf

LEMMA FoundIsLogged ==
  ASSUME CrashSafe, WholeLog, disk[FailureBlock] = "TRFA", NEW b \in UsedBefore
  PROVE  Found(disk)[b] = disk[LogBlock(b)] /\ disk[LogBlock(b)] = io[LogBlock(b)]
<1>1. Inv /\ Replay /\ phase \in {"mark", "write", "clear"}
  BY FailedPhase DEF CrashSafe
<1>2. b \in AdminBlocks
  BY <1>1, SpaceFacts DEF Inv
<1>3. /\ disk[LogBlock(b)] = io[LogBlock(b)] /\ disk[LogBlock(b)].bits # "delete"
      /\ disk[LogBlock(b)] \in OperationsOf(b)
  BY <1>1, <1>2, LogFacts DEF Replay
<1>4. CASE \E c \in AdminBlocks : c <= b /\ disk[LogBlock(c)].bits = "delete"
  <2>1. PICK c \in AdminBlocks : c <= b /\ disk[LogBlock(c)].bits = "delete"
    BY <1>4
  <2>2. c < b
    BY <1>2, <1>3, <2>1, SfsAssumption DEF SfsAssumption
  <2>3. disk[LogBlock(b)] = NoOperation
    BY <1>2, <1>3, <2>1, <2>2, OperationFacts DEF WholeLog
  <2>4. Found(disk)[b] = NoOperation
    BY <1>2, <1>4 DEF Found, Loaded
  <2> QED
    BY <1>3, <2>3, <2>4
<1>5. CASE ~\E c \in AdminBlocks : c <= b /\ disk[LogBlock(c)].bits = "delete"
  BY <1>2, <1>3, <1>5 DEF Found, Loaded
<1> QED
  BY <1>4, <1>5

(* The volume that a mount gives, when there is nothing to replay ...      *)
LEMMA StableFacts ==
  ASSUME Types, disk[FailureBlock] = "TROK"
  PROVE  stable = [b \in disk[Block(SpaceBlock)] |-> disk[Block(b)]]
<1>1. Found(disk) = NoOperations /\ \A b \in AdminBlocks : NoOperations[b] = NoOperation
  BY NoOperationsFacts DEF Found
<1>2. NoOperation # Junk /\ \A d : Uncompress(NoOperation, d) = d
  BY NoOperationFacts DEF Uncompress, NoOperation
<1>3. SpaceBlock \in AdminBlocks /\ disk[Block(SpaceBlock)] \subseteq AdminBlocks
  BY DataFacts DEF Types, DataOf
<1> QED
  BY <1>1, <1>2, <1>3 DEF stable, Replayed, Volume

(* ... and when there is.                                                  *)
LEMMA SurvivesFacts ==
  ASSUME CrashSafe, WholeLog, disk[FailureBlock] = "TRFA"
  PROVE  stable = latest
<1> DEFINE found == [b \in AdminBlocks |-> Uncompress(Found(disk)[b], disk[Block(b)])]
<1>1. Inv /\ Replay /\ phase \in {"mark", "write", "clear"}
  BY FailedPhase DEF CrashSafe
<1>2. SpaceBlock \in UsedBefore /\ UsedBefore \subseteq AdminBlocks
  BY <1>1, SpaceFacts DEF Inv
<1>3. \A b \in UsedBefore : found[b] = Uncompress(ops[0][b], io[Block(b)])
  BY <1>1, <1>2, FoundIsLogged DEF Replay
<1>4. found[SpaceBlock] = UsedBefore
  BY <1>2, <1>3 DEF UsedBefore
<1>5. stable = Volume(found)
  BY <1>1, FoundNotJunk DEF stable, Replayed
<1> HIDE DEF found
<1>6. Volume(found) = [b \in UsedBefore |-> Uncompress(ops[0][b], io[Block(b)])]
  BY <1>3, <1>4 DEF Volume
<1> QED
  BY <1>1, <1>5, <1>6, LatestFacts

---------------------------------------------------------------------------
(* The invariant *)

LEMMA MarkedReplay ==
  Inv /\ phase = "mark" => Replay
<1> SUFFICES ASSUME Inv, phase = "mark" PROVE Replay
  OBVIOUS
<1>1. UsedBefore \subseteq AdminBlocks
  BY SpaceFacts DEF Inv
<1>2. \A b \in UsedBefore : ops[0][b].bits # "delete"
  BY <1>1, BlockArguments DEF BlockOK
<1> QED
  BY <1>1, <1>2 DEF Inv, Flush, Replay

LEMMA MarkedReplayStep ==
  (Inv /\ phase = "mark" => Replay)'
  BY MarkedReplay, PTL

(* Steps that leave the blocks, the log and the operations as they are.    *)
LEMMA SameReplay ==
  ASSUME CrashSafe, UNCHANGED <<disk, ops>>, phase \in {"mark", "write", "clear"},
         \A b \in AdminBlocks : io'[Block(b)] = io[Block(b)] /\ io'[LogBlock(b)] = io[LogBlock(b)]
  PROVE  Replay'
<1>1. UsedBefore \subseteq AdminBlocks /\ SpaceBlock \in AdminBlocks
  BY SpaceFacts DEF Inv, CrashSafe
<1>2. UsedBefore' = UsedBefore
  BY <1>1 DEF UsedBefore
<1> QED
  BY <1>1, <1>2, SameLog DEF Replay, CrashSafe

LEMMA WriteOperationReplay ==
  ASSUME CrashSafe, NEW b \in AdminBlocks, WriteOperation(b)
  PROVE  Replay'
<1>1. /\ phase \in {"mark", "write"} /\ disk' = disk
      /\ io' = [io EXCEPT ![Block(b)] = Shown(ReadCacheBuffer(b))]
  BY DEF WriteOperation
<1>2. /\ UsedBefore' = UsedBefore /\ ops'[0][b] = NoOperation
      /\ b \in UsedBefore => io'[Block(b)] = Uncompress(ops[0][b], io[Block(b)])
      /\ \A c \in AdminBlocks \ {b} : ops'[0][c] = ops[0][c] /\ io'[Block(c)] = io[Block(c)]
  BY WriteOperationInv DEF CrashSafe
<1>3. \A c \in AdminBlocks : io'[LogBlock(c)] = io[LogBlock(c)]
  BY <1>1, DiskTypes, PlaceFacts DEF CrashSafe, Inv, Typed
<1>4. UsedBefore \subseteq AdminBlocks
  BY SpaceFacts DEF Inv, CrashSafe
<1>5. \A d : Uncompress(NoOperation, d) = d
  BY DEF Uncompress, NoOperation
<1>6. ASSUME WholeLog, NEW c \in UsedBefore
      PROVE  /\ io'[LogBlock(c)].bits # "delete"
             /\ ops'[0][c] \in {NoOperation, io'[LogBlock(c)]}
             /\ Uncompress(ops'[0][c], io'[Block(c)]) = Uncompress(io'[LogBlock(c)], disk'[Block(c)])
  <2>1. /\ io[LogBlock(c)].bits # "delete"
        /\ ops[0][c] \in {NoOperation, io[LogBlock(c)]}
        /\ Uncompress(ops[0][c], io[Block(c)]) = Uncompress(io[LogBlock(c)], disk[Block(c)])
    BY <1>1, <1>6 DEF CrashSafe, Replay
  <2>2. CASE c = b
    BY <1>1, <1>2, <1>3, <1>4, <1>5, <2>1, <2>2
  <2>3. CASE c # b
    BY <1>1, <1>2, <1>3, <1>4, <2>1, <2>3
  <2> QED
    BY <2>2, <2>3
<1>7. WholeLog' = WholeLog
  BY <1>1, SameLog
<1> QED
  BY <1>2, <1>6, <1>7 DEF Replay

LEMMA CopyBackReplay ==
  ASSUME CrashSafe, NEW p \in Places, CopyBack(p)
  PROVE  Replay'
<1>1. UNCHANGED <<io, ops, phase>> /\ disk' = [disk EXCEPT ![p] = io[p]]
  BY DEF CopyBack
<1>2. \A q \in Places : disk'[q] \in {disk[q], io[q]}
  BY <1>1, DiskTypes DEF CrashSafe, Inv, Typed
<1>3. UsedBefore' = UsedBefore
  BY <1>1 DEF UsedBefore
<1>4. UsedBefore \subseteq AdminBlocks
  BY SpaceFacts DEF Inv, CrashSafe
<1>5. ASSUME phase \in {"mark", "write", "clear"}, WholeLog, NEW b \in UsedBefore
      PROVE  Uncompress(io[LogBlock(b)], disk'[Block(b)]) = Uncompress(ops[0][b], io[Block(b)])
  <2>1. disk'[Block(b)] \in {disk[Block(b)], io[Block(b)]}
    BY <1>2, <1>4, PlaceFacts
  <2>2. /\ ops[0][b] \in {NoOperation, io[LogBlock(b)]}
        /\ Uncompress(ops[0][b], io[Block(b)]) = Uncompress(io[LogBlock(b)], disk[Block(b)])
    BY <1>5 DEF CrashSafe, Replay
  <2> QED
    BY <2>1, <2>2 DEF Uncompress, NoOperation
<1>6. phase \in {"mark", "write", "clear"} => WholeLog' = WholeLog
  BY CopyBackLog DEF CrashSafe
<1> QED
  BY <1>1, <1>3, <1>5, <1>6 DEF CrashSafe, Replay

LEMMA CrashReplay ==
  ASSUME CrashSafe, Crash
  PROVE  Replay'
<1>1. CASE disk[FailureBlock] # "TRFA"
  BY <1>1 DEF Crash, Replay
<1>2. CASE disk[FailureBlock] = "TRFA"
  <2>1. /\ disk' = disk /\ io' = disk
        /\ ops' = [ops EXCEPT ![0] = Found(disk), ![1] = NoOperations]
    BY <1>2 DEF Crash
  <2>2. ops'[0] = Found(disk)
    BY <2>1, DiskTypes DEF CrashSafe, Inv
  <2>3. ASSUME WholeLog, NEW b \in UsedBefore
        PROVE  /\ Found(disk)[b] = disk[LogBlock(b)] /\ disk[LogBlock(b)].bits # "delete"
               /\ Uncompress(Found(disk)[b], disk[Block(b)]) = Uncompress(ops[0][b], io[Block(b)])
    BY <1>2, <2>3, FoundIsLogged, FailedPhase DEF CrashSafe, Replay
  <2>4. ASSUME WholeLog PROVE UsedBefore' = UsedBefore
    <3>1. SpaceBlock \in UsedBefore
      BY SpaceFacts DEF CrashSafe, Inv
    <3> QED
      BY <2>1, <2>2, <2>3, <2>4, <3>1 DEF UsedBefore
  <2>5. WholeLog' = WholeLog
    BY <2>1, SameLog
  <2> QED
    BY <2>1, <2>2, <2>3, <2>4, <2>5 DEF Replay
<1> QED
  BY <1>1, <1>2

(* Only the steps that write blocks, and a crash, can disturb what a       *)
(* replay gives; all others end in a phase without a log to replay.        *)
LEMMA NextCrashSafe ==
  ASSUME CrashSafe, [Next]_vars, FailAfterFree = FALSE
  PROVE  CrashSafe'
<1> SUFFICES Replay'
  BY NextInv DEF CrashSafe
<1>0. Inv' /\ (nest = 1 => phase = "idle")
  BY NextInv DEF CrashSafe, Inv, Nesting
<1>1. CASE phase' \in {"idle", "save"}
  BY <1>1 DEF Replay
<1>2. CASE NewTransaction \/ EndTransaction \/ DeleteTransaction
  BY <1>0, <1>1, <1>2 DEF NewTransaction, EndTransaction, DeleteTransaction
<1>3. CASE Changes
  <2>1. InTransaction
    BY <1>3 DEF Changes, ChangeBlock, AllocBlock, FreeBlock, ChangeFails, AllocFails, Fails
  <2> QED
    BY <1>0, <1>1, <2>1 DEF InTransaction
<1>4. CASE StartFlush \/ EndFlush \/ \E b \in AdminBlocks : SaveOperation(b)
  BY <1>1, <1>4 DEF StartFlush, EndFlush, SaveOperation
<1>5. CASE MarkFailure
  BY <1>0, <1>5, MarkedReplayStep DEF MarkFailure
<1>6. CASE \E b \in AdminBlocks : WriteOperation(b)
  BY <1>6, WriteOperationReplay
<1>7. CASE ClearFailure
  <2>1. \A b \in AdminBlocks : io'[Block(b)] = io[Block(b)] /\ io'[LogBlock(b)] = io[LogBlock(b)]
    BY <1>7, DiskTypes, PlaceFacts DEF CrashSafe, Inv, Typed, ClearFailure
  <2> QED
    BY <1>7, <2>1, SameReplay DEF ClearFailure
<1>8. CASE \/ \E b \in AdminBlocks : ReuseBuffer(b) \/ ReadBlock(b)
           \/ UNCHANGED vars
  <2>1. UNCHANGED <<disk, io, ops, phase>>
    BY <1>8 DEF ReuseBuffer, ReadBlock, vars
  <2> QED
    BY <2>1, SameLog DEF CrashSafe, Replay, UsedBefore
<1>9. CASE \E p \in Places : CopyBack(p)
  BY <1>9, CopyBackReplay
<1>10. CASE Crash
  BY <1>10, CrashReplay
<1> QED
  BY <1>2, <1>3, <1>4, <1>5, <1>6, <1>7, <1>8, <1>9, <1>10 DEF Next, Flushing

LEMMA InitCrashSafe ==
  ASSUME Init
  PROVE  CrashSafe
  BY InitInv DEF CrashSafe, Replay, Init

THEOREM SpecCrashSafe ==
  ASSUME FailAfterFree = FALSE
  PROVE  Spec => []CrashSafe
<1>1. Init => CrashSafe
  BY InitCrashSafe
<1>2. CrashSafe /\ [Next]_vars => CrashSafe'
  BY NextCrashSafe
<1> QED
  BY <1>1, <1>2, PTL DEF Spec

(* The machine may crash at any point of a flush and in any state of the   *)
(* cache below, whatever blocks were freed: once the TransactionFailure    *)
(* block is on the disk, a mount that reads the log to its end gives the   *)
(* volume with all transactions that have ended.                           *)
THEOREM SpecWholeLogSurvivesCrash ==
  ASSUME FailAfterFree = FALSE
  PROVE  Spec => []WholeLogSurvivesCrash
<1>1. CrashSafe => WholeLogSurvivesCrash
  BY SurvivesFacts DEF WholeLogSurvivesCrash, FlushSurvivesCrash
<1> QED
  BY <1>1, SpecCrashSafe, PTL

---------------------------------------------------------------------------
(* Transactions are atomic *)

(* The facts on the three volumes, for the state that a step leads to.     *)
LEMMA OutsideStep ==
  (Inv /\ nest = 0 => work = latest)'
<1>1. Inv /\ nest = 0 => work = latest
  BY OutsideFacts
<1> QED
  BY <1>1, PTL

LEMMA LatestStep ==
  (Inv => latest = [b \in UsedBefore |-> Uncompress(ops[0][b], io[Block(b)])])'
<1>1. Inv => latest = [b \in UsedBefore |-> Uncompress(ops[0][b], io[Block(b)])]
  BY LatestFacts
<1> QED
  BY <1>1, PTL

LEMMA StableStep ==
  (Types /\ disk[FailureBlock] = "TROK"
     => stable = [b \in disk[Block(SpaceBlock)] |-> disk[Block(b)]])'
<1>1. Types /\ disk[FailureBlock] = "TROK"
        => stable = [b \in disk[Block(SpaceBlock)] |-> disk[Block(b)]]
  BY StableFacts
<1> QED
  BY <1>1, PTL

LEMMA SurvivesStep ==
  (CrashSafe /\ WholeLog /\ disk[FailureBlock] = "TRFA" => stable = latest)'
<1>1. CrashSafe /\ WholeLog /\ disk[FailureBlock] = "TRFA" => stable = latest
  BY SurvivesFacts
<1> QED
  BY <1>1, PTL

(* When nothing is to be written any more, the disk has all transactions.  *)
LEMMA WrittenFacts ==
  ASSUME Inv, ops[0] = NoOperations, disk[FailureBlock] = "TROK",
         \A b \in AdminBlocks : io[Block(b)] = disk[Block(b)]
  PROVE  stable = latest
<1>1. SpaceBlock \in AdminBlocks /\ \A d : Uncompress(NoOperation, d) = d
  BY DataFacts DEF Uncompress, NoOperation
<1>2. UsedBefore = disk[Block(SpaceBlock)] /\ UsedBefore \subseteq AdminBlocks
  BY <1>1, NoOperationsFacts, SpaceFacts DEF UsedBefore, Inv
<1> QED
  BY <1>1, <1>2, StableFacts, LatestFacts, NoOperationsFacts DEF Inv

LEMMA FailedPhaseStep ==
  (Inv /\ disk[FailureBlock] = "TRFA" => phase \in {"mark", "write", "clear"})'
<1>1. Inv /\ disk[FailureBlock] = "TRFA" => phase \in {"mark", "write", "clear"}
  BY FailedPhase
<1> QED
  BY <1>1, PTL

LEMMA WrittenStep ==
  (/\ Inv /\ ops[0] = NoOperations /\ disk[FailureBlock] = "TROK"
   /\ \A b \in AdminBlocks : io[Block(b)] = disk[Block(b)]
   => stable = latest)'
<1>1. /\ Inv /\ ops[0] = NoOperations /\ disk[FailureBlock] = "TROK"
      /\ \A b \in AdminBlocks : io[Block(b)] = disk[Block(b)]
      => stable = latest
  BY WrittenFacts
<1> QED
  BY <1>1, PTL
LEMMA SameLatest ==
  ASSUME ops'[0] = ops[0], \A b \in AdminBlocks : io'[Block(b)] = io[Block(b)]
  PROVE  latest' = latest
  BY DataFacts DEF latest, Volume

LEMMA SameStable ==
  ASSUME disk' = disk
  PROVE  stable' = stable
  BY DEF stable

(* A step that writes no block and no operation of level 0, outside a      *)
(* transaction.                                                            *)
LEMMA OutsideStutter ==
  ASSUME Inv, Inv', nest = 0, nest' = 0, stable' = stable, latest' = latest
  PROVE  UNCHANGED Atomic!vars
<1>1. work = latest /\ work' = latest'
  BY OutsideFacts, OutsideStep
<1> QED
  BY <1>1 DEF Atomic!vars

(* What the volumes are after a step within a transaction.                 *)
LEMMA InsideStep ==
  ASSUME Inv, nest = 1, nest' = 1, UNCHANGED <<disk, io>>, ops'[0] = ops[0]
  PROVE  Atomic!Change
<1>1. stable' = stable /\ latest' = latest
  BY SameStable, SameLatest
<1> QED
  BY <1>1 DEF Atomic!Change

LEMMA ChangesAtomic ==
  ASSUME Inv, Changes
  PROVE  Atomic!Change
<1>1. PICK b \in AdminBlocks :
        \/ \E data \in Contents : ChangeBlock(b, data) \/ AllocBlock(b, data)
        \/ FreeBlock(b) \/ ChangeFails(b) \/ AllocFails(b)
  BY DEF Changes
<1>2. ops \in [0 .. 1 -> [AdminBlocks -> Operation \cup {NoOperation}]]
  BY DiskTypes DEF Inv
<1>3. CASE \E data \in Contents : ChangeBlock(b, data)
  <2>1. PICK data \in Contents : ChangeBlock(b, data)
    BY <1>3
  <2>2. InTransaction /\ ops'[0] = ops[0]
    BY <1>2, <2>1 DEF ChangeBlock
  <2> QED
    BY <2>2, InsideStep DEF InTransaction
<1>4. CASE \E data \in Contents : AllocBlock(b, data)
  <2>1. PICK data \in Contents : AllocBlock(b, data)
    BY <1>4
  <2>2. InTransaction /\ ops'[0] = ops[0]
    BY <1>2, <2>1 DEF AllocBlock
  <2> QED
    BY <2>2, InsideStep DEF InTransaction
<1>5. CASE FreeBlock(b)
  <2>1. InTransaction /\ ops'[0] = ops[0]
    BY <1>2, <1>5 DEF FreeBlock
  <2> QED
    BY <2>1, InsideStep DEF InTransaction
<1>6. CASE ChangeFails(b)
  <2>1. InTransaction /\ ops'[0] = ops[0]
    BY <1>6 DEF ChangeFails, Fails
  <2> QED
    BY <2>1, InsideStep DEF InTransaction
<1>7. CASE AllocFails(b)
  <2>1. InTransaction /\ ops'[0] = ops[0]
    BY <1>2, <1>7 DEF AllocFails, Fails
  <2> QED
    BY <2>1, InsideStep DEF InTransaction
<1> QED
  BY <1>1, <1>3, <1>4, <1>5, <1>6, <1>7

LEMMA BeginAtomic ==
  ASSUME Inv, NewTransaction
  PROVE  Atomic!Begin
<1>1. nest = 0 /\ nest' = 1 /\ UNCHANGED <<disk, io, cache, ops>>
  BY DEF NewTransaction
<1>2. stable' = stable /\ latest' = latest
  BY <1>1, SameStable, SameLatest
<1>3. work' = work
  <2>1. ASSUME NEW b PROVE Current(b)' = Current(b)
    BY <1>1 DEF Current, ReadCacheBuffer, ApplyOperation, ReadOriginal, LatestOperation, Shown
  <2> QED
    BY <2>1 DEF work, Volume
<1> QED
  BY <1>1, <1>2, <1>3 DEF Atomic!Begin

LEMMA EndAtomic ==
  ASSUME Inv, EndTransaction
  PROVE  Atomic!End
<1>1. nest = 1 /\ nest' = 0 /\ trouble # "failed" /\ UNCHANGED <<disk, io>>
  BY DEF EndTransaction
<1>2. /\ Inv' /\ UsedBefore' = UsedNow
      /\ \A b \in UsedNow : ops'[0][b] = LatestOperation(b)
  BY EndTransactionInv
<1>3. latest' = work
  BY <1>1, <1>2, WorkFacts, LatestStep
<1>4. work' = latest'
  BY <1>1, <1>2, OutsideStep
<1>5. stable' = stable
  BY <1>1, SameStable
<1> QED
  BY <1>1, <1>3, <1>4, <1>5 DEF Atomic!End

LEMMA GiveUpAtomic ==
  ASSUME Inv, FailAfterFree = FALSE, DeleteTransaction
  PROVE  Atomic!GiveUp
<1>1. nest = 1 /\ nest' = 0 /\ UNCHANGED <<disk, io>>
  BY DEF DeleteTransaction
<1>2. Inv' /\ ops'[0] = ops[0]
  BY DeleteTransactionInv
<1>3. stable' = stable /\ latest' = latest
  BY <1>1, <1>2, SameStable, SameLatest
<1>4. work' = latest'
  BY <1>1, <1>2, OutsideStep
<1> QED
  BY <1>1, <1>3, <1>4 DEF Atomic!GiveUp

(* A flush writes the log, marks the failure, and clears it again, with    *)
(* the volume as it is.                                                    *)
LEMMA FlushingAtomic ==
  ASSUME Inv, Inv', StartFlush \/ Flushing
  PROVE  UNCHANGED Atomic!vars
<1>1. CASE StartFlush \/ EndFlush
  <2>1. /\ nest = 0 /\ nest' = 0 /\ ops' = ops /\ io = disk /\ io' = disk'
        /\ disk[FailureBlock] = "TROK"
        /\ \E log : disk' = WithLog(disk, log)
    BY <1>1, DiskTypes DEF StartFlush, EndFlush, Inv, Flush, Nesting, Flushed
  <2>2. /\ disk'[FailureBlock] = "TROK"
        /\ \A b \in AdminBlocks : disk'[Block(b)] = disk[Block(b)]
    BY <2>1, WithLogFacts
  <2>3. stable' = stable
    <3>1. stable = [b \in disk[Block(SpaceBlock)] |-> disk[Block(b)]]
      BY <2>1, StableFacts DEF Inv
    <3>2. stable' = [b \in disk'[Block(SpaceBlock)] |-> disk'[Block(b)]]
      BY <2>2, StableStep DEF Inv
    <3>3. SpaceBlock \in AdminBlocks /\ disk[Block(SpaceBlock)] \subseteq AdminBlocks
      BY DataFacts DEF Inv, Types, DataOf
    <3> QED
      BY <2>2, <3>1, <3>2, <3>3
  <2>4. latest' = latest
    BY <2>1, <2>2, SameLatest
  <2> QED
    BY <2>1, <2>3, <2>4, OutsideStutter
<1>2. CASE MarkFailure \/ ClearFailure \/ \E b \in AdminBlocks : SaveOperation(b)
  <2>1. /\ nest = 0 /\ nest' = 0 /\ ops' = ops /\ disk' = disk
        /\ \/ \E v : io' = [io EXCEPT ![FailureBlock] = v]
           \/ \E b \in AdminBlocks : \E v : io' = [io EXCEPT ![LogBlock(b)] = v]
    BY <1>2, DiskTypes DEF MarkFailure, ClearFailure, SaveOperation, Inv, Nesting
  <2>2. \A b \in AdminBlocks : io'[Block(b)] = io[Block(b)]
    BY <2>1, DiskTypes, PlaceFacts DEF Inv, Typed
  <2> QED
    BY <2>1, <2>2, SameStable, SameLatest, OutsideStutter
<1>3. CASE \E b \in AdminBlocks : WriteOperation(b)
  <2>1. PICK b \in AdminBlocks : WriteOperation(b)
    BY <1>3
  <2>2. nest = 0 /\ nest' = 0 /\ disk' = disk
    BY <2>1, DiskTypes DEF WriteOperation, Inv, Nesting
  <2>3. /\ UsedBefore' = UsedBefore /\ ops'[0][b] = NoOperation
        /\ b \in UsedBefore => io'[Block(b)] = Uncompress(ops[0][b], io[Block(b)])
        /\ \A c \in AdminBlocks \ {b} : ops'[0][c] = ops[0][c] /\ io'[Block(c)] = io[Block(c)]
    BY <2>1, WriteOperationInv
  <2>4. \A c \in UsedBefore : Uncompress(ops'[0][c], io'[Block(c)]) = Uncompress(ops[0][c], io[Block(c)])
    <3>1. \A d : Uncompress(NoOperation, d) = d
      BY DEF Uncompress, NoOperation
    <3>2. UsedBefore \subseteq AdminBlocks
      BY SpaceFacts DEF Inv
    <3> QED
      BY <2>3, <3>1, <3>2
  <2>5. latest' = latest
    BY <2>3, <2>4, LatestFacts, LatestStep
  <2> QED
    BY <2>2, <2>5, SameStable, OutsideStutter
<1> QED
  BY <1>1, <1>2, <1>3 DEF Flushing

(* What the cache below copies back moves the volume that a crash leaves   *)
(* only when it is the TransactionFailure block of a new flush, or when    *)
(* the log is not whole.                                                   *)
LEMMA CopyBackAtomic ==
  ASSUME CrashSafe, CrashSafe', NEW p \in Places, CopyBack(p)
  PROVE  [Atomic!Flush \/ Atomic!Lose]_(Atomic!vars)
<1>0. Inv /\ Inv' /\ Types' /\ Typed(disk) /\ disk[FailureBlock] \in {"TROK", "TRFA"}
  BY DiskTypes DEF CrashSafe, Inv, Typed
<1>1. /\ io[p] # disk[p] /\ disk' = [disk EXCEPT ![p] = io[p]]
      /\ UNCHANGED <<io, cache, ops, nest, trouble, phase>>
  BY DEF CopyBack
<1>2. phase # "idle" /\ nest = 0 /\ nest' = 0
  BY <1>0, <1>1, DiskTypes DEF Inv, Flush, Nesting
<1>3. latest' = latest /\ work = latest /\ work' = latest'
  BY <1>0, <1>1, <1>2, SameLatest, OutsideFacts, OutsideStep
<1>4. /\ disk'[p] = io[p] /\ \A q \in Places : q # p => disk'[q] = disk[q]
      /\ disk'[FailureBlock] \in {"TROK", "TRFA"}
  BY <1>0, <1>1, DiskTypes, WriteFields DEF Typed, Inv
<1>5. CASE disk'[FailureBlock] = "TRFA"
  <2>1. phase \in {"mark", "write", "clear"}
    BY <1>0, <1>1, <1>2, <1>5, FailedPhaseStep
  <2>2. WholeLog' = WholeLog
    BY <1>0, <2>1, CopyBackLog
  <2>3. CASE WholeLog
    <3>1. stable' = latest'
      BY <1>5, <2>2, <2>3, SurvivesStep
    <3> QED
      BY <1>2, <1>3, <3>1 DEF Atomic!Flush
  <2>4. CASE ~WholeLog
    BY <1>2, <1>3, <2>4 DEF Atomic!Lose
  <2> QED
    BY <2>3, <2>4
<1>6. CASE disk'[FailureBlock] = "TROK" /\ disk[FailureBlock] = "TRFA"
  <2>1. p = FailureBlock /\ io[FailureBlock] = "TROK"
    BY <1>4, <1>6, PlaceFacts
  <2>2. phase = "clear"
    BY <1>0, <1>6, <2>1, FailedPhase DEF Inv, Flush
  <2>3. /\ ops[0] = NoOperations
        /\ \A b \in AdminBlocks : io[Block(b)] = disk'[Block(b)]
    BY <1>0, <1>4, <2>1, <2>2, PlaceFacts DEF Inv, Flush
  <2>4. stable' = latest'
    BY <1>0, <1>1, <1>6, <2>3, WrittenStep
  <2> QED
    BY <1>2, <1>3, <2>4 DEF Atomic!Flush
<1>7. CASE disk'[FailureBlock] = "TROK" /\ disk[FailureBlock] = "TROK"
  <2>1. \A b \in AdminBlocks : disk'[Block(b)] = disk[Block(b)]
    <3>1. phase \in {"save", "mark", "clear"}
      BY <1>0, <1>2, <1>7 DEF Inv, Types, TypeOK, Flush
    <3>2. \A b \in AdminBlocks : io[Block(b)] = disk[Block(b)]
      BY <1>0, <3>1 DEF Inv, Flush
    <3> QED
      BY <1>1, <1>4, <3>2, PlaceFacts
  <2>2. stable = [b \in disk[Block(SpaceBlock)] |-> disk[Block(b)]]
    BY <1>0, <1>7, StableFacts DEF Inv
  <2>3. stable' = [b \in disk'[Block(SpaceBlock)] |-> disk'[Block(b)]]
    BY <1>0, <1>7, StableStep
  <2>4. SpaceBlock \in AdminBlocks /\ disk[Block(SpaceBlock)] \subseteq AdminBlocks
    BY <1>0, DataFacts DEF Inv, Types, DataOf
  <2>5. stable' = stable
    BY <2>1, <2>2, <2>3, <2>4
  <2> QED
    BY <1>1, <1>3, <2>5 DEF Atomic!vars
<1> QED
  BY <1>0, <1>4, <1>5, <1>6, <1>7

(* What the mount loads is what the log gives, cut short or not.           *)
LEMMA CrashAtomic ==
  ASSUME CrashSafe, CrashSafe', Crash
  PROVE  Atomic!Crash
<1>0. Inv /\ Inv' /\ Types /\ Types' /\ disk[FailureBlock] \in {"TROK", "TRFA"}
  BY DiskTypes DEF CrashSafe, Inv, Typed
<1>1. nest' = 0 /\ work' = latest'
  BY <1>0, OutsideStep DEF Crash
<1>2. stable' = stable /\ latest' = stable
  <2>1. CASE disk[FailureBlock] = "TRFA"
    <3>1. /\ disk' = disk /\ io' = disk
          /\ ops' = [ops EXCEPT ![0] = Found(disk), ![1] = NoOperations]
      BY <2>1 DEF Crash
    <3>2. ops'[0] = Found(disk)
      BY <3>1, DiskTypes DEF CrashSafe, Inv
    <3>3. stable = Volume([b \in AdminBlocks |-> Uncompress(Found(disk)[b], disk[Block(b)])])
      BY <1>0, <2>1, FoundNotJunk DEF stable, Replayed
    <3>4. latest' = Volume([b \in AdminBlocks |-> Uncompress(Found(disk)[b], disk[Block(b)])])
      <4>1. PICK found : found = Found(disk)
        OBVIOUS
      <4>2. PICK old : old = disk
        OBVIOUS
      <4>3. ops'[0] = found /\ io' = old
        BY <3>1, <3>2, <4>1, <4>2
      <4>4. latest' = Volume([b \in AdminBlocks |-> Uncompress(found[b], old[Block(b)])])
        BY <4>3 DEF latest
      <4> QED
        BY <4>1, <4>2, <4>4
    <3> QED
      BY <3>1, <3>3, <3>4, SameStable
  <2>2. CASE disk[FailureBlock] = "TROK"
    <3>1. /\ disk' = WithLog(disk, NoOperations) /\ io' = disk'
          /\ ops' = [ops EXCEPT ![0] = Found(disk), ![1] = NoOperations]
          /\ Found(disk) = NoOperations
      BY <2>2 DEF Crash, Found
    <3>2. disk'[FailureBlock] = "TROK" /\ \A b \in AdminBlocks : disk'[Block(b)] = disk[Block(b)]
      BY <2>2, <3>1, WithLogFacts
    <3>3. ops'[0] = NoOperations
      BY <3>1, DiskTypes DEF CrashSafe, Inv
    <3>4. stable' = latest'
      BY <1>0, <3>1, <3>2, <3>3, WrittenStep
    <3>5. stable = [b \in disk[Block(SpaceBlock)] |-> disk[Block(b)]]
      BY <1>0, <2>2, StableFacts
    <3>6. stable' = [b \in disk'[Block(SpaceBlock)] |-> disk'[Block(b)]]
      BY <1>0, <3>2, StableStep
    <3>7. SpaceBlock \in AdminBlocks /\ disk[Block(SpaceBlock)] \subseteq AdminBlocks
      BY <1>0, DataFacts DEF Types, DataOf
    <3> QED
      BY <3>2, <3>4, <3>5, <3>6, <3>7
  <2> QED
    BY <1>0, <2>1, <2>2
<1> QED
  BY <1>1, <1>2 DEF Atomic!Crash

LEMMA StepAtomic ==
  ASSUME CrashSafe, CrashSafe', [Next]_vars, FailAfterFree = FALSE
  PROVE  [Atomic!Next]_(Atomic!vars)
<1>0. Inv /\ Inv' /\ nest \in 0 .. 1
  BY DiskTypes DEF CrashSafe, Inv
<1>1. CASE NewTransaction \/ Changes \/ EndTransaction \/ DeleteTransaction
  BY <1>0, <1>1, BeginAtomic, ChangesAtomic, EndAtomic, GiveUpAtomic DEF Atomic!Next
<1>2. CASE StartFlush \/ Flushing
  BY <1>0, <1>2, FlushingAtomic
<1>3. CASE \/ \E b \in AdminBlocks : ReuseBuffer(b) \/ ReadBlock(b)
           \/ UNCHANGED vars
  <2>1. UNCHANGED <<disk, io, ops, nest>>
    BY <1>3 DEF ReuseBuffer, ReadBlock, vars
  <2>2. stable' = stable /\ latest' = latest
    BY <2>1, SameStable, SameLatest
  <2>3. CASE nest = 0
    BY <1>0, <2>1, <2>2, <2>3, OutsideStutter
  <2>4. CASE nest = 1
    BY <1>0, <2>1, <2>4, InsideStep DEF Atomic!Next
  <2> QED
    BY <1>0, <2>3, <2>4
<1>4. CASE \E p \in Places : CopyBack(p)
  BY <1>4, CopyBackAtomic DEF Atomic!Next
<1>5. CASE Crash
  BY <1>5, CrashAtomic DEF Atomic!Next
<1> QED
  BY <1>1, <1>2, <1>3, <1>4, <1>5 DEF Next

LEMMA InitAtomic ==
  ASSUME Init
  PROVE  Atomic!Init
<1>1. /\ Inv /\ nest = 0 /\ io = disk /\ ops = [level \in 0 .. 1 |-> NoOperations]
      /\ phase = "idle"
  BY InitInv DEF Init
<1>2. stable = latest
  BY <1>1, WrittenFacts DEF Inv, Flush
<1>3. work = latest
  BY <1>1, OutsideFacts
<1> QED
  BY <1>1, <1>2, <1>3 DEF Atomic!Init

(* Transactions are atomic, whatever blocks they free: each happens as a   *)
(* whole or not at all, for the readers of the volume and for a mount      *)
(* after a crash at any point, and only the TransactionFailure block of a  *)
(* flush moves what a crash leaves; but while the log of a flush is cut    *)
(* short by a freed block, a crash may leave part of that flush.           *)
THEOREM SpecImplementsAtomicVolume ==
  ASSUME FailAfterFree = FALSE
  PROVE  Spec => ImplementsAtomicVolume
<1>1. Init => Atomic!Init
  BY InitAtomic
<1>2. CrashSafe /\ CrashSafe' /\ [Next]_vars => [Atomic!Next]_(Atomic!vars)
  BY StepAtomic
<1> QED
  BY <1>1, <1>2, SpecCrashSafe, PTL DEF Spec, ImplementsAtomicVolume, Atomic!Spec
=============================================================================
