----------------------------- MODULE BlockStore -----------------------------
(***************************************************************************)
(* The block store of a node (crates/node/src/storage.rs): a list in       *)
(* memory and a file of JSON lines.  There is one final block per height,  *)
(* so a block is its height.  A line is a block or, when it does not       *)
(* parse, Garbage; what follows the last newline is the tail.              *)
(***************************************************************************)
EXTENDS Lists

CONSTANTS
    CutByCrash,        \* TRUE: a crash may cut a write short
    MaxErrors          \* bound: how many times the file cannot be written or read

VARIABLES
    blocks,            \* the blocks in memory
    disk,              \* the lines of the file
    tail,              \* what the file has after its last newline
    misread,           \* some start has not read the file to its end
    errors             \* how many times writing or reading has failed

storeVars == <<blocks, disk, tail, misread, errors>>

ASSUME StoreAssumption == CutByCrash \in BOOLEAN /\ MaxErrors \in Nat

Garbage == 0
NoTail == -1

StoreInit ==
    /\ blocks = <<>>
    /\ disk = <<>> /\ tail = NoTail
    /\ misread = FALSE /\ errors = 0

\* What the file may end in when the write of block b is cut short: as before,
\* in part of the JSON, or in all of it without the newline.
CutShort(b) == {tail, Garbage} \cup (IF tail = NoTail THEN {b} ELSE {})

\* An error of opening the file, of writing it or of reading it.
Fails == errors < MaxErrors /\ errors' = errors + 1

\* BlockStore::append.  The line for block b goes to the end of the file, tail
\* and all; an error, of opening the file or of writeln, is dropped.
StoreAppend(b) ==
    /\ blocks' = Append(blocks, b)
    /\ \/ /\ disk' = Append(disk, IF tail = NoTail THEN b ELSE Garbage)
          /\ tail' = NoTail
          /\ UNCHANGED errors
       \/ Fails /\ tail' \in CutShort(b) /\ UNCHANGED disk
    /\ UNCHANGED misread

\* The lines of the file, the unfinished one included.
Lines == IF tail = NoTail THEN disk ELSE Append(disk, tail)

\* Of the first n lines those that parse; the others are passed over.
Parsed(n) == Retain(SubSeq(Lines, 1, n), Nat \ {Garbage})

\* The process ends, perhaps during the write of one of the blocks in writing,
\* and opens the file again: BlockStore::open.  An error of reading ends the
\* loop over the lines, one of opening the file leaves none.
StoreReopen(writing) ==
    /\ UNCHANGED disk
    /\ \/ UNCHANGED tail
       \/ CutByCrash /\ \E b \in writing : tail' \in CutShort(b)
    /\ \/ blocks' = Parsed(Len(Lines))' /\ UNCHANGED <<misread, errors>>
       \/ /\ Fails
          /\ \E n \in 0..Len(Lines') - 1 : blocks' = Parsed(n)'
          /\ misread' = TRUE

\* Takes the first block of the store for the last.
TipHeightOfFirst == IF blocks = <<>> THEN 0 ELSE Head(blocks)

\* BlockStore::tip: the height of the last block.
TipHeight == IF blocks = <<>> THEN 0 ELSE Last(blocks)
=============================================================================
