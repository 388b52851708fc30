-------------------------------- MODULE Buffer -------------------------------
(***************************************************************************)
(* core::buffer, a list of memory blocks with windows                      *)
(* (lib/rstream/core/buffer.cpp), over core::memory                        *)
(* (lib/rstream/core/memory.cpp).  A memory is a handle: copies of it      *)
(* share the window, so the list holds ids of memories and a memory that   *)
(* is in the list twice is resized in both places.                         *)
(* Each call is one step; call records what it did for the properties.     *)
(***************************************************************************)
EXTENDS Integers, Sequences, FiniteSets, SequencesExt

CONSTANTS
  Memories,      \* the memories that can be added: [data, mutable]
  MaxBlocks,     \* bound: blocks in the buffer
  MaxBufferCalls

VARIABLES
  store,     \* per memory id: [data, offset, size, mutable]
  blocks,    \* m_memory_blocks: ids
  call       \* the last call: [op, ok, old, offset, size]

bufferVars == <<store, blocks, call>>

Ids == 1..Len(store)

Fresh(m) == [data |-> m.data, offset |-> 0, size |-> Len(m.data), mutable |-> m.mutable]

(* memory::resize *)
CanResize(m, offset, size) == offset <= Len(m.data) - m.offset /\ size <= Len(m.data) - m.offset - offset

memory_resize(m, offset, size) == [m EXCEPT !.offset = @ + offset, !.size = size]

memory_reset_size(m) == [m EXCEPT !.offset = 0, !.size = Len(m.data)]

Window(m) == SubSeq(m.data, m.offset + 1, m.offset + m.size)

(* memory::make_mutable: a handle gets a copy of the window; other handles keep the
   memory *)
make_mutable(b, i) ==
  IF b.st[b.ids[i]].mutable THEN b
  ELSE [b EXCEPT !.st = Append(@, Fresh([data |-> Window(b.st[b.ids[i]]), mutable |-> TRUE])),
                 !.ids[i] = Len(b.st) + 1]

-----------------------------------------------------------------------------
(* get_size_range: the size, the offset of the first byte and the room in all.  The
   room behind a block is forgotten when a later block holds bytes. *)
get_size_range(st, ids) ==
  FoldLeft(LAMBDA acc, id :
             LET m == st[id]
             IN IF m.size # 0
                THEN [size |-> acc.size + m.size,
                      offset |-> IF acc.size = 0 THEN acc.extra + m.offset ELSE acc.offset,
                      extra |-> Len(m.data) - (m.offset + m.size)]
                ELSE [acc EXCEPT !.extra = @ + Len(m.data)],
           [size |-> 0, offset |-> 0, extra |-> 0], ids)

(* Mutant: the offset is kept for a block that it skips. *)
MutResizeBlock(st, ids, i, offset, size) ==
  LET m    == st[ids[i]]
      left == IF i = Len(ids) THEN size ELSE IF m.size <= offset THEN 0
              ELSE IF m.size - offset < size THEN m.size - offset ELSE size
  IN [at |-> offset, left |-> left, offset |-> 0]

(* one turn of the loop of resize_range_checked: the part of the window that falls
   into block i, and what remains of the offset *)
ResizeBlock(st, ids, i, offset, size) ==
  LET m    == st[ids[i]]
      skip == i # Len(ids) /\ m.size <= offset
      left == IF i = Len(ids) THEN size ELSE IF skip THEN 0
              ELSE IF m.size - offset < size THEN m.size - offset ELSE size
  IN [at |-> IF skip THEN 0 ELSE offset, left |-> left, offset |-> IF skip THEN offset - m.size ELSE 0]

(* the loop; an exception of a block leaves the ones before it resized *)
ResizeBlocks(st, ids, offset, size) ==
  FoldLeft(LAMBDA acc, i :
             LET m    == acc.st[ids[i]]
                 step == ResizeBlock(acc.st, ids, i, acc.offset, acc.size)
                 done == [acc EXCEPT !.offset = step.offset, !.size = @ - step.left]
             IN IF ~acc.ok THEN acc
                ELSE IF step.at = 0 /\ step.left = m.size THEN done
                ELSE IF ~CanResize(m, step.at, step.left) THEN [acc EXCEPT !.ok = FALSE]
                ELSE [done EXCEPT !.st[ids[i]] = memory_resize(m, step.at, step.left)],
           [st |-> st, offset |-> offset, size |-> size, ok |-> TRUE], [i \in 1..Len(ids) |-> i])

resize_range_checked(st, ids, offset, size) ==
  LET total == get_size_range(st, ids)
      max   == total.offset + total.size + total.extra
  IN IF offset > max - total.offset \/ size > max - total.offset - offset THEN [st |-> st, ok |-> FALSE]
     ELSE IF offset = 0 /\ size = total.size THEN [st |-> st, ok |-> TRUE]
     ELSE ResizeBlocks(st, ids, offset, size)

(* extract: the bytes from offset on, block by block *)
extract(st, ids, offset, size) ==
  FoldLeft(LAMBDA acc, id :
             LET w == Window(st[id])
             IN IF acc.left = 0 THEN acc
                ELSE IF Len(w) <= acc.offset THEN [acc EXCEPT !.offset = @ - Len(w)]
                ELSE LET n == IF Len(w) - acc.offset < acc.left THEN Len(w) - acc.offset ELSE acc.left
                     IN [out |-> acc.out \o SubSeq(w, acc.offset + 1, acc.offset + n), offset |-> 0, left |-> acc.left - n],
           [out |-> << >>, offset |-> offset, left |-> size], ids).out

(* fill: every block up to the last one written is made mutable *)
fill(st, ids, src, offset) ==
  FoldLeft(LAMBDA acc, i :
             LET b == make_mutable(acc, i)
                 m == b.st[b.ids[i]]
             IN IF acc.src = << >> THEN acc
                ELSE IF m.size <= acc.offset THEN [b EXCEPT !.offset = @ - m.size]
                ELSE LET n    == IF m.size - acc.offset < Len(acc.src) THEN m.size - acc.offset ELSE Len(acc.src)
                         from == m.offset + acc.offset
                     IN [b EXCEPT !.st[b.ids[i]].data = [k \in DOMAIN @ |-> IF k - from \in 1..n THEN acc.src[k - from] ELSE @[k]],
                                  !.src = SubSeq(@, n + 1, Len(@)), !.offset = 0],
           [st |-> st, ids |-> ids, src |-> src, offset |-> offset], [i \in 1..Len(ids) |-> i])

Content(st, ids) == FoldLeft(LAMBDA acc, id : acc \o Window(st[id]), << >>, ids)

-----------------------------------------------------------------------------
Init ==
  /\ store = << >> /\ blocks = << >>
  /\ call = [op |-> "none", ok |-> TRUE, old |-> << >>, distinct |-> TRUE, offset |-> 0, size |-> 0, calls |-> 0]

Called(op, ok, offset, size) ==
  /\ call.calls < MaxBufferCalls
  /\ call' = [op |-> op, ok |-> ok, old |-> Content(store, blocks), distinct |-> Cardinality(Range(blocks)) = Len(blocks),
              offset |-> offset, size |-> size, calls |-> call.calls + 1]

(* insert_memory, append and prepend *)
InsertMemory(at, m) ==
  /\ Len(blocks) < MaxBlocks
  /\ store' = Append(store, Fresh(m))
  /\ blocks' = InsertAt(blocks, at, Len(store) + 1)
  /\ Called("insert", TRUE, 0, 0)

(* append of a buffer to itself: the memories are now in the list twice *)
AppendSelf ==
  /\ blocks # << >> /\ 2 * Len(blocks) <= MaxBlocks
  /\ blocks' = blocks \o blocks
  /\ UNCHANGED store
  /\ Called("append", TRUE, 0, 0)

(* resize and set_size *)
Resize(offset, size) ==
  LET result == resize_range_checked(store, blocks, offset, size)
  IN /\ blocks # << >>
     /\ store' = result.st
     /\ UNCHANGED blocks
     /\ Called("resize", result.ok, offset, size)

ResetSize ==
  /\ blocks # << >>
  /\ store' = [id \in Ids |-> IF id \in Range(blocks) THEN memory_reset_size(store[id]) ELSE store[id]]
  /\ UNCHANGED blocks
  /\ Called("reset", TRUE, 0, 0)

(* map: several blocks are merged into one new one; a single one is made mutable *)
Map ==
  /\ blocks # << >>
  /\ IF Len(blocks) = 1
     THEN LET b == make_mutable([st |-> store, ids |-> blocks], 1)
          IN store' = b.st /\ blocks' = b.ids
     ELSE /\ store' = Append(store, Fresh([data |-> Content(store, blocks), mutable |-> TRUE]))
          /\ blocks' = <<Len(store) + 1>>
  /\ Called("map", TRUE, 0, 0)

Fill(offset, n) ==
  LET b == fill(store, blocks, [i \in 1..n |-> "x"], offset)
  IN /\ blocks # << >>
     /\ store' = b.st /\ blocks' = b.ids
     /\ Called("fill", TRUE, offset, n)

Next ==
  \/ \E m \in Memories, at \in {1, Len(blocks) + 1} : InsertMemory(at, m)
  \/ AppendSelf \/ ResetSize \/ Map
  \/ \E offset, size \in 0..(Len(Content(store, blocks)) + 2) : Resize(offset, size)
  \/ \E offset \in 0..Len(Content(store, blocks)), n \in 1..2 : Fill(offset, n)

Spec == Init /\ [][Next]_bufferVars

-----------------------------------------------------------------------------
(* A resize that succeeds gives the buffer the size asked for and keeps the bytes of
   the window that were there (for a buffer that holds no memory twice); mapping
   changes no byte and fill only the bytes it is to write; extract returns the bytes of the concatenation; and no window
   leaves its memory, after a failed call either. *)
BufferExact ==
  LET new == Content(store, blocks)
  IN /\ \A id \in Ids : store[id].offset + store[id].size <= Len(store[id].data)
     /\ (call.op = "resize" /\ call.ok /\ call.distinct) =>
          /\ Len(new) = call.size
          /\ \A i \in 1..call.size : call.offset + i <= Len(call.old) => new[i] = call.old[call.offset + i]
     /\ call.op = "map" => new = call.old
     /\ (call.op = "fill" /\ call.distinct) =>
          new = [i \in 1..Len(call.old) |-> IF i - call.offset \in 1..call.size THEN "x" ELSE call.old[i]]
     /\ \A offset, size \in 0..Len(new) : offset + size <= Len(new) => extract(store, blocks, offset, size) = SubSeq(new, offset + 1, offset + size)
=============================================================================
