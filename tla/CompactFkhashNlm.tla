-------------------------- MODULE CompactFkhashNlm --------------------------
(***************************************************************************)
(* compact_fkhash_nlm: the node label map beside a compact_fkhash_trie.    *)
(* Slices are appended to a buffer in the order of the ids; when a chunk   *)
(* is complete the buffer is copied to an allocation of its own, by the    *)
(* first append of the next chunk.                                         *)
(***************************************************************************)
EXTENDS CompactLabels

NewLabels == [chunk_ptrs |-> <<>>, chunk_buf |-> <<>>, size |-> 0, label_bytes |-> 0]

\* release_buf_
ReleaseBuf(ls) ==
  [ls EXCEPT !.chunk_ptrs = Append(@, ls.chunk_buf), !.chunk_buf = <<>>,
             !.label_bytes = @ + Len(ls.chunk_buf)]

\* What append and append_dummy share.
Appended(ls, slice) ==
  LET t == IF ChunkOf(ls.size) # 0 /\ PosInChunk(ls.size) = 0 THEN ReleaseBuf(ls) ELSE ls
  IN [t EXCEPT !.chunk_buf = @ \o slice, !.size = @ + 1]

\* append: the map, and the pointer to the value at the end of the buffer.
Insert(ls, pos, key) ==
  LET t == Appended(ls, NewSlice(key))
  IN [labels |-> t, ptr |-> [id |-> ChunkOf(ls.size), at |-> Len(t.chunk_buf) - ValueSize]]

\* Mutant: a step node takes no place among the labels.
InsertStep_Nothing(ls, pos) == ls

\* append_dummy: a length of 0, and nothing behind it.
InsertStep(ls, pos) == Appended(ls, Vbytes(0))

\* The bytes of a chunk: the buffer holds those of the last.
Buffer(ls, chunk_id) ==
  IF chunk_id < Len(ls.chunk_ptrs) THEN ls.chunk_ptrs[chunk_id + 1] ELSE ls.chunk_buf

SlicePtr(ls, pos) == FrontSize(Buffer(ls, ChunkOf(pos)), PosInChunk(pos))

Compare(ls, pos, key) ==
  LET r == CompareSlice(Buffer(ls, ChunkOf(pos)), SlicePtr(ls, pos), key)
  IN [found |-> r.found, ptr |-> [id |-> ChunkOf(pos), at |-> r.at], match |-> r.match]

\* The caller reads and writes through a pointer into the buffer or an
\* allocation.
Value(ls, ptr) == ValueAt(Buffer(ls, ptr.id), ptr.at)
Write(ls, ptr, v) ==
  IF ptr.id < Len(ls.chunk_ptrs)
  THEN [ls EXCEPT !.chunk_ptrs[ptr.id + 1] = Overwritten(@, ptr.at, v)]
  ELSE [ls EXCEPT !.chunk_buf = Overwritten(@, ptr.at, v)]

\* All labels but the dummies.
Labelled(ls) ==
  {pos \in 0 .. ls.size - 1 : DecodedVal(Buffer(ls, ChunkOf(pos)), SlicePtr(ls, pos)) # 0}

\* The characters of a label, and the pointer to its value.
LabelAt(ls, pos) == LabelIn(Buffer(ls, ChunkOf(pos)), ChunkOf(pos), SlicePtr(ls, pos))

\* Every buffer is exactly its slices, and the counter counts the released.
Exact(ls) ==
  /\ ls.label_bytes = FoldLeft(LAMBDA n, buf : n + Len(buf), 0, ls.chunk_ptrs)
  /\ \A c \in 0 .. Len(ls.chunk_ptrs) :
       LET slices == IF c < Len(ls.chunk_ptrs) THEN ChunkSize ELSE ls.size - c * ChunkSize
       IN FrontSize(Buffer(ls, c), slices) = Len(Buffer(ls, c))
=============================================================================
