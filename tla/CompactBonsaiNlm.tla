-------------------------- MODULE CompactBonsaiNlm --------------------------
(***************************************************************************)
(* compact_bonsai_nlm: the node label map beside a compact_bonsai_trie.    *)
(* Each chunk of slots has a bitmap that says which of its slots have a    *)
(* label, and one allocation with the slices in the order of the slots;    *)
(* the null pointer, where there is none, is the empty sequence.           *)
(***************************************************************************)
EXTENDS CompactLabels, SequencesExt

\* A chunk's bitmap is a word of ChunkSize bits.
LOCAL Bitmap == INSTANCE BitVectors WITH W <- ChunkSize

NewLabels(capa) ==
  LET chunk_ids == 0 .. capa \div ChunkSize - 1
  IN [chunks |-> [c \in chunk_ids |-> {}], ptrs |-> [c \in chunk_ids |-> <<>>],
      size |-> 0, label_bytes |-> 0]

HasLabel(ls, pos) == Bitmap!GetBit(ls.chunks[ChunkOf(pos)], PosInChunk(pos))

\* How many labels of the chunk come before.
Offset(ls, pos) == Bitmap!PopcntBelow(ls.chunks[ChunkOf(pos)], PosInChunk(pos))

\* Where the slice of a slot starts, or would start, in its allocation.
SlicePtr(ls, pos) == FrontSize(ls.ptrs[ChunkOf(pos)], Offset(ls, pos))

\* get_allocs_: the bytes of the slices before the slot, and of all slices.
\* set_slice_ sets the bit and replaces the allocation by one that has the
\* new slice between the two.
PutSlice(ls, pos, slice) ==
  LET c == ChunkOf(pos)
      front == SlicePtr(ls, pos)
      all == FrontSize(ls.ptrs[c], Bitmap!Popcnt(ls.chunks[c]))
  IN [ls EXCEPT !.chunks[c] = Bitmap!SetBit(@, PosInChunk(pos), TRUE),
                !.ptrs[c] = SubSeq(@, 1, front) \o slice \o SubSeq(@, front + 1, all)]

\* get_slice_
Slice(ls, pos) ==
  LET buf == ls.ptrs[ChunkOf(pos)]
      ptr == SlicePtr(ls, pos)
  IN SubSeq(buf, ptr + 1, ptr + SliceSize(buf, ptr))

Compare(ls, pos, key) ==
  LET r == CompareSlice(ls.ptrs[ChunkOf(pos)], SlicePtr(ls, pos), key)
  IN [found |-> r.found, ptr |-> [id |-> ChunkOf(pos), at |-> r.at], match |-> r.match]

\* insert: the map, and the pointer to the new value.
Insert(ls, pos, key) ==
  LET slice == NewSlice(key)
      t == PutSlice(ls, pos, slice)
  IN [labels |-> [t EXCEPT !.size = @ + 1, !.label_bytes = @ + NewAlloc(key)],
      ptr |-> [id |-> ChunkOf(pos), at |-> SlicePtr(ls, pos) + Len(slice) - ValueSize]]

\* A step node gets no label.
InsertStep(ls, pos) == ls

\* expand: the slice of every slot goes where the slot's node went; each
\* chunk is released when its last slot is done.
ExpandLabels(ls, pos_map) ==
  LET capa == ChunkSize * Cardinality(DOMAIN ls.ptrs)
      visit(m, pos) ==
        [new |-> IF pos \in DOMAIN pos_map /\ HasLabel(m.old, pos)
                 THEN PutSlice(m.new, pos_map[pos], Slice(m.old, pos))
                 ELSE m.new,
         old |-> IF PosInChunk(pos) = ChunkSize - 1
                 THEN [m.old EXCEPT !.ptrs[ChunkOf(pos)] = <<>>]
                 ELSE m.old]
      new_ls == [NewLabels(2 * capa) EXCEPT !.size = ls.size, !.label_bytes = ls.label_bytes]
  IN FoldLeft(visit, [old |-> ls, new |-> new_ls], [k \in 1 .. capa |-> k - 1]).new

\* The caller reads and writes through a pointer into an allocation.
Value(ls, ptr) == ValueAt(ls.ptrs[ptr.id], ptr.at)
Write(ls, ptr, v) == [ls EXCEPT !.ptrs[ptr.id] = Overwritten(@, ptr.at, v)]

Labelled(ls) == {pos \in 0 .. ChunkSize * Cardinality(DOMAIN ls.ptrs) - 1 : HasLabel(ls, pos)}

\* The characters of a label, and the pointer to its value.
LabelAt(ls, pos) == LabelIn(ls.ptrs[ChunkOf(pos)], ChunkOf(pos), SlicePtr(ls, pos))

\* Every allocation is exactly its slices, and the counters count them.
Exact(ls) ==
  /\ \A c \in DOMAIN ls.ptrs : FrontSize(ls.ptrs[c], Cardinality(ls.chunks[c])) = Len(ls.ptrs[c])
  /\ ls.size = SumFunction([c \in DOMAIN ls.ptrs |-> Cardinality(ls.chunks[c])])
  /\ ls.label_bytes = SumFunction([c \in DOMAIN ls.ptrs |-> Len(ls.ptrs[c])])
=============================================================================
