--------------------------- MODULE PlainBonsaiMap ---------------------------
(***************************************************************************)
(* plain_bonsai_map: map<plain_bonsai_trie, plain_bonsai_nlm>.  The node   *)
(* label map keeps one pointer for each slot of the trie's table.          *)
(***************************************************************************)
EXTENDS PlainBonsaiTrie, NodeLabels

NewLabels(capa) == [ptrs |-> NoLabels, num_ptrs |-> capa, size |-> 0, label_bytes |-> 0]

Insert(ls, pos, key) == WithLabel([ls EXCEPT !.size = @ + 1], pos, key)

\* A step node gets no label.
InsertStep(ls, pos) == ls

\* expand: every label moves to the slot its node moved to.
ExpandLabels(ls, pos_map) ==
  LET moved == DOMAIN pos_map \cap DOMAIN ls.ptrs
      from(j) == CHOOSE i \in moved : pos_map[i] = j
  IN [ls EXCEPT !.ptrs = [j \in {pos_map[i] : i \in moved} |-> @[from(j)]],
                !.num_ptrs = 2 * @]

\* The counters count the labels and their bytes.
Exact(ls) == BytesCounted(ls) /\ ls.size = Cardinality(DOMAIN ls.ptrs)

CONSTANTS Lambda, CodeMax, Chars, Key, ValueOf(_), MayThrow

VARIABLES is_ready, hash_trie, label_store, codes, num_codes, size,
          pc, call, key, node_id, match, ret

EmptyTrie == NewTrie(0)
EmptyLabels == NewLabels(MinCapa)
Size(t) == t.size

INSTANCE Map
=============================================================================
