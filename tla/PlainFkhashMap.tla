--------------------------- MODULE PlainFkhashMap ---------------------------
(***************************************************************************)
(* plain_fkhash_map: map<plain_fkhash_trie, plain_fkhash_nlm>.  The trie   *)
(* grows inside add_child and keeps its ids, so that expand_if_needed_ is  *)
(* empty.  The ids are consecutive, and so are the labels: a new one goes  *)
(* to the end of the vector, wherever the caller wants it.                 *)
(***************************************************************************)
EXTENDS PlainFkhashTrie, NodeLabels

NewLabels == [ptrs |-> NoLabels, size |-> 0, label_bytes |-> 0]

\* append
Insert(ls, pos, key) == WithLabel([ls EXCEPT !.size = @ + 1], ls.size, key)

\* append_dummy
InsertStep(ls, pos) == [ls EXCEPT !.size = @ + 1]

\* The counters count the labels with the dummies, and the bytes of the labels.
Exact(ls) == BytesCounted(ls) /\ DOMAIN ls.ptrs \subseteq 0 .. ls.size - 1

CONSTANTS Lambda, CodeMax, Chars, Key, ValueOf(_), MayThrow

VARIABLES is_ready, hash_trie, label_store, codes, num_codes, size,
          pc, call, key, node_id, match, ret

EmptyTrie == NewTrie(0)
EmptyLabels == NewLabels
NeverExpands(t) == FALSE
NoNodeMap(t) == [trie |-> t, map |-> [i \in {} |-> 0]]
SameLabels(ls, m) == ls

INSTANCE Map WITH
  NeedsToExpand <- NeverExpands, Expand <- NoNodeMap, ExpandLabels <- SameLabels
=============================================================================
