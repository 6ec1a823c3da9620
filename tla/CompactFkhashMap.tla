-------------------------- MODULE CompactFkhashMap --------------------------
(***************************************************************************)
(* compact_fkhash_map: map<compact_fkhash_trie, compact_fkhash_nlm>.       *)
(* The trie grows inside add_child and keeps its ids.                      *)
(***************************************************************************)
EXTENDS CompactFkhashTrie, CompactFkhashNlm

CONSTANTS Lambda, CodeMax, Chars, Key, ValueOf(_), MayThrow

VARIABLES is_ready, hash_trie, label_store, codes, num_codes, size,
          pc, call, key, node_id, match, ret

EmptyTrie == NewTrie(0)
EmptyLabels == NewLabels
NeverExpands(t) == FALSE
NoNodeMap(t) == [trie |-> t, map |-> [i \in {} |-> 0]]
SameLabels(ls, m) == ls

INSTANCE Map WITH
  NeedsToExpand <- NeverExpands, Expand <- NoNodeMap, ExpandLabels <- SameLabels
=============================================================================
