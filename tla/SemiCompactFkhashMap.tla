------------------------ MODULE SemiCompactFkhashMap ------------------------
(***************************************************************************)
(* semi_compact_fkhash_map: map<plain_fkhash_trie, compact_fkhash_nlm>.    *)
(***************************************************************************)
EXTENDS PlainFkhashTrie, CompactFkhashNlm

CONSTANTS Lambda, CodeMax, Chars, Key, ValueOf(_), MayThrow

VARIABLES is_ready, hash_trie, label_store, codes, num_codes, size,
          pc, call, key, node_id, match, ret

EmptyTrie == NewTrie(0)
EmptyLabels == NewLabels
NeverExpands(t) == FALSE
NoNodeMap(t) == [trie |-> t, map |-> [i \in {} |-> 0]]
SameLabels(ls, m) == ls

INSTANCE Map WITH
  NeedsToExpand <- NeverExpands, Expand <- NoNodeMap, ExpandLabels <- SameLabels
=============================================================================
