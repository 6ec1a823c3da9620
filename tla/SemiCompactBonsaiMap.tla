------------------------ MODULE SemiCompactBonsaiMap ------------------------
(***************************************************************************)
(* semi_compact_bonsai_map: map<plain_bonsai_trie, compact_bonsai_nlm>.    *)
(***************************************************************************)
EXTENDS PlainBonsaiTrie, CompactBonsaiNlm

CONSTANTS Lambda, CodeMax, Chars, Key, ValueOf(_), MayThrow

VARIABLES is_ready, hash_trie, label_store, codes, num_codes, size,
          pc, call, key, node_id, match, ret

EmptyTrie == NewTrie(0)
EmptyLabels == NewLabels(MinCapa)
Size(t) == t.size

INSTANCE Map
=============================================================================
