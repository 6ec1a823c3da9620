-------------------------- MODULE CompactBonsaiMap --------------------------
(***************************************************************************)
(* compact_bonsai_map: map<compact_bonsai_trie, compact_bonsai_nlm>.       *)
(***************************************************************************)
EXTENDS CompactBonsaiTrie, CompactBonsaiNlm

CONSTANTS Lambda, CodeMax, Chars, Key, ValueOf(_), MayThrow

VARIABLES is_ready, hash_trie, label_store, codes, num_codes, size,
          pc, call, key, node_id, match, ret

EmptyTrie == NewTrie(0)
EmptyLabels == NewLabels(MinCapa)

INSTANCE Map
=============================================================================
