# poplar-trie: TLA+ models and proofs

poplar-trie is a single-threaded, header-only C++17 library: an updatable
associative array (`poplar::map`) over a dynamic path-decomposed trie that is
kept in hash tables.  There is no concurrency, no I/O and nothing persistent.
What makes the code hard is that tables grow in the middle of a walk, that
growth renumbers nodes other structures refer to, that loops have no bound of
their own, and that several numbers sit at the limit of their width.

All paths below are relative to `src/include/poplar/` unless they begin with `src/`.

## Inventory

| Component | State | Operations | Hard behaviour |
|---|---|---|---|
| `map.hpp` | `is_ready_`, the trie, the label store, `codes_`, `num_codes_`, `size_` | constructor, `find`, `update`, `size` | growth between node and label; exception half way; code counter at 255 |
| `plain_bonsai_trie.hpp` | one table of keys (parent, symbol); the node id is the slot | `add_root`, `find_child`, `add_child`, `needs_to_expand`, `expand` | rehash in place, ids change; reserved slots 0 and 1; unbounded probes |
| `plain_bonsai_nlm.hpp` | vector of label pointers by slot | `compare`, `insert`, `expand` | must move with the nodes |
| `plain_fkhash_trie.hpp` | table of keys and of ids, ids in order | `add_root`, `find_child`, `add_child` (grows by itself) | key 0; growth inside `add_child` |
| `plain_fkhash_nlm.hpp` | vector of label pointers by id | `compare`, `append`, `append_dummy` | must stay in step with the ids |
| `compact_bonsai_trie.hpp`, `compact_fkhash_trie.hpp` | quotients and displacements in three levels (bit fields, `compact_hash_table`, `standard_hash_table`) | as above | displacement overflow from level to level |
| `compact_bonsai_nlm.hpp`, `compact_fkhash_nlm.hpp` | groups of labels in one allocation, chunk bitmaps | as above | slices, pointers invalidated by later updates |
| `compact_hash_table.hpp`, `bijective_hash.hpp` | Cleary table with collision and virgin bits | `get`, `set`, `clone` | insertion shifts items; growth past the universe |
| `standard_hash_table.hpp` | open-addressing table | `get`, `set` | growth inside `set` |
| `bit_vector.hpp`, `compact_vector.hpp`, `vbyte.hpp` | packed words | get, set, append, encode, decode | fields across word boundaries |
| `bit_tools.hpp` | none | popcounts, most significant bit, logarithm | bounds of a word |
| `src/include/poplar.hpp` | none | the six map types | - |
| `basics.hpp`, `hash.hpp`, `exception.hpp`, `poplar_config.hpp` | none | helpers | - |
| `src/bench`, `src/sample`, `src/test` | - | drivers and tests | - |

How they interact: `map` owns one trie and one label store and calls both from
`find` and `update`; the result of one call is an argument of the next
(`add_child` -> `expand` -> `node_map` -> `label_store_.expand` ->
`label_store_.insert`).  The tries and label stores do not know each other.
The pointer that `update` returns points into the label store, and the caller
writes through it.

## What makes each component correct

* A **trie**: `find_child` finds exactly the children that were added, under the
  id `add_child` or the node map of `expand` gave them; every probe meets a free
  slot or its key; growth loses, merges and invents no node and leaves room.
* A **compact trie**, besides: slot, quotient and displacement give back the key;
  a displacement is in exactly one of its three places.
* A **label store**: a label is where its node is, whatever has grown since; in
  the compact ones a label is found by adding up the lengths of those before it, and
  the counts of labels and bytes are those of what is there.
* **bit and byte vectors**: a number is read as it was written, wherever it lies,
  and writing it changes no other.
* **map**: an associative array, also after an exception, and every call returns.
* **standard_hash_table**, **compact_hash_table**: maps; growth and `clone` keep every item.

## Modules

| Module | What it is |
|---|---|
| `LinearProbing` | the unbounded probe loop of every table: where it ends and whether it does |
| `PlainBonsaiTrie` | `plain_bonsai_trie` as operators on the record of its members, what makes a table a trie (`Sound`), and `expand` as one step, for the map |
| `PlainBonsaiRehash` | the trie in use, with `expand` iteration by iteration |
| `PlainFkhashTrie` | `plain_fkhash_trie`, and its `expand_` as one step |
| `Displacements` | what the two compact tries share: keys as slot, quotient and displacement, and where displacements are stored |
| `CompactBonsaiTrie`, `CompactBonsaiRehash` | `compact_bonsai_trie` in two parts, as the plain one |
| `CompactFkhashTrie`, `CompactFkhashRehash` | `compact_fkhash_trie`, likewise |
| `BitVectors` | `bit_tools`, `bit_vector` and `compact_vector` for words of any number of bits |
| `NodeMap` | the memory that `compact_bonsai_trie::expand` works in, bit by bit |
| `SlotMap` | abstract: the entries still to be moved and the ids of the nodes moved, each in a memory of its own |
| `BitVectorTest` | the test of `bit_vector` as a program |
| `StandardHashTable` | `standard_hash_table` with `get`, `set` and the loop of `expand_` |
| `CompactHashTable` | `compact_hash_table`: its slots, `get` and `set`; the table in use, with growth and `clone` loop by loop |
| `BijectiveHash` | `split_mix_hasher`: its rounds and their inverses for universes of up to 8 bits |
| `NodeLabels` | what the two plain label stores share; the rest of them is in `PlainBonsaiMap` and `PlainFkhashMap`, the maps that use them |
| `CompactLabels`, `CompactBonsaiNlm`, `CompactFkhashNlm` | the compact label stores, with chunks as strings of bytes; `CompactLabels` has the vbytes and what the two share |
| `CodeTable` | the codes of characters, the part of `map.hpp` that depends on neither trie nor labels |
| `Map` | `map.hpp` over any trie and label store, which are operator constants as they are template parameters in the code; and what each of their calls promises (`PromisesKept`) |
| `PlainBonsaiMap`, `SemiCompactBonsaiMap`, `CompactBonsaiMap`, `PlainFkhashMap`, `SemiCompactFkhashMap`, `CompactFkhashMap` | the instances of `map` that `poplar.hpp` defines |
| `PoplarMaps` | an object of any of the six types |
| `DynamicTrie` | abstract: a growing set of named nodes, renumbered at most by growth (`Spec`), or never (`StableSpec`) |
| `AssocArray` | abstract: the associative array a user of `map` is promised |
| `MC...` | values of the constants for TLC |
| `PlainBonsaiRehashProofs`, `StandardHashTableProofs`, `CompactHashTableProofs`, `CompactFkhashRehashProofs`, `CompactBonsaiRehashProofs`, `NodeMapProofs`, `MapProofs`, `PoplarMapsProofs` | the theorems |

### How state and actions correspond to the code

* A class is the record of its members; a member function that changes
  reference arguments returns a record of the new object, the new argument and
  the return value (`AddChild`).
* Capacities are kept instead of their logarithms: `capa_bits + 1` is
  `2 * capa`; shifts by `symb_bits` are multiplications by `SymbSize`.
* Hash functions are constants.  In the plain tries and `standard_hash_table`
  any function of the 64-bit words; in the compact structures any permutation of
  the keys, in the tries one for each capacity.  The runs use ones that collide
  and wrap; those of `compact_hash_table` use the hash function of the code, whose
  inverse `SplitMixBijective` checks for every number of every width up to 8 bits.
* A probe loop is atomic: nothing else runs, and its only observable effects
  are where it stops and whether it does (`ProbeEnds`).  An action whose probe
  would not end is disabled, and `CallsTerminate` says that this never happens.
* `PlainBonsaiRehash` has one action per loop iteration of `expand`:
  `BeginExpand` (lines 179-192), `Skip` (195-199), `BeginPath` (201-202), `Climb`
  (204-211), `Graft` (213-217), `EndExpand` (220-223).  `done` is `done_flags`,
  `cur` is `new_node_id`, and the new ids are written into `ht.table`, the old
  table, as in the code.  `CompactBonsaiRehash` has the same actions; there a new
  id is split over two vectors (`SetMapping`).
* `CompactFkhashRehash` and `StandardHashTable` have one action per iteration of
  the loop of `expand_`; the `add_child` or `set` that caused it is completed by
  `EndExpand`.
* `CompactHashTable` has one action per iteration of each of the loops of `clone`
  (`FindVacant`, `Seek`, `FindHome`, `CopyItem`); `phase` is the loop.
* `Map` has one action per loop iteration or branch of `find` and `update`; `pc`
  is the place in the function, `key` the rest of the key, `call` the call.
  `expand_if_needed_` is part of the action that calls `add_child` (`Settle`).
* Where a node of a map is, is a function on the nodes (`Place`): the key node whose
  label its children branch off, the characters of it that step nodes take, and the
  characters from the root to it.  `KeyAt` is the key of a node, and `Store` the set of
  the pairs of a key and its value.
* What `Map` relies on is stated call by call, as a predicate on the operators that
  stand for the call: `AddsRoot`, `FindsChild`, `AddsChild`, `Grows` of the trie,
  `ComparesLabel`, `InsertsLabel`, `InsertsNone`, `MovesLabels`, `WritesValue` of the
  labels.  `PromisesKept` says that the call that the map makes next keeps its promise,
  provided that the map keeps to what the call asks for: a node in the trie, room in the
  table, a label for the node or none yet, a key and a label terminated alike.
* A word is the set of the positions of its ones, so that the operators of C++ on
  words are those on sets, and W, the bits of a word, is a constant.  `NodeMap` has
  the writes of `add_child` (`SetSlot`), the beginning of `expand` (`BeginExpand`) and
  `set_mapping` with its flag (`SetMapping`); which slots are taken, and in which
  order `expand` comes to them, is open in it and is what `CompactBonsaiRehash` shows.
* A chunk of a compact label store is a sequence of bytes: of each label its
  length in vbytes, its characters and its value, or a length of zero.  `ByteBase`
  stands for the 128 of a vbyte and `ValueSize` for `sizeof(Value)`.
* In the compact tries the auxiliary tables `aux_cht_` and `aux_map_` are
  functions from slots to displacements.  That the two classes are such functions
  is what `CompactHashTable` and `StandardHashTable` show.
* `str`, `new_str`, `store` and `ended` are history: they record what the caller did
  and no guard reads them.
* Names of definitions that begin with a definition's name and an underscore
  (`AddChild_NoCount`) are mutants: variants with a bug, used to see that the
  properties can fail.  No specification uses them.

Keys are sequences of small numbers, 0 is `'\0'`.  As `make_char_range` makes
them from C strings, a key has one terminator, at its end; strings with
embedded null characters are outside the model.  The compact label stores rely on
it: they compare characters without looking at the length of the key.

## What the runs check

| Run | Constants | Shows |
|---|---|---|
| `plain_bonsai_rehash` | tables of 4, 8, 16 slots, half full at most, 2 symbols, up to 7 nodes, three hash values at the end of the table | `Findable`, `CallsTerminate`, `NodeMapSound`, the inductive invariant `IndInv`, that `expand` returns (`ExpandReturns`) and that the table implements `DynamicTrie!Spec` |
| `compact_bonsai_rehash` | tables of 4, 8, 16 slots, 90 percent full at most, up to 7 nodes; displacements 1 and 2 fit a slot, 3 goes to `aux_cht_`, more to `aux_map_` | as above, except for probes; `DisplacementsKept`; no node is lost when a new id is wider than a slot |
| `compact_fkhash_rehash` | tables of 4, 8, 16 slots, 80 percent, up to 7 nodes; displacement 0 fits, 1 goes to `aux_cht_`; quotients change with the capacity | children are found, keys are recovered in both tables at each moment of the copy, ids are kept and without holes, probes end, the inductive invariant, `DynamicTrie!StableSpec` is implemented |
| `standard_hash_table` | tables of 2 to 16 slots, half full at most, four keys, three of them colliding at the last slot | `get` and `set` are those of a map through three expansions; probes end; the inductive invariant; `set` tells new keys from old |
| `compact_hash_table` | universe of 16 keys, `split_mix_hasher`, tables of 4, 8, 16 slots, 80 percent, six keys in groups that displace each other to the left and across slot 0 | virgin and collision bits match (`BitsConsistent`), `clone` copies exactly and returns, `get` finds what was set |
| `cht_clone_empty` (violation) | the same table, which the owner may clone while it is empty | see Findings |
| `cht_universe` (violation) | a universe of 4 keys and a table of 4 slots | see Findings |
| `poplar_maps` | all six types; lambda 2, three codes so that the second letter takes the last one and throws, four legal keys and an illegal one, tables of 4 to 16 slots, 60 percent full at most, chunks of two labels, values of two bytes, vbytes with two bits of a length | labels follow nodes through growth, branches differ from the labels they leave, codes are injective, no key has two nodes, labels and bytes are where and as many as they should be, the trie and the labels keep the promises the proofs about `Map` assume (`PromisesKept`), calls return, `AssocArray` is implemented although an `update` failed half way |
| `node_map` | words of 3 bits, 4 fields of 2 bits, ids of 2 and of 3 bits | fields in one word, at its end and across two; `SlotMap` is implemented; beside it, `MsbCorrect`, `AppendedIsRead`, `FilledIsFull` and `AppendBitIsAppendBits` are evaluated for words of 64 and of 3 bits |
| `bit_vector_test` (violation) | words of 3 bits, the numbers 2, 3, 5 and 6 | see Findings |
| `codes_overflow` (violation) | more letters than codes | see Findings |
| `empty_string` (violation) | two keys, one the empty string | see Findings |

Why the bounds are enough.  Two expansions in one behaviour are what
distinguishes a table that was filled by `add_child` from one that was filled by
`expand`; probes collide because keys share start slots, and wrap because these
are the last slots of the table.  Seven nodes make paths of several unmoved nodes
under moved and unmoved ancestors, in and against slot order, and displacements
of all three levels.  The map's keys have matches below, at and above lambda,
branch with the terminator, end where a label ends, and share a path of step
nodes.  Labels of up to four characters
take lengths of one and of two vbytes.  What happens to a field depends on where it
begins in a word, and words of 3 bits have every case for fields of 2.
`MaxCapa`, `MaxNodes`, `MaxNumbers` and the set `Capas` are the only bounds in guards;
`poplar_maps` is bounded by its set of keys.

Fairness.  The library runs on its caller's thread.  A loop that has begun goes
on as long as it can: weak fairness of `Expanding` in `PlainBonsaiRehash`, of
`Cloning` in `CompactHashTable`, and of the steps of a call in `PoplarMaps`, where it
is written out (one of them is enabled exactly when `pc # "idle"`).  Nothing is assumed of the
caller: it may stop calling.

## Findings

1. `codes_overflow`: `update` assigns a code before it checks the counter, and
   checks it with `==` (`map.hpp:170-171`).  The call that gives away the last code
   throws although the code is valid; the call after it gives code 255, the mark
   for "no code", to the next new character, against the assertion at line 259.
2. `empty_string`: in `plain_fkhash_trie` the root is node 0 and the terminator
   has code 0, so the child for the empty string has key 0, against the assertions
   at lines 104 and 211.
3. `cht_clone_empty`: `clone` of an empty `compact_hash_table` meets both stated
   requirements (`compact_hash_table.hpp:160-161`) and never returns, because the
   loop over free slots (174-179) does not look at `completed`.  The tries never
   clone an empty table; only a direct user of the class can.

4. `cht_universe`: `set` doubles a `compact_hash_table` at its load limit even if it
   has a slot for every key already, against the assertion in the constructor
   (`compact_hash_table.hpp:53`); the width of a quotient is then negative.
5. `bit_vector_test`: the test appends numbers with `ceil_log2` bits and asserts that
   they are read back (`src/test/bit_vector_test.cpp:55`), but `ceil_log2`
   (`bit_tools.hpp:328-330`) is the logarithm rounded up, one bit less than a power of
   two takes.  The test meets one too rarely to fail.

A remark without a run: the comment at `map.hpp:54-55` (`2**capa_bits` slots)
disagrees with the code, which never allocates fewer than `2**min_capa_bits`.

## What is proved

`PlainBonsaiRehashProofs` proves for `plain_bonsai_trie`, for every capacity, load
factor, symbol set and hash function allowed by `TrieAssumption` and without the
bounds' help:

| Theorem | Says |
|---|---|
| `Invariance` | `Spec => []IndInv` |
| `TypeCorrect` | type correctness |
| `FindCorrect` | `find_child` finds exactly the children that are there |
| `ProbesTerminate` | no probe runs for ever |
| `NodeMapCorrect` | the node map built in place is sound, and complete at the end |
| `SizeCorrect` | `size()` counts the nodes, and growth leaves room |
| `Refinement` | `Spec => ImplementsDynamicTrie` |

The argument.  Between calls the table is `Sound`: every key is reachable by
its probe without a free slot before it (`Chained`), keys spell distinct strings
(`Spells`, `Rooted`), and the size counts the nodes (`Counted`).  None of the
properties is inductive: that a probe ends needs a free slot, which needs the
count; that `find_child` finds a node needs `Chained`; that no node is added
twice needs both.  During `expand` (`Moving`) the old table is a mixture:
the entries in `done` are new ids, the others are still keys of nodes whose parent
is in the table, and the strings in the new table are exactly those of `done`.
`OnPath` says that the path hangs together and leads up to the anchor; strings get
shorter as it climbs, so that no node is on it twice.  `PlainBonsaiRehashProofs` begins
with the facts on the probe: in which slot it ends, and that one free slot is enough
for it to end.  The next lemmas are about one call on a sound table: filling a free slot or
copying a slot disturbs no other key.

`TrieAssumption` asks what the template parameters and `static_assert`s grant, and
that a full smallest table keeps a slot free besides the two reserved ones
(`MinCapa * (100 - MaxFactor) >= 200`, true of 65536 slots for every allowed factor).

`StandardHashTableProofs` proves for `standard_hash_table`, for every set of keys and
values and every hash function:

| Theorem | Says |
|---|---|
| `Invariance` | `Spec => []IndInv` |
| `ProbesTerminate` | no `get` and no `set` runs for ever |
| `SizesCorrect` | `size()` is the number of keys, also in the table being filled |
| `GetIsCorrect` | `get` finds what was set last, and nothing else |
| `TellsNew` | `set` tells a new key from an old one, also when the table grew in between |

Between calls the table is `Sound`: every key is reachable (`Chained`) and the slots
hold what was set, every key once (`Holds`).  While `expand_` runs, the old table stays
sound, and the new one is sound for the part of the map that lies in the slots already
copied (`Copied`); its size is their number, so that it is not full before all are.

`CompactHashTableProofs` proves for `compact_hash_table`, for every universe, load
factor, number of slots, hash and sequence of calls:

| Theorem | Says |
|---|---|
| `TypeCorrect` | type correctness; `clone` looks for mods, and copies, at taken slots only |
| `BitsStayConsistent` | virgin and collision bits match, in both tables and at each moment |
| `CloneIsExact` | `clone` copies every item under its own key, and the copy has room for all |
| `GetIsCorrect` | `get` finds what was set last, and nothing else |

Each of them has the hypothesis `MaxCapa <= Univ`: a table with more slots than keys
is against the assertion of the constructor, and `cht_universe` shows that `set` makes
one, so nothing is claimed of it.  `compact_hash_table` runs within the hypothesis, with
a table that grows to the size of the universe.  `CompactAssumption` asks that universe
and capacities are powers of two, in the form that is needed: a capacity that divides the
universe and is not more than half of it can be doubled.  `CallsAssumption` is
what `set` asserts of its arguments.

The argument.  Where an item belongs is nowhere in its slot; `FindAssCbit` finds it
out by counting bits along the cluster.  The proof has a function h from the slots to the
distance between an item and its mod, -1 for a free slot, and `Placed` says what the
table has to do with it: the distance falls by at most one from a slot to the next,
for mods rise along a cluster; a group begins where it does not fall; a slot has a
virgin bit if the distance of some item leads to it.  Counted from a free slot, positions
are numbers, an item is never behind its mod (`Reach`) and the mods of a
cluster are a rising sequence (`RunFacts`).  In a rising sequence as many first items as different
values precede each first item (`CountAtStart`): this is why the k-th virgin bit
belongs to the k-th group, why `FindAssCbit` finds the group (`AssFacts`), and why the
bits match (`SoundMatches`).  A table is `Sound` if it is `Placed` for some h and no two
items have one key; then `Contents`, what `get` finds, is what the items say (`ContentsFacts`).

All ways in which `set` puts a new item in are one: there is a free slot e, the items from
there up to a position a move one slot to the left, and the new item, whose mod is at
position n, goes to position a.  `Gate` says where that is right: exactly the items up
to a have mods up to n.  The table is then placed for the distances `Moved`
(`InsertPlaced`), and holds one key more (`InsertSound`).  There are three lemmas for finding
the gate, one for each branch of `set`, and one for the branch that overwrites a value;
`PutFacts` is what remains of them.

`IInv` says that both tables are sound, that the history agrees with the table, and
`Walk`: the copy holds the items between `beg` and `i`, and no mod is between `init_id`
and the mod of the group at `i`.  That each search for a mod ends at the right one is
`BehindItem`: the mod of the next group is not left of the slot behind that of the
last one, and no virgin bit is between (`NoModBefore`).  The copy never fills up, for it
has a part of the items and twice the slots (`CopyRoom`).

`CompactFkhashRehashProofs` and `CompactBonsaiRehashProofs` prove for the two compact
tries, for every capacity, load factor, symbol set, width of a slot and permutation of
the keys:

| Theorem | Says |
|---|---|
| `Invariance` (each) | `Spec => []IndInv` |
| `TypesCorrect` (FK), `TypeCorrect` (bonsai) | type correctness |
| `ChildrenFound` (FK), `FindCorrect` (bonsai) | `find_child` finds exactly the children that are there |
| `ProbesTerminate` (FK) | no probe runs for ever |
| `IdsCorrect` (FK) | ids are kept, are those of exactly one slot, and leave no holes |
| `AuxiliariesComplete` (bonsai) | `aux_cht_` and `aux_map_` hold the displacements that do not fit, and no others |
| `NodeMapCorrect`, `NothingIsLost` (bonsai) | the node map built in place is sound; no node is lost, also when a new id is wider than a slot |
| `Refinement` (each) | `Spec => ImplementsStableTrie` (FK), `Spec => ImplementsDynamicTrie` (bonsai) |

Each of the two modules begins with the same lemmas on keys and displacements.  A key is spread over three places: the
quotient of its hash in a slot, the remainder as the slot where the probe began, and
the displacement as the distance from there.  `KeyOf` takes these back to the key, for
`HashInv` inverts `Hash` and division with remainder is unique; and two keys that meet
with equal quotient and start are equal.  A displacement is in exactly one of its three
places, whatever `UpdateSlot` found in the slot before.

In the FK trie `str` gives the string of each id, and both tables are `Sound`
for the same strings: keys are where their probes come to them (`Chained`) and lead from
the string of the parent to that of the node (`Spelled`).  The new table holds the ids
of the slots copied so far (`IdsBelow`).  As no two ids have one string, no two
slots have one key, although quotients and starts differ from table to table.

In the bonsai trie the old table is overwritten while it is read.  `Reading` says
what is left of it: slots that held no node still look free, those of nodes not
yet moved do not, and still give back parent and symbol, while those in `done` hold the
low bits of new ids, with the high bits in `map_high`.  The rest is the argument of the plain
trie (`Moving`, `OnPath`), with keys that must be recovered and may be found
under a displacement only.

`DisplacementAssumption` asks for hash functions that are permutations of the keys, as
`bijective_hash` promises and `SplitMixBijective` checks for small universes, and
that the smallest table can hold two nodes (`MinCapa * MaxFactor >= 200`, true of
65536 slots).

`NodeMapProofs` proves about the bits, for every number of bits of a word, every width
of a field and of an id, and every capacity:

| Theorem | Says |
|---|---|
| `SetThenGet` | `get` returns what `set` wrote, and no other field changed |
| `TypeCorrect` | no bit is set behind the last field, and the vectors keep their sizes |
| `Refinement` | `Spec => ImplementsSlotMap` |

A field is a range of bits, bit p being bit `p % W` of word `p \div W`.  `get` returns
these bits (`FieldIsBits`), `set` changes these and no others (`SetFieldBits`), be they
in one word or in two, and the ranges of two fields are disjoint (`FieldsApart`).
`Inv` says what vectors there are: that for the high parts is there exactly if an id
does not fit a field, and has the bits that are missing (`Whole`).

`MapProofs` proves about `map`, for every trie and every label store.  The codes come
first, with no more of the trie and the labels than that `compare` finds a mismatch
before the end of the key (`[]MatchInKey`):

| Theorem | Says |
|---|---|
| `CodesCorrect` | no two characters share a code |
| `CodesUsed` | a branch is tried only with a character that has a code: the assertion of `make_symb_` |
| `KeyLeftAlways` | a step or a branch never reads behind the end of the key |

The counter is the number of characters that have a code, all codes are below it, and
no more characters than `CodeMax` ever ask for one (`CodeInv`); that is where the
hypothesis `Cardinality(Chars) <= CodeMax` is needed, and `codes_overflow` shows what
happens without it.  What is left of a key is terminated and not empty (`KeyInv`).

The rest is about the dynamic path-decomposed trie that the map builds out of its trie
and its labels.  These theorems are in `MapProofs` for any trie and labels, and again in
`PoplarMapsProofs` for the six types, where they are about the properties that
`poplar_maps` checks:

| Theorem | Says |
|---|---|
| `TypesCorrect` | type correctness; a walk compares with labels of nodes of the trie only |
| `LabelsFollow` | exactly the nodes that stand for a key have a label |
| `BranchesCorrect` | every child branches off inside its parent's label, with another character |
| `SizeCorrect` | `size()` is the number of keys, and no key has two nodes |
| `MapImplements` | the map is the associative array `AssocArray` |

Each of them has two hypotheses.  `Setting` is what the map asks of its users: lambda is
positive, the terminator is nowhere but at the end of a legal key, there are no more
characters than `CodeMax`, and update may throw if there are that many.  All but the
bound on the characters, which `codes_overflow` is there to exceed, is also in
`MapAssumption`, so that every run evaluates it; in `PoplarMapsProofs` `Setting` is this
bound alone.  `[]PromisesKept` is the contract between
the map and its two template parameters.  `poplar_maps` checks it for all six types, whose
table grows and whose labels move in that run; without it nothing can be said about a map over
any trie at all.  The promises are made for the one call that comes next, in the state it
is made in, and only where the map has met its own obligations; that it always
does is part of what is proved.

The argument.  The tree of an object is written as a record D (`Tree`), so that one
lemma speaks of the tree before and after a step.  It is `Good` if labels are terminated
and parents are nodes (`IsTree`), no two edges from a node are alike (`EdgesDiffer`), every
place is what the parent's place makes it (`Placed`), and every branch leaves the label
above inside and with another character (`BranchesOff`).  As lambda is positive every edge
leads deeper (`Deeper`).  Of two key nodes whose paths lead to a key, the upper one
is the lower one or has a branch whose path leads to the key (`Comparable`, by descent in
the depth, with the library's theorems on well-founded sets); but no branch leads
to the key of the node it leaves (`OffOwn`).  So no key has two nodes (`KeysDiffer`), and
a key whose walk finds no child has none (`NoBranchNoKey`, `StepMissing`).  A walk is at a label (`AtLabel`) or behind a mismatch (`AtMatch`): what it
still has to match is the key behind the path of its node.  A node that `add_child`
adds fits in (`StepGrows`, `BranchGrows`), and where the table grows
all places are those of before under the new ids (`Moves`): the next state's function
`Place` is built from this one's, and it is the one its definition means because only
one function fits a good tree (`OnePlacement`, `PlaceIs`).

The inductive invariant is `MapInv`: the codes and what is left of the key (`Inv`), the
tree is good and its key nodes are those with a label and as many as `size` says
(`Healthy`), the running call is where its key leads (`Walks`), and the pointer returned
last is that to the value of its key (`Returned`).  There is a lemma for each action, and it
shows that the invariant is kept and that the step is one of `AssocArray` or leaves it
alone; only the step that finds the label, finds no child, or adds the node for the key is
seen outside.

`PoplarMapsProofs` has one instance of `MapProofs` for each type, with the operators of
its trie and its labels for the constants.  The lemmas on a type say that this instance
starts, steps, relies on its trie and labels and spells keys exactly as the one
that `PoplarMaps` runs; so the lemmas of `MapProofs` apply to it.  `MapInv` is there
the invariant of the instance that belongs to `kind`, which no step changes.

Only model-checked: liveness (`ExpandReturns`, `CallsReturn`, `CloneReturns`), which
is out of the prover's reach; the FK trie without quotients (`PlainFkhashTrie`), inside the maps; the bytes of
the compact label stores (`LabelsExact`); and that the four tries and the four label stores
keep their promises to the map (`PromisesKept`).  The last two rest on what recursive
definitions compute for every input, an induction over data that the provers cannot make:
the compact stores decode a size byte by byte and find a label behind the sum of the sizes
before it, and a trie or store that grows in one call is a fold over its slots.

## Plan

Order so far: the bonsai trie and the map over it (the core), the FK trie, the two
hash tables, the compact tries, the compact label stores, their bytes, the bits of
the vectors, all six maps in one model.  Next:

1. `BijectiveHash` for wider universes, with the products taken in parts, and as the
   hash of a compact trie.
2. One compact trie over the real auxiliary tables and bit fields instead of functions,
   as a refinement of `Displacements`.

Theorems, in this order:

1. The promises of the plain bonsai trie to the map, from the lemmas about one call on a
   sound table that `PlainBonsaiRehashProofs` has; its `expand` in one step, for the map, is
   a recursive function that no proof relates to the loop so far.
2. The bytes of the compact label stores (`LabelsExact`), whose sums over a chunk are folds.

Runs are kept few: a run of the plan that asks what an existing one
already asks replaces it.

## Not modelled and why

* `bijective_hash.hpp` beyond 8 bits: its products pass the 32 bits of TLC's numbers.
  The hashes of the tries are permutations.
* In the models of whole tries a vector is a function and a field holds what is
  stored in it; that the bits do the same is what `NodeMap` shows for the one place where
  fields are read and overwritten at once.  Flags and `get_bits` are model-checked only,
  apart from what `expand` does with its flags.
* `compact_vector::resize` and `bit_tools::select`: nothing calls them.
* `basics.hpp` except `decompose_value`, `hash.hpp`, `exception.hpp`,
  `poplar_config.hpp`: aliases and constants without state.
* Statistics and `show_stats` of every class: nothing reads them.  `label_bytes_` and
  the counts of labels are modelled.
* Moves, swaps and destruction: values in TLA+; the code has no sharing.
* `src/bench`, `src/sample`, `src/test`: users of the library.
