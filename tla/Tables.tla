------------------------------- MODULE Tables -------------------------------
(***************************************************************************)
(* The tables and sets beside the automata: the symbol table, which names  *)
(* labels (symbol_table.rs, symbol_table_ops.rs), the tables that number   *)
(* entries as they are first met (bi_table.rs), the set of bits that grows *)
(* (bit_set.rs) and the sorted set that knows its bounds (compact_set.rs). *)
(* Keys, ids and indices are from 0, as in the code.                       *)
(***************************************************************************)
EXTENDS Integers, Sequences, FiniteSets
LOCAL INSTANCE SequencesExt
LOCAL INSTANCE Functions
LOCAL INSTANCE TLC

CONSTANTS
  Symbol, hash,     \* the symbols, and what each hashes to
  Key,              \* the keys a caller gives
  MaxKey,           \* bound: the largest key that is handed out
  MaxSharing,       \* bound: symbols in a table of which some were given the same key
  Entry, MaxIds,    \* the entries numbered; bound: ids handed out
  Index,            \* the bits set
  Member,           \* the members of the sorted set
  None

TablesAssumption == hash \in [Symbol -> Nat] /\ Key \subseteq Int /\ Index \subseteq Nat /\ Member \subseteq Int

VARIABLES
  which,  \* the structure driven
  held,   \* it
  truth,  \* what its callers have put in
  said    \* what the last call was asked and answered

tables == <<which, held, truth, said>>

-----------------------------------------------------------------------------
(* DenseSymbolMap: the symbols in a row, and buckets that name them by index, *)
(* found by walking on from where a symbol hashes to.                       *)

EMPTY == -1
InitialBuckets == 4  \* 16 in the code
NoBuckets(n) == [i \in 0 .. n - 1 |-> EMPTY]
NBuckets(m) == Cardinality(DOMAIN m.buckets)
Crowded(m) == 4 * Len(m.symbols) >= 3 * NBuckets(m)

\* The first bucket from a symbol's own that is empty or names one of these indices.
Probe(buckets, symbol, indices) ==
  LET n == Cardinality(DOMAIN buckets)
      after(d) == (hash[symbol] + d) % n
      ends(d) == buckets[after(d)] \in indices \cup {EMPTY}
  IN  after(CHOOSE d \in 0 .. n - 1 : ends(d) /\ \A e \in 0 .. d - 1 : ~ends(e))

IndicesOf(symbols, symbol) == {i \in 0 .. Len(symbols) - 1 : symbols[i + 1] = symbol}

rehash(symbols, n) ==
  [symbols |-> symbols,
   buckets |-> FoldLeft(LAMBDA b, i : [b EXCEPT ![Probe(b, symbols[i], {})] = i - 1],
                        NoBuckets(n), [i \in DOMAIN symbols |-> i])]

InsertedAt(m, symbol, bucket) ==
  IF m.buckets[bucket] # EMPTY THEN [map |-> m, index |-> m.buckets[bucket], inserted |-> FALSE]
  ELSE [map |-> [symbols |-> Append(m.symbols, symbol), buckets |-> [m.buckets EXCEPT ![bucket] = Len(m.symbols)]],
        index |-> Len(m.symbols), inserted |-> TRUE]
Inserted(m, symbol) == InsertedAt(m, symbol, Probe(m.buckets, symbol, IndicesOf(m.symbols, symbol)))
insert_or_find(m, symbol) == Inserted(IF Crowded(m) THEN rehash(m.symbols, 2 * NBuckets(m)) ELSE m, symbol)

find_index(m, symbol) == m.buckets[Probe(m.buckets, symbol, IndicesOf(m.symbols, symbol))]

\* Mutant: the buckets are left as they are.
remove_index_Unhashed(m, index) == [m EXCEPT !.symbols = RemoveAt(@, index + 1)]

remove_index(m, index) == rehash(RemoveAt(m.symbols, index + 1), NBuckets(m))

shrink_to_fit(m) ==
  LET required == (4 * Len(m.symbols)) \div 3
      enough == {InitialBuckets * 2^k : k \in 0 .. 3}
      least == CHOOSE n \in enough : n >= required /\ \A o \in enough : o >= required => n <= o
  IN  IF least < NBuckets(m) THEN rehash(m.symbols, least) ELSE m

-----------------------------------------------------------------------------
(* SymbolTable: below dense_key_limit a key is its symbol's index; of the   *)
(* other symbols idx_key holds the keys, in the order of their indices, and *)
(* key_map the indices.  The check sums are None where not finalized.       *)

K_NO_SYMBOL == -1

NewTable ==
  [available_key |-> 0, dense_key_limit |-> 0, symbols |-> rehash(<<>>, InitialBuckets), idx_key |-> <<>>,
   key_map |-> <<>>, check_sums |-> None]

Size(t) == Len(t.symbols.symbols)
Dense(t, key) == 0 <= key /\ key < t.dense_key_limit
SymbolAt(t, index) == t.symbols.symbols[index + 1]

find_symbol(t, key) ==
  IF Dense(t, key) THEN SymbolAt(t, key)
  ELSE IF key \in DOMAIN t.key_map /\ t.key_map[key] < Size(t) THEN SymbolAt(t, t.key_map[key]) ELSE None

find_key(t, symbol) ==
  LET index == find_index(t.symbols, symbol)
  IN  IF index = EMPTY THEN K_NO_SYMBOL
      ELSE IF index < t.dense_key_limit THEN index ELSE t.idx_key[index - t.dense_key_limit + 1]

get_nth_key(t, pos) ==
  IF pos >= Size(t) THEN K_NO_SYMBOL ELSE IF pos < t.dense_key_limit THEN pos ELSE find_key(t, SymbolAt(t, pos))

\* What the iterator yields; it stops the program where a key names no symbol.
Items(t) == [pos \in 1 .. Size(t) |-> LET key == get_nth_key(t, pos - 1) IN [label |-> key, symbol |-> find_symbol(t, key)]]
Iterates(t) == \A pos \in 1 .. Size(t) : Items(t)[pos].symbol # None

Answered(t, key) == [table |-> t, key |-> key]

Placed(t, key, n) ==
  IF key + 1 = n /\ key = t.dense_key_limit THEN [t EXCEPT !.dense_key_limit = @ + 1]
  ELSE [t EXCEPT !.idx_key = Append(@, key), !.key_map = (key :> n - 1) @@ @]

Added(t, key, found) ==
  LET known == [t EXCEPT !.symbols = found.map]
  IN  IF ~found.inserted THEN Answered(known, get_nth_key(known, found.index))
      ELSE Answered([Placed(known, key, Len(found.map.symbols)) EXCEPT
                       !.available_key = IF key >= @ THEN key + 1 ELSE @, !.check_sums = None], key)

add_symbol(t, symbol, key) ==
  IF key = K_NO_SYMBOL THEN Answered(t, key) ELSE Added(t, key, insert_or_find(t.symbols, symbol))

Moved(t, kept, index) == [k \in kept |-> IF t.key_map[k] > index THEN t.key_map[k] - 1 ELSE t.key_map[k]]
Gone(t, key, index) == [t EXCEPT !.symbols = remove_index(@, index), !.available_key = IF key = @ - 1 THEN key ELSE @]

\* The dense keys above it become keys like others.
RemovedDense(t, key) ==
  [Gone(t, key, key) EXCEPT
     !.key_map = [k \in key + 1 .. t.dense_key_limit - 1 |-> k - 1] @@ Moved(t, DOMAIN t.key_map, key),
     !.idx_key = [i \in 1 .. t.dense_key_limit - 1 - key |-> key + i] \o @, !.dense_key_limit = key]

RemovedSparse(t, key, index) ==
  [Gone(t, key, index) EXCEPT !.key_map = Moved(t, DOMAIN t.key_map \ {key}, index),
                              !.idx_key = RemoveAt(@, index - t.dense_key_limit + 1)]

\* Mutant: the sums are still taken for those of the table.
remove_symbol_KeepingSums(t, key) ==
  IF Dense(t, key) THEN RemovedDense(t, key)
  ELSE IF key \in DOMAIN t.key_map THEN RemovedSparse(t, key, t.key_map[key]) ELSE t

remove_symbol(t, key) ==
  IF Dense(t, key) THEN [RemovedDense(t, key) EXCEPT !.check_sums = None]
  ELSE IF key \in DOMAIN t.key_map THEN [RemovedSparse(t, key, t.key_map[key]) EXCEPT !.check_sums = None] ELSE t

\* The rows that a table is summed and written by: the dense ones, then by key. A
\* sum leaves out the keys mapped that are dense as well; a file has them.
Row(t, key, index) == [label |-> key, symbol |-> SymbolAt(t, index)]
RowsOf(t, mapped) ==
  LET sparse == SetToSortSeq(mapped, <)
  IN  [k \in 1 .. t.dense_key_limit |-> Row(t, k - 1, k - 1)] \o [i \in DOMAIN sparse |-> Row(t, sparse[i], t.key_map[sparse[i]])]
Rows(t) == RowsOf(t, {k \in DOMAIN t.key_map : ~Dense(t, k)})

\* A sum is as good as what it sums.
maybe_recompute_check_sum(t) ==
  IF t.check_sums # None THEN t ELSE [t EXCEPT !.check_sums = [plain |-> t.symbols.symbols, labeled |-> Rows(t)]]

compat_symbols(t, u) ==
  maybe_recompute_check_sum(t).check_sums.labeled = maybe_recompute_check_sum(u).check_sums.labeled

AddRows(t, rows) == FoldLeft(LAMBDA u, row : add_symbol(u, row.symbol, row.label).table, t, rows)
Shrunk(t) == [t EXCEPT !.symbols = shrink_to_fit(@)]

WriteTable(t) == [available_key |-> t.available_key, size |-> Size(t), rows |-> RowsOf(t, DOMAIN t.key_map)]
\* A file of fewer rows than it says it has ends too early to be read.
Readable(file) == Len(file.rows) >= file.size
ReadTable(file) == Shrunk(AddRows([NewTable EXCEPT !.available_key = file.available_key], file.rows))
ReadText(rows) == Shrunk(AddRows(NewTable, rows))

-----------------------------------------------------------------------------
(* Operations over symbol tables.                                           *)

prune_symbol_table(t, labels) ==
  AddRows(NewTable, SelectSeq(Items(t), LAMBDA row : row.label \in labels \cup {0}))

compact_symbol_table(t) ==
  LET items == Items(t)
      ByLabel(r, s) == r.label < s.label
      sorted == SetToSortSeq({items[i] : i \in DOMAIN items}, ByLabel)
  IN  AddRows(NewTable, [i \in DOMAIN sorted |-> [sorted[i] EXCEPT !.label = i - 1]])

Lacks(t, row) == find_key(t, row.symbol) = K_NO_SYMBOL
HasAll(t, rows) == \A i \in DOMAIN rows : find_key(t, rows[i].symbol) = rows[i].label
Unnamed(t, row) == find_symbol(t, row.label) = None
AppendAuto(t, rows) == FoldLeft(LAMBDA u, row : add_symbol(u, row.symbol, u.available_key).table, t, rows)

add_table(t, u) == AppendAuto(t, Items(u))

\* Left's symbols with their keys, then right's where theirs are free.
Fitting(left, rs) ==
  FoldLeft(LAMBDA acc, row :
             IF ~Lacks(left, row) THEN acc
             ELSE IF Unnamed(acc.table, row) THEN [acc EXCEPT !.table = add_symbol(@, row.symbol, row.label).table]
             ELSE [acc EXCEPT !.conflicts = Append(@, row)],
           [table |-> AddRows(NewTable, Items(left)), conflicts |-> <<>>], rs)

\* Mutant: a symbol appended with a fresh key is no reason to relabel.
Merged_Silently(left, right, rs, fitting) ==
  IF HasAll(right, Items(left)) THEN [table |-> right, relabel |-> FALSE]
  ELSE [table |-> IF \A i \in DOMAIN rs : ~Lacks(left, rs[i]) THEN left ELSE AppendAuto(fitting.table, fitting.conflicts),
        relabel |-> \E i \in DOMAIN rs : find_key(left, rs[i].symbol) \notin {K_NO_SYMBOL, rs[i].label}]

\* The rest are appended, and the caller is told to relabel.
Merged(left, right, rs, fitting) ==
  IF HasAll(right, Items(left)) THEN [table |-> right, relabel |-> FALSE]
  ELSE [table |-> IF \A i \in DOMAIN rs : ~Lacks(left, rs[i]) THEN left ELSE AppendAuto(fitting.table, fitting.conflicts),
        relabel |-> \/ fitting.conflicts # <<>>
                    \/ \E i \in DOMAIN rs : find_key(left, rs[i].symbol) \notin {K_NO_SYMBOL, rs[i].label}]

merge_symbol_table(left, right) == Merged(left, right, Items(right), Fitting(left, Items(right)))

\* Stops at the first that clashes, what was added before it staying.
add_auxiliary_symbols(t, symbols, start_label) ==
  FoldLeft(LAMBDA acc, i :
             LET added == add_symbol(acc.table, symbols[i], start_label + i - 1)
             IN  IF acc.error THEN acc ELSE [table |-> added.table, error |-> added.key # start_label + i - 1],
           [table |-> t, error |-> FALSE], [i \in DOMAIN symbols |-> i])

-----------------------------------------------------------------------------
(* The tables of entries.  All number them from 0 as they come; they differ *)
(* in what leads back from an entry: a copy of it (hash), its id among the  *)
(* keys, compared by what the id names (compact), a slot of the number it   *)
(* is fingerprinted by (vector), the second or the first as a selector says *)
(* (vector hash), and a copy again where entries are erased from the front  *)
(* (erasable).  Here an entry is its own fingerprint, and EMPTY_ENTRY what  *)
(* is left of one erased.                                                   *)

BiTables == {"hash", "compact", "vector", "vector hash", "erasable"}
EMPTY_ENTRY == -2
NewBiTable(kind) == [kind |-> kind, id2entry |-> <<>>, entry2id |-> <<>>, keys |-> {}, fp2id |-> <<>>, first |-> 0]

selector(entry) == entry % 2 = 0
ByFingerprint(b, entry) == b.kind = "vector" \/ (b.kind = "vector hash" /\ selector(entry))
ByKeys(b, entry) == b.kind = "compact" \/ (b.kind = "vector hash" /\ ~selector(entry))

find_entry(b, id) == IF id >= b.first /\ id - b.first < Len(b.id2entry) THEN b.id2entry[id - b.first + 1] ELSE None

HashKnown(b, entry) == IF entry \in DOMAIN b.entry2id THEN b.entry2id[entry] ELSE None
KeyKnown(b, entry) ==
  LET named == {id \in b.keys : find_entry(b, id) = entry} IN IF named = {} THEN None ELSE CHOOSE id \in named : TRUE
VectorKnown(b, entry) == IF entry < Len(b.fp2id) THEN b.fp2id[entry + 1] ELSE None

KnownId(b, entry) ==
  IF ByFingerprint(b, entry) THEN VectorKnown(b, entry)
  ELSE IF ByKeys(b, entry) THEN KeyKnown(b, entry) ELSE HashKnown(b, entry)

HashPut(b, entry, id) == [b EXCEPT !.entry2id = (entry :> id) @@ @]
KeyPut(b, id) == [b EXCEPT !.keys = @ \cup {id}]
\* The slots up to the entry's are made when it is put in.
VectorPut(b, entry, id) ==
  LET slots == IF entry < Len(b.fp2id) THEN Len(b.fp2id) ELSE entry + 1
  IN  [b EXCEPT !.fp2id = [f \in 1 .. slots |-> CASE f = entry + 1 -> id [] f # entry + 1 /\ f <= Len(@) -> @[f] [] OTHER -> None]]

find_id(b, entry, insert) ==
  LET id == Len(b.id2entry) + b.first
      in == [b EXCEPT !.id2entry = Append(@, entry)]
  IN  IF KnownId(b, entry) # None \/ ~insert THEN [table |-> b, id |-> KnownId(b, entry)]
      ELSE [id |-> id,
            table |-> IF ByFingerprint(b, entry) THEN VectorPut(in, entry, id)
                      ELSE IF ByKeys(b, entry) THEN KeyPut(in, id) ELSE HashPut(in, entry, id)]

clear(b) == NewBiTable(b.kind)

\* Mutant: the ids of those popped are given again.
erase_Renumbering(b, id) ==
  LET gone == [b EXCEPT !.entry2id = Restrict(@, DOMAIN @ \ {find_entry(b, id)}), !.id2entry[id - b.first + 1] = EMPTY_ENTRY]
      leading == Cardinality({i \in DOMAIN gone.id2entry : \A j \in 1 .. i : gone.id2entry[j] = EMPTY_ENTRY})
  IN  IF find_entry(b, id) = None THEN b
      ELSE [gone EXCEPT !.id2entry = SubSeq(@, leading + 1, Len(@))]

\* What was erased at the front is popped.
erase(b, id) ==
  LET gone == [b EXCEPT !.entry2id = Restrict(@, DOMAIN @ \ {find_entry(b, id)}), !.id2entry[id - b.first + 1] = EMPTY_ENTRY]
      leading == Cardinality({i \in DOMAIN gone.id2entry : \A j \in 1 .. i : gone.id2entry[j] = EMPTY_ENTRY})
  IN  IF find_entry(b, id) = None THEN b
      ELSE [gone EXCEPT !.id2entry = SubSeq(@, leading + 1, Len(@)), !.first = @ + leading]

-----------------------------------------------------------------------------
(* GrowableBitSet: words of bits, as many as the domain needs.              *)

WORD_BITS == 2  \* 64 in the code
num_words(domain_size) == (domain_size + WORD_BITS - 1) \div WORD_BITS
NewBits == [domain_size |-> 0, words |-> <<>>]

new_filled(domain_size) ==
  [domain_size |-> domain_size,
   words |-> [w \in 1 .. num_words(domain_size) |->
                {b \in 0 .. WORD_BITS - 1 : (w - 1) * WORD_BITS + b < domain_size}]]

ensure(s, min_domain_size) ==
  IF s.domain_size >= min_domain_size THEN s
  ELSE [domain_size |-> min_domain_size,
        words |-> s.words \o [w \in 1 .. num_words(min_domain_size) - Len(s.words) |-> {}]]

Word(index) == index \div WORD_BITS + 1
Bit(index)  == index % WORD_BITS
Changed(old, new) == [set |-> new, changed |-> old.words # new.words]

bit_contains(s, index) == index < s.domain_size /\ Bit(index) \in s.words[Word(index)]
bit_insert(s, index) ==
  LET grown == ensure(s, index + 1) IN Changed(grown, [grown EXCEPT !.words[Word(index)] = @ \cup {Bit(index)}])
bit_remove(s, index) ==
  IF index >= s.domain_size THEN Changed(s, s) ELSE Changed(s, [s EXCEPT !.words[Word(index)] = @ \ {Bit(index)}])

\* What both have words for; a union has all of the other's.
bit_union(s, t) ==
  LET grown == ensure(s, t.domain_size)
  IN  Changed(grown, [grown EXCEPT !.words = [w \in DOMAIN @ |-> @[w] \cup (IF w \in DOMAIN t.words THEN t.words[w] ELSE {})]])
bit_subtract(s, t) ==
  Changed(s, [s EXCEPT !.words = [w \in DOMAIN @ |-> @[w] \ (IF w \in DOMAIN t.words THEN t.words[w] ELSE {})]])

\* Mutant: the words the other has not are left as they are.
bit_intersect_Partly(s, t) ==
  Changed(s, [s EXCEPT !.words = [w \in DOMAIN @ |-> IF w \in DOMAIN t.words THEN @[w] \cap t.words[w] ELSE @[w]]])

bit_intersect(s, t) ==
  Changed(s, [s EXCEPT !.words = [w \in DOMAIN @ |-> IF w \in DOMAIN t.words THEN @[w] \cap t.words[w] ELSE {}]])

bit_clear(s) == [s EXCEPT !.words = [w \in DOMAIN @ |-> {}]]
count(s) == FoldLeft(LAMBDA n, word : n + Cardinality(word), 0, s.words)

\* BitIter: word by word, the lowest bit of what is left first.
BitsOf(s) == FlattenSeq([w \in DOMAIN s.words |-> [b \in 1 .. Cardinality(s.words[w]) |->
               (w - 1) * WORD_BITS + SetToSortSeq(s.words[w], <)[b]]])

-----------------------------------------------------------------------------
(* CompactSet: sorted keys and their bounds, NO_KEY when there are none.    *)

NO_KEY == -1
NewCompactSet == [keys |-> <<>>, min_key |-> NO_KEY, max_key |-> NO_KEY]

set_insert(s, key) ==
  [keys |-> SetToSortSeq(ToSet(s.keys) \cup {key}, <),
   min_key |-> IF s.min_key = NO_KEY \/ key < s.min_key THEN key ELSE s.min_key,
   max_key |-> IF s.max_key = NO_KEY \/ key > s.max_key THEN key ELSE s.max_key]

\* Mutant: the bounds stay where they are while there are keys left.
set_erase_KeepingBounds(s, key) ==
  LET left == SelectSeq(s.keys, LAMBDA k : k # key) IN IF left = <<>> THEN NewCompactSet ELSE [s EXCEPT !.keys = left]

set_erase(s, key) ==
  LET left == SelectSeq(s.keys, LAMBDA k : k # key)
  IN  IF left = s.keys THEN s
      ELSE IF left = <<>> THEN NewCompactSet
      ELSE IF key = s.min_key THEN [s EXCEPT !.keys = left, !.min_key = Head(left)]
      ELSE IF key = s.max_key THEN [s EXCEPT !.keys = left, !.max_key = Last(left)]
      ELSE [s EXCEPT !.keys = left]

\* Where the bounds hold no more than the keys do, none need be looked at.
is_member(s, key) ==
  IF s.min_key = NO_KEY \/ key < s.min_key \/ key > s.max_key THEN FALSE
  ELSE s.max_key - s.min_key + 1 = Len(s.keys) \/ key \in ToSet(s.keys)

-----------------------------------------------------------------------------
(* The calls.                                                               *)

Nothing == [asked |-> None, answer |-> None]
Saying(asked, answer) == [asked |-> asked, answer |-> answer]

\* truth: the key that each symbol in the table was given, and the keys that were
\* given to one symbol while another had them.  Of those symbols each goes on saying
\* the key, which names the first of them while it is dense, and else the last.
AddSymbol(symbol, key) ==
  LET added == add_symbol(held, symbol, key)
      new == symbol \notin DOMAIN truth.keys /\ key # K_NO_SYMBOL
      shared == truth.shared \cup ({key} \cap Range(truth.keys))
  IN  /\ which = "symbols" /\ (new /\ shared # {} => Size(held) < MaxSharing)
      /\ held' = added.table
      /\ truth' = IF ~new THEN truth
                  ELSE [keys |-> (symbol :> key) @@ truth.keys, shared |-> shared]
      /\ said' = Nothing /\ UNCHANGED which

AddSymbolAuto(symbol) == which = "symbols" /\ held.available_key <= MaxKey /\ AddSymbol(symbol, held.available_key)

\* The symbols left, and the keys they share.
Left(symbols) ==
  LET keys == Restrict(truth.keys, DOMAIN truth.keys \cap symbols)
  IN  [keys |-> keys, shared |-> truth.shared \cap Range(keys)]

\* What the key names goes.
RemoveSymbol(key) ==
  /\ which = "symbols"
  /\ held' = remove_symbol(held, key) /\ truth' = Left(Symbol \ {find_symbol(held, key)})
  /\ said' = Nothing /\ UNCHANGED which

SumUp == which = "symbols" /\ held' = maybe_recompute_check_sum(held) /\ said' = Nothing /\ UNCHANGED <<which, truth>>

\* As bytes all of it or nothing; as text what is iterated over.
ReadBack ==
  /\ which = "symbols" /\ said' = Nothing /\ UNCHANGED which
  /\ \/ Readable(WriteTable(held)) /\ held' = ReadTable(WriteTable(held)) /\ UNCHANGED truth
     \/ /\ Iterates(held) /\ held' = ReadText(Items(held))
        /\ truth' = [Left({row.symbol : row \in ToSet(Items(held))}) EXCEPT !.shared = {}]

\* truth: the entries that were given ids, in their order, since the table was made
\* or cleared, and the ids erased.
Numbered == 0 .. Len(truth.given) - 1 \ truth.erased
NumberedAs(entry) == {id \in Numbered : truth.given[id + 1] = entry}

FindId(entry, insert) ==
  LET found == find_id(held, entry, insert)
  IN  /\ which = "entries" /\ Len(truth.given) <= MaxIds
      /\ held' = found.table /\ said' = Saying(entry, found.id)
      /\ truth' = IF insert /\ NumberedAs(entry) = {} THEN [truth EXCEPT !.given = Append(@, entry)] ELSE truth
      /\ UNCHANGED which

Erase(id) ==
  /\ which = "entries" /\ held.kind = "erasable"
  /\ held' = erase(held, id) /\ truth' = [truth EXCEPT !.erased = @ \cup ({id} \cap Numbered)]
  /\ said' = Nothing /\ UNCHANGED which

NothingGiven == [given |-> <<>>, erased |-> {}]

Clear ==
  /\ which = "entries" /\ held.kind \in {"hash", "compact"}
  /\ held' = clear(held) /\ truth' = NothingGiven /\ said' = Nothing /\ UNCHANGED which

\* Two sets, the first changed alone or by the second, or put in its place.
SetTo(changed, all) ==
  held' = [held EXCEPT ![1] = changed.set] /\ truth' = [truth EXCEPT ![1] = all] /\ said' = Saying("changed", changed.changed)

Bits ==
  /\ which = "bits" /\ UNCHANGED which
  /\ \/ \E i \in Index : SetTo(bit_insert(held[1], i), truth[1] \cup {i}) \/ SetTo(bit_remove(held[1], i), truth[1] \ {i})
     \/ SetTo(bit_union(held[1], held[2]), truth[1] \cup truth[2])
     \/ SetTo(bit_subtract(held[1], held[2]), truth[1] \ truth[2])
     \/ SetTo(bit_intersect(held[1], held[2]), truth[1] \cap truth[2])
     \/ SetTo(Changed(held[1], bit_clear(held[1])), {})
     \/ held' = Reverse(held) /\ truth' = Reverse(truth) /\ said' = Nothing

Members ==
  /\ which = "members" /\ said' = Nothing /\ UNCHANGED which
  /\ \E k \in Member : \/ held' = set_insert(held, k) /\ truth' = truth \cup {k}
                       \/ held' = set_erase(held, k) /\ truth' = truth \ {k}

Init ==
  /\ said = Nothing
  /\ \/ which = "symbols" /\ held = NewTable /\ truth = [keys |-> <<>>, shared |-> {}]
     \/ which = "entries" /\ held \in {NewBiTable(kind) : kind \in BiTables} /\ truth = NothingGiven
     \/ which = "bits" /\ truth = <<{}, {}>> /\ held = <<NewBits, NewBits>>
     \/ which = "members" /\ held = NewCompactSet /\ truth = {}

Next ==
  \/ \E s \in Symbol : AddSymbolAuto(s) \/ \E k \in Key : AddSymbol(s, k)
  \/ \E k \in Key \cup 0 .. MaxKey : RemoveSymbol(k)
  \/ SumUp \/ ReadBack
  \/ \E e \in Entry, insert \in BOOLEAN : FindId(e, insert)
  \/ \E id \in 0 .. MaxIds : Erase(id)
  \/ Clear \/ Bits \/ Members

-----------------------------------------------------------------------------
(* What they answer.                                                        *)

TablesTypeOK ==
  /\ which \in {"symbols", "entries", "bits", "members"}
  /\ DOMAIN said = {"asked", "answer"}

\* A table says of each symbol in it the key it was given, and of a key the symbol
\* it was given to; of a key given to several, one of them or, once what it named has
\* been removed, none.  The key handed out next is above all that one symbol has.
Says(t, keys, shared) ==
  /\ \A s \in Symbol : find_key(t, s) = IF s \in DOMAIN keys THEN keys[s] ELSE K_NO_SYMBOL
  /\ \A k \in Key \cup 0 .. MaxKey :
       LET given == {s \in DOMAIN keys : keys[s] = k}
       IN  find_symbol(t, k) \in given \cup IF given = {} \/ k \in shared THEN {None} ELSE {}
  /\ Size(t) = Cardinality(DOMAIN keys) /\ \A k \in Range(keys) \ shared : k < t.available_key
  /\ shared = {} => ToSet(Items(t)) = {[label |-> keys[s], symbol |-> s] : s \in DOMAIN keys}

MergedRightly(mine, yours, merged) ==
  LET all == {merged.table.symbols.symbols[i] : i \in 1 .. Size(merged.table)}
  IN  /\ all = DOMAIN mine \cup DOMAIN yours
      /\ \A s \in DOMAIN mine : find_key(merged.table, s) = mine[s]
      /\ (\E s \in DOMAIN yours : find_key(merged.table, s) # yours[s]) <=> merged.relabel
      /\ IsInjective([s \in all |-> find_key(merged.table, s)])

TableOf(rows) == AddRows(NewTable, rows)
KeysIn(rows) == [s \in {rows[i].symbol : i \in DOMAIN rows} |-> (CHOOSE row \in ToSet(rows) : row.symbol = s).label]

\* What is made of a table that names each symbol by a key of its own: what is summed,
\* pruned, compacted, merged or appended to says what it should.
MadeOfItRight(keys, Others) ==
  LET sorted == SetToSortSeq(Range(keys), <)
      symbol(i) == CHOOSE s \in DOMAIN keys : keys[s] = sorted[i]
      anew == TableOf([i \in DOMAIN sorted |-> [label |-> sorted[i], symbol |-> symbol(i)]])
  IN  /\ Range(keys) \subseteq Nat => compat_symbols(held, anew)
      /\ Says(prune_symbol_table(held, {1, 3}), Restrict(keys, {s \in DOMAIN keys : keys[s] \in {0, 1, 3}}), {})
      /\ Says(compact_symbol_table(held), [s \in DOMAIN keys |-> Cardinality({k \in Range(keys) : k < keys[s]})], {})
      /\ \A rows \in Others :
           LET other == TableOf(rows)
               both == add_table(held, other)
           IN  /\ MergedRightly(keys, KeysIn(rows), merge_symbol_table(held, other))
               /\ MergedRightly(KeysIn(rows), keys, merge_symbol_table(other, held))
               /\ \A s \in DOMAIN keys \cup DOMAIN KeysIn(rows) :
                    find_symbol(both, find_key(both, s)) = s /\ (s \in DOMAIN keys => find_key(both, s) = find_key(held, s))

\* Whatever keys are given, a table says what was put in it; a bucket stays empty, so
\* that every search ends; a symbol known is answered by its key; sums are those of
\* what it holds; and symbols appended beyond its keys clash with those known alone.
SymbolsAreRight(Others) ==
  which = "symbols" =>
    /\ \E b \in DOMAIN held.symbols.buckets : held.symbols.buckets[b] = EMPTY
    /\ Says(held, truth.keys, truth.shared)
    /\ \A s \in DOMAIN truth.keys, k \in Key : add_symbol(held, s, k).key = IF k = K_NO_SYMBOL THEN k ELSE find_key(held, s)
    /\ held.check_sums # None => held.check_sums = [plain |-> held.symbols.symbols, labeled |-> Rows(held)]
    /\ \A rows \in Others :
         add_auxiliary_symbols(held, [i \in DOMAIN rows |-> rows[i].symbol], MaxKey + 1).error
           <=> DOMAIN truth.keys \cap DOMAIN KeysIn(rows) # {}
    /\ truth.shared = {} => MadeOfItRight(truth.keys, Others)

\* "Returns the smallest positive contiguous key not yet assigned": every smaller
\* positive key names a symbol.
AvailableKeyIsSmallest == which = "symbols" => \A k \in 1 .. held.available_key - 1 : find_symbol(held, k) # None

\* An id is the next that was never given, erased ones counted; it names the entry it
\* was given for until it is erased, and then nothing, whatever is numbered after it;
\* and an entry is answered the id that it has.
EntriesAreRight ==
  which = "entries" =>
    /\ \A id \in Numbered : find_entry(held, id) = truth.given[id + 1]
    /\ \A id \in 0 .. MaxIds \ Numbered : find_entry(held, id) \in {None, EMPTY_ENTRY}
    /\ \A e \in Entry : NumberedAs(e) = (IF KnownId(held, e) = None THEN {} ELSE {KnownId(held, e)})
    /\ said.answer # None => said.answer \in NumberedAs(said.asked)

BitsAreRight ==
  which = "bits" =>
    \A i \in {1, 2} :
      /\ {x \in Index : bit_contains(held[i], x)} = truth[i] /\ count(held[i]) = Cardinality(truth[i])
      /\ BitsOf(held[i]) = SetToSortSeq(truth[i], <)
      /\ Len(held[i].words) = num_words(held[i].domain_size)
      /\ count(new_filled(held[i].domain_size)) = held[i].domain_size

MembersAreRight ==
  which = "members" =>
    /\ \A k \in Member : is_member(held, k) <=> k \in truth
    /\ held.keys = SetToSortSeq(truth, <)
    /\ truth # {} => held.min_key = Head(held.keys) /\ held.max_key = Last(held.keys)

\* A key goes on naming what it names while no symbol with that key comes or goes,
\* whatever happens to the indices under it; and a set says whether it changed.
AnswersAreKept ==
  /\ which = "symbols" =>
       \A k \in Key \cup 0 .. MaxKey :
         {s \in DOMAIN truth.keys : truth.keys[s] = k} = {s \in DOMAIN truth'.keys : truth'.keys[s] = k}
           => find_symbol(held', k) = find_symbol(held, k)
  /\ which = "bits" /\ said'.asked = "changed" => (said'.answer <=> truth' # truth)
=============================================================================
