-------------------------- MODULE Elf32SymbolIndex --------------------------
(***************************************************************************)
(* The symbol index of one object and the walk of its hash tables          *)
(* (elf/linking/elf32_symbol_lookup.cpp): build_elf32_symbol_index,        *)
(* read_elf32_symbol_entry and the pieces of lookup_elf32_symbol_impl.     *)
(*                                                                         *)
(* A hash is any function of the name.  A bloom word is the set of its     *)
(* bits.  A symbol has kinds in place of ELF numbers: "RESERVED" is any    *)
(* section index from SHN_LORESERVE but SHN_ABS, "OTHER" any unsupported   *)
(* binding or type.                                                        *)
(***************************************************************************)
EXTENDS Elf32LinkerMetadata

CONSTANTS
    gnu_hash(_), sysv_hash(_),  \* the hash functions
    WordBits                    \* bits of a bloom word (32)

ASSUME WordBitsAssumption == WordBits \in Nat \ {0}

ZeroSymbol ==
    [name_offset |-> 0, value |-> 0, binding |-> "LOCAL", type |-> "NOTYPE",
     visibility |-> "DEFAULT", other_bits |-> FALSE, section |-> "UNDEF"]

SymbolAddress(md, s) == md.tables["SYMTAB"].guest_address + s * SymbolSize

read_symbol(m, md, s) == Decoded(m.symbol, SymbolAddress(md, s), ZeroSymbol)

CanReadSymbol(m, md, s) == CanRead(m, SymbolAddress(md, s), SymbolSize)

Indexed(m, base, i) == Word(m, base + i * WordSize)
CanReadIndexed(m, base, i) == CanRead(m, base + i * WordSize, WordSize)

(***************************************************************************)
(* SysV: nbucket, nchain, the buckets, the chains.                         *)
(***************************************************************************)
SysvHashIndex(m, a) ==
    [bucket_count |-> Word(m, a), chain_count |-> Word(m, a + WordSize),
     buckets |-> a + 2 * WordSize,
     chains  |-> a + 2 * WordSize + Word(m, a) * WordSize]

\* Mutant: an index equal to the number of symbols passes.
SysvOutOfRangeByTwo(m, h) ==
    \/ \E i \in 0 .. h.bucket_count - 1 : Indexed(m, h.buckets, i) > h.chain_count
    \/ \E i \in 0 .. h.chain_count - 1 : Indexed(m, h.chains, i) > h.chain_count

SysvOutOfRange(m, h) ==
    \/ \E i \in 0 .. h.bucket_count - 1 : Indexed(m, h.buckets, i) >= h.chain_count
    \/ \E i \in 0 .. h.chain_count - 1 : Indexed(m, h.chains, i) >= h.chain_count

SysvError(m, a, options) ==
    LET h == SysvHashIndex(m, a)
        total == (2 + h.bucket_count + h.chain_count) * WordSize
    IN  IF ~CanRead(m, a, 2 * WordSize) THEN "HashHeaderReadFailed"
        ELSE IF h.bucket_count = 0 \/ h.chain_count = 0 THEN "InvalidSysvHash"
        ELSE IF h.bucket_count > options.max_hash_buckets THEN "HashLimitExceeded"
        ELSE IF h.chain_count > options.max_symbols THEN "SymbolCountExceeded"
        ELSE IF ~range_fits(a, total) THEN "HashRangeOverflow"
        ELSE IF ~CanRead(m, a, total) THEN "HashReadFailed"
        ELSE IF SysvOutOfRange(m, h) THEN "HashIndexOutOfRange"
        ELSE None

(***************************************************************************)
(* GNU: four header words, the bloom filter, the buckets, and a chain word *)
(* for each symbol from symbol_offset on, whose bit 0 ends a chain.        *)
(***************************************************************************)
GnuHashIndex(m, a) ==
    LET bloom   == a + 4 * WordSize
        buckets == bloom + Word(m, a + 2 * WordSize) * WordSize
    IN  [bucket_count |-> Word(m, a), symbol_offset |-> Word(m, a + WordSize),
         bloom_word_count |-> Word(m, a + 2 * WordSize),
         bloom_shift |-> Word(m, a + 3 * WordSize),
         bloom |-> bloom, buckets |-> buckets,
         chains |-> buckets + Word(m, a) * WordSize]

is_power_of_two(n) == n # 0 /\ \E k \in 0 .. n : 2 ^ k = n

GnuHeaderError(m, a, options) ==
    LET g == GnuHashIndex(m, a)
    IN  IF ~CanRead(m, a, 4 * WordSize) THEN "HashHeaderReadFailed"
        ELSE IF \/ g.bucket_count = 0 \/ g.symbol_offset = 0
                \/ ~is_power_of_two(g.bloom_word_count)
                \/ g.bloom_shift >= WordBits
             THEN "InvalidGnuHash"
        ELSE IF \/ g.bucket_count > options.max_hash_buckets
                \/ g.bloom_word_count > options.max_gnu_bloom_words
             THEN "HashLimitExceeded"
        ELSE IF g.symbol_offset > options.max_symbols THEN "SymbolCountExceeded"
        ELSE IF ~checked_add_guest_address(g.chains, 0) THEN "HashRangeOverflow"
        ELSE IF ~CanRead(m, a, g.chains - a) THEN "HashReadFailed"
        ELSE None

\* sysv is the sequence of the SysV count, if there is one.
GnuBucketError(m, g, options, sysv) ==
    LET bucket(i) == Indexed(m, g.buckets, i)
        error(s) == IF s = 0 THEN None
                    ELSE IF s < g.symbol_offset THEN "InvalidGnuHash"
                    ELSE IF s >= options.max_symbols THEN "SymbolCountExceeded"
                    ELSE IF sysv # <<>> /\ s >= sysv[1] THEN "HashIndexOutOfRange"
                    ELSE None
        wrong == {i \in 0 .. g.bucket_count - 1 : error(bucket(i)) # None}
    IN  IF wrong = {} THEN None ELSE error(bucket(Least(wrong)))

GnuBuckets(m, g) == {Indexed(m, g.buckets, i) : i \in 0 .. g.bucket_count - 1} \ {0}

Greatest(S) == CHOOSE i \in S : \A j \in S : j <= i

ChainWord(m, g, s) == Indexed(m, g.chains, s - g.symbol_offset)
EndsChain(m, g, s) == ChainWord(m, g, s) % 2 = 1

\* With a SysV table every chain has to end inside its extent.
DualChainError(m, g, count) ==
    LET size == (count - g.symbol_offset) * WordSize
    IN  IF g.symbol_offset > count THEN "InvalidGnuHash"
        ELSE IF ~range_fits(g.chains, size) THEN "HashRangeOverflow"
        ELSE IF ~readable_range(m, g.chains, size) THEN "HashReadFailed"
        ELSE IF \E b \in GnuBuckets(m, g) : \A s \in b .. count - 1 : ~EndsChain(m, g, s)
             THEN "UnterminatedGnuChain"
        ELSE None

\* Without one the chain of the largest bucket ends the symbol table: the
\* symbols where its walk stops, well or badly.
ChainStops(m, g, max_symbols) ==
    {s \in Greatest(GnuBuckets(m, g)) .. max_symbols - 1 :
        ~CanReadIndexed(m, g.chains, s - g.symbol_offset) \/ EndsChain(m, g, s)}

GnuChainError(m, g, options) ==
    LET stops == ChainStops(m, g, options.max_symbols)
        last  == Least(stops) - g.symbol_offset
    IN  IF GnuBuckets(m, g) = {} THEN None
        ELSE IF stops = {} THEN "UnterminatedGnuChain"
        ELSE IF ~checked_add_guest_address(g.chains, last * WordSize) THEN "HashRangeOverflow"
        ELSE IF ~CanReadIndexed(m, g.chains, last) THEN "HashReadFailed"
        ELSE None

GnuSymbolCount(m, g, options) ==
    IF GnuBuckets(m, g) = {} THEN g.symbol_offset
    ELSE Least(ChainStops(m, g, options.max_symbols)) + 1

(***************************************************************************)
(* build_elf32_symbol_index.                                               *)
(***************************************************************************)
IndexFailure(error) == [error |-> error, symbol_count |-> 0, sysv |-> <<>>, gnu |-> <<>>]

HashError(m, md, options) ==
    LET sysv == IF has_table(md, "HASH")
                THEN <<SysvHashIndex(m, md.tables["HASH"].guest_address).chain_count>>
                ELSE <<>>
        sysv_error == IF has_table(md, "HASH")
                      THEN SysvError(m, md.tables["HASH"].guest_address, options) ELSE None
        a == md.tables["GNU_HASH"].guest_address
        g == GnuHashIndex(m, a)
    IN  IF sysv_error # None \/ ~has_table(md, "GNU_HASH") THEN sysv_error
        ELSE IF GnuHeaderError(m, a, options) # None THEN GnuHeaderError(m, a, options)
        ELSE IF GnuBucketError(m, g, options, sysv) # None
             THEN GnuBucketError(m, g, options, sysv)
        ELSE IF sysv # <<>> THEN DualChainError(m, g, sysv[1])
        ELSE GnuChainError(m, g, options)

build_elf32_symbol_index(m, md, options) ==
    LET sysv  == SysvHashIndex(m, md.tables["HASH"].guest_address)
        gnu   == GnuHashIndex(m, md.tables["GNU_HASH"].guest_address)
        count == IF has_table(md, "HASH") THEN sysv.chain_count
                 ELSE GnuSymbolCount(m, gnu, options)
        table == md.tables["SYMTAB"].guest_address
    IN  IF \/ options.max_symbols = 0 \/ options.max_hash_buckets = 0
           \/ options.max_gnu_bloom_words = 0
        THEN IndexFailure("InvalidOptions")
        ELSE IF ~has_table(md, "STRTAB") THEN IndexFailure("MissingStringTable")
        ELSE IF ~has_table(md, "SYMTAB") THEN IndexFailure("MissingSymbolTable")
        ELSE IF ~has_table(md, "HASH") /\ ~has_table(md, "GNU_HASH")
             THEN IndexFailure("MissingHashTable")
        ELSE IF HashError(m, md, options) # None THEN IndexFailure(HashError(m, md, options))
        ELSE IF count > options.max_symbols THEN IndexFailure("SymbolCountExceeded")
        ELSE IF ~range_fits(table, count * SymbolSize) THEN IndexFailure("SymbolRangeOverflow")
        ELSE IF ~CanRead(m, table, count * SymbolSize) THEN IndexFailure("SymbolReadFailed")
        ELSE [error |-> None, symbol_count |-> count,
              sysv |-> IF has_table(md, "HASH") THEN <<sysv>> ELSE <<>>,
              gnu  |-> IF has_table(md, "GNU_HASH") THEN <<gnu>> ELSE <<>>]

read_elf32_symbol_entry(m, md, index, s) ==
    IF ~has_table(md, "SYMTAB") \/ index.symbol_count = 0 THEN "InvalidMetadata"
    ELSE IF s >= index.symbol_count THEN "SymbolIndexOutOfRange"
    ELSE IF ~CanReadSymbol(m, md, s) THEN "SymbolReadFailed"
    ELSE None

(***************************************************************************)
(* The walk of lookup_elf32_symbol_impl.  It has a step per symbol of the  *)
(* chain; each of the operators below says where it goes, or the error it  *)
(* ends with, "SymbolNotFound" for a miss.                                 *)
(***************************************************************************)
At(symbol) == [error |-> None, symbol |-> symbol]
Ends(error) == [error |-> error, symbol |-> 0]

SetBit0(n) == (n - (n % 2)) + 1

BloomPasses(m, g, hash) ==
    LET word == Decoded(m.bloom,
                        g.bloom + ((hash \div WordBits) % g.bloom_word_count) * WordSize, {})
    IN  {hash % WordBits, (hash \div 2 ^ g.bloom_shift) % WordBits} \subseteq word

FirstOfGnuChain(m, index, name) ==
    LET g == index.gnu[1]
        hash == gnu_hash(name)
        bucket == hash % g.bucket_count
        s == Indexed(m, g.buckets, bucket)
    IN  IF ~CanReadIndexed(m, g.bloom, (hash \div WordBits) % g.bloom_word_count)
        THEN Ends("HashReadFailed")
        ELSE IF ~BloomPasses(m, g, hash) THEN Ends("SymbolNotFound")
        ELSE IF ~CanReadIndexed(m, g.buckets, bucket) THEN Ends("HashReadFailed")
        ELSE IF s = 0 THEN Ends("SymbolNotFound")
        ELSE IF s < g.symbol_offset \/ s >= index.symbol_count
             THEN Ends("HashIndexOutOfRange")
        ELSE At(s)

FirstOfSysvChain(m, index, name) ==
    LET bucket == sysv_hash(name) % index.sysv[1].bucket_count
        s == Indexed(m, index.sysv[1].buckets, bucket)
    IN  IF ~CanReadIndexed(m, index.sysv[1].buckets, bucket) THEN Ends("HashReadFailed")
        ELSE IF s >= index.symbol_count /\ s # 0 THEN Ends("HashIndexOutOfRange")
        ELSE IF s = 0 THEN Ends("SymbolNotFound")
        ELSE At(s)

UsesGnu(index) == index.gnu # <<>>

FirstSymbol(m, md, index, name, options) ==
    IF options.max_name_bytes = 0 THEN Ends("InvalidOptions")
    ELSE IF name = <<>> THEN Ends("InvalidLookupName")
    ELSE IF ~has_table(md, "STRTAB") \/ ~has_table(md, "SYMTAB") \/ index.symbol_count = 0
         THEN Ends("InvalidMetadata")
    ELSE IF UsesGnu(index) THEN FirstOfGnuChain(m, index, name)
    ELSE FirstOfSysvChain(m, index, name)

\* GNU reads the chain word before it looks at the symbol.
ChainReadable(m, index, s) ==
    UsesGnu(index) =>
        CanReadIndexed(m, index.gnu[1].chains, s - index.gnu[1].symbol_offset)

HashMatches(m, index, s, name) ==
    UsesGnu(index) => SetBit0(ChainWord(m, index.gnu[1], s)) = SetBit0(gnu_hash(name))

\* The link out of s.
NextInChain(m, index, s) ==
    IF UsesGnu(index)
    THEN IF EndsChain(m, index.gnu[1], s) THEN Ends("SymbolNotFound")
         ELSE IF s + 1 >= index.symbol_count THEN Ends("InvalidHashChain")
         ELSE At(s + 1)
    ELSE LET next == Indexed(m, index.sysv[1].chains, s)
         IN  IF ~CanReadIndexed(m, index.sysv[1].chains, s) THEN Ends("HashReadFailed")
             ELSE IF next >= index.symbol_count /\ next # 0 THEN Ends("HashIndexOutOfRange")
             ELSE IF next = 0 THEN Ends("SymbolNotFound")
             ELSE At(next)

\* Mutant: nothing bounds the walk.
NextSymbolUnbounded(m, index, s, hops) == NextInChain(m, index, s)

\* hops is the number of symbols looked at so far, s among them.
NextSymbol(m, index, s, hops) ==
    LET next == NextInChain(m, index, s)
    IN  IF ~UsesGnu(index) /\ next.error = None /\ hops >= index.symbol_count
        THEN Ends("InvalidHashChain") ELSE next

\* evaluate_candidate up to the version match: the error, "Skip" when the walk
\* goes on, None when the symbol is a definition of the name.
Candidate(m, md, index, s, name, options) ==
    LET symbol == read_symbol(m, md, s)
        text   == read_elf32_string_table_entry(m, md.tables["STRTAB"], symbol.name_offset,
                                                options.max_name_bytes)
    IN  IF s = 0 \/ s >= index.symbol_count THEN "HashIndexOutOfRange"
        ELSE IF ~CanReadSymbol(m, md, s) THEN "SymbolReadFailed"
        ELSE IF text.error # None THEN "StringReadFailed"
        ELSE IF text.value # name THEN "Skip"
        ELSE IF \/ symbol.binding = "LOCAL" \/ symbol.section = "UNDEF"
                \/ symbol.visibility \in {"INTERNAL", "HIDDEN"}
             THEN "Skip"
        ELSE IF symbol.binding \notin {"GLOBAL", "WEAK"} THEN "UnsupportedBinding"
        ELSE IF symbol.other_bits THEN "UnsupportedVisibility"
        ELSE IF symbol.section = "RESERVED" THEN "UnsupportedSectionIndex"
        ELSE IF symbol.type \notin {"NOTYPE", "OBJECT", "FUNC"} THEN "UnsupportedType"
        ELSE None

ValueOverflows(m, md, bias, s) ==
    LET symbol == read_symbol(m, md, s)
    IN  symbol.section # "ABS" /\ ~checked_add_guest_address(bias, symbol.value)

GuestValue(m, md, bias, s) ==
    LET symbol == read_symbol(m, md, s)
    IN  IF symbol.section = "ABS" THEN symbol.value ELSE bias + symbol.value

=============================================================================
