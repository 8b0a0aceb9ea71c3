------------------------ MODULE MCElf32SymbolLookup ------------------------
(***************************************************************************)
(* Elf32SymbolLookup for TLC.  An object is described by its tables and    *)
(* laid out in a block of guest memory; a description is varied in one     *)
(* respect at a time: its hash tables, its version records, the graph it   *)
(* is part of, its dynamic entries, the pages that can be read.            *)
(***************************************************************************)
EXTENDS Elf32SymbolLookup

\* The two names hash to values that differ in bit 0 only, and share a bucket
\* of two or not.
MCgnu_hash(name) == IF name = <<1>> THEN 6 ELSE 7
MCsysv_hash(name) == IF name = <<1>> THEN 2 ELSE 5

\* A string table all objects have: the names <<1>> and <<2>>, the SONAMEs
\* <<11>>, <<12>>, <<13>>, the versions <<4>> and <<5>>.
Strings == <<0, 1, 0, 2, 0, 11, 0, 12, 0, 13, 0, 4, 0, 5, 0>>
SonameOffset(i) == 3 + 2 * i
VersionOffset(v) == 9 + 2 * v

Block == 224

\* Where the tables of an object are, from its load bias.
Layout ==
    [DYNAMIC |-> 0, STRTAB |-> 88, HASH |-> 104, GNU_HASH |-> 120, SYMTAB |-> 140,
     VERSYM |-> 172, VERDEF |-> 176, VERNEED |-> 200]

Symbol(name, value, binding, section) ==
    [ZeroSymbol EXCEPT !.name_offset = name, !.value = value, !.binding = binding,
                       !.section = section]

Plain == [at |-> Layout, soname |-> <<>>, needed |-> <<>>, symbolic |-> FALSE,
          symbols |-> <<>>, sysv |-> <<>>, gnu |-> <<>>, versym |-> <<>>,
          verdef |-> <<>>, verneed |-> <<>>, dependencies |-> <<>>, extra |-> <<>>]

Entry(tag, value) == [tag |-> tag, value |-> value]

Entries(d) ==
    LET opt(b, seq) == IF b THEN seq ELSE <<>>
    IN  <<Entry("STRTAB", d.at.STRTAB), Entry("STRSZ", Len(Strings))>>
        \o d.soname \o d.needed
        \o opt(d.symbols # <<>>, <<Entry("SYMTAB", d.at.SYMTAB), Entry("SYMENT", SymbolSize)>>)
        \o opt(d.sysv # <<>>, <<Entry("HASH", d.at.HASH)>>)
        \o opt(d.gnu # <<>>, <<Entry("GNU_HASH", d.at.GNU_HASH)>>)
        \o opt(d.versym # <<>>, <<Entry("VERSYM", d.at.VERSYM)>>)
        \o opt(d.verdef # <<>>, <<Entry("VERDEF", d.at.VERDEF),
                                  Entry("VERDEFNUM", Len(d.verdef))>>)
        \o opt(d.verneed # <<>>, <<Entry("VERNEED", d.at.VERNEED), Entry("VERNEEDNUM", 1)>>)
        \o opt(d.symbolic, <<Entry("FLAGS", 2)>>)
        \o d.extra \o <<Entry("NULL", 0)>>

(***************************************************************************)
(* Laying out.  A view is a set of pairs until all objects are laid out.   *)
(***************************************************************************)
Placed(start, size, seq) == {<<start + (k - 1) * size, seq[k]>> : k \in DOMAIN seq}

Function(pairs) == [a \in {p[1] : p \in pairs} |-> (CHOOSE p \in pairs : p[1] = a)[2]]

\* GNU: header, bloom words, buckets and chain words; the bloom words apart.
GnuWords(base, g) ==
    LET a == base
        blooms == Len(g.bloom)
    IN  Placed(a, WordSize, <<Len(g.buckets), g.symbol_offset, blooms, g.shift>>)
        \cup Placed(a + (4 + blooms) * WordSize, WordSize, g.buckets \o g.chains)

\* A VERDEF record has its first name right after it.
Defined(start, defs) ==
    LET at[k \in 1 .. Len(defs)] == IF k = 1 THEN start ELSE at[k - 1] + VerdefSize + VerdauxSize
    IN  [verdef  |-> {<<at[k], defs[k].record>> : k \in DOMAIN defs},
         verdaux |-> {<<at[k] + VerdefSize, [name |-> VersionOffset(defs[k].name)]>> :
                         k \in DOMAIN defs}]

View(ds, bases, pairs(_, _)) == Function(UNION {pairs(ds[i], bases[i]) : i \in DOMAIN ds})

MemoryOf(ds, bases, unreadable) ==
    LET dynamic(d, b) == Placed(b + d.at.DYNAMIC, DynSize, Entries(d))
        char(d, b) == Placed(b + d.at.STRTAB, 1, Strings)
        word(d, b) == (IF d.sysv = <<>> THEN {} ELSE Placed(b + d.at.HASH, WordSize, d.sysv))
                      \cup (IF d.gnu = <<>> THEN {} ELSE GnuWords(b + d.at.GNU_HASH, d.gnu[1]))
        bloom(d, b) == IF d.gnu = <<>> THEN {}
                       ELSE Placed(b + d.at.GNU_HASH + 4 * WordSize, WordSize, d.gnu[1].bloom)
        symbol(d, b) == Placed(b + d.at.SYMTAB, SymbolSize, d.symbols)
        versym(d, b) == Placed(b + d.at.VERSYM, VersymSize, d.versym)
        verdef(d, b) == Defined(b + d.at.VERDEF, d.verdef).verdef
        verdaux(d, b) == Defined(b + d.at.VERDEF, d.verdef).verdaux
        verneed(d, b) == IF d.verneed = <<>> THEN {}
                         ELSE {<<b + d.at.VERNEED, d.verneed[1].record>>}
        vernaux(d, b) == IF d.verneed = <<>> THEN {}
                         ELSE Placed(b + d.at.VERNEED + VerneedSize, VernauxSize,
                                     d.verneed[1].auxes)
    IN  [readable |-> Page \ unreadable,
         dynamic |-> View(ds, bases, dynamic), char |-> View(ds, bases, char),
         word |-> View(ds, bases, word), bloom |-> View(ds, bases, bloom),
         symbol |-> View(ds, bases, symbol), versym |-> View(ds, bases, versym),
         verdef |-> View(ds, bases, verdef), verdaux |-> View(ds, bases, verdaux),
         verneed |-> View(ds, bases, verneed), vernaux |-> View(ds, bases, vernaux)]

Bases(ds) == [i \in DOMAIN ds |-> (i - 1) * Block]

Object(d, base) ==
    [load_bias |-> base, dependencies |-> d.dependencies,
     dynamic_segment |-> <<[guest_address |-> base + d.at.DYNAMIC,
                            file_size |-> Len(Entries(d)) * DynSize,
                            memory_size |-> Len(Entries(d)) * DynSize]>>]

World(ds, unreadable, calls) ==
    [objects |-> [i \in DOMAIN ds |-> Object(ds[i], Bases(ds)[i])],
     mem |-> MemoryOf(ds, Bases(ds), unreadable), later |-> {}, offered |-> calls]

Options ==
    [max_symbols |-> 4, max_hash_buckets |-> 2, max_gnu_bloom_words |-> 1,
     max_name_bytes |-> 2, max_scope_objects |-> 3, max_version_records |-> 8,
     global_scope_objects |-> <<>>]

Call(kind, start, name, symbol, options) ==
    [kind |-> kind, start |-> start, name |-> name, symbol |-> symbol, options |-> options]

(***************************************************************************)
(* Hash tables.  Three symbols after the null symbol; the tables are what  *)
(* they may be, right or wrong.                                            *)
(***************************************************************************)
Three ==
    <<ZeroSymbol, Symbol(1, 5, "GLOBAL", "NORMAL"), Symbol(3, 6, "WEAK", "ABS"),
      Symbol(1, 7, "GLOBAL", "NORMAL")>>

Sysv(buckets, chains) == <<Len(buckets), Len(chains)>> \o buckets \o chains

Gnu(symbol_offset, bloom, buckets, chains) ==
    <<[symbol_offset |-> symbol_offset, shift |-> 1, bloom |-> <<bloom>>,
       buckets |-> buckets, chains |-> chains]>>

\* Every bit the two hashes need with a shift of 1 and words of 4 bits.
Filter == {2, 3}
GoodSysv == Sysv(<<1>>, <<0, 2, 3, 0>>)
GoodGnu  == Gnu(1, Filter, <<1>>, <<6, 6, 7>>)

ObjectCalls ==
    {Call("object", 1, name, 3, Options) : name \in {<<1>>, <<2>>, <<>>}}
      \cup {Call("graph", 1, <<1>>, 0, Options)}

SysvWorlds ==
    {World(<<[Plain EXCEPT !.symbols = Three, !.sysv = Sysv(<<b>>, <<0>> \o c)]>>, {},
           ObjectCalls) : b \in 0 .. 4, c \in [1 .. 3 -> 0 .. 4]}
    \cup {World(<<[Plain EXCEPT !.symbols = Three, !.sysv = Sysv(b, <<0, 2, 0, 0>>)]>>, {},
                ObjectCalls) : b \in [1 .. 2 -> 0 .. 3] \cup {<<>>, <<1, 1, 1>>}}
    \cup {World(<<[Plain EXCEPT !.symbols = Three, !.sysv = Sysv(<<1>>, c)]>>, {},
                ObjectCalls) : c \in {<<>>, <<0, 0>>, <<0, 0, 0, 0, 0>>}}

GnuWorlds ==
    {World(<<[Plain EXCEPT !.symbols = Three, !.sysv = s, !.gnu = Gnu(o, f, b, c)]>>, {},
           ObjectCalls) :
       s \in {<<>>, GoodSysv, Sysv(<<1>>, <<0, 0, 0>>)}, o \in 0 .. 2,
       f \in {Filter}, b \in [1 .. 2 -> 0 .. 4],
       c \in {<<6, 6, 7>>, <<7, 6, 7>>, <<6, 6, 6>>, <<6, 7, 6>>}}
    \cup {World(<<[Plain EXCEPT !.symbols = Three,
                                !.gnu = <<[GoodGnu[1] EXCEPT !.bloom = f, !.shift = s]>>]>>, {},
                ObjectCalls) :
            f \in {<<>>, <<{2}>>, <<{3}>>, <<{}>>, <<Filter, {}>>}, s \in {0, 1, 4}}

\* Symbols a lookup passes over, refuses or cannot rebase.
OddSymbols ==
    [ZeroSymbol EXCEPT !.name_offset = 1, !.value = 5, !.binding = "GLOBAL",
                       !.section = "NORMAL"]

SymbolWorlds ==
    {World(<<[Plain EXCEPT !.symbols = <<ZeroSymbol, s, OddSymbols>>, !.sysv = h[1],
                           !.gnu = h[2]]>>, {}, ObjectCalls) :
       h \in {<<Sysv(<<1>>, <<0, 2, 0>>), <<>>>>, <<<<>>, Gnu(1, Filter, <<1>>, <<6, 7>>)>>},
       s \in {[OddSymbols EXCEPT !.binding = "LOCAL"], [OddSymbols EXCEPT !.binding = "OTHER"],
              [OddSymbols EXCEPT !.section = "UNDEF"], [OddSymbols EXCEPT !.section = "RESERVED"],
              [OddSymbols EXCEPT !.visibility = "HIDDEN"],
              [OddSymbols EXCEPT !.visibility = "PROTECTED"],
              [OddSymbols EXCEPT !.visibility = "INTERNAL"],
              [OddSymbols EXCEPT !.other_bits = TRUE],
              [OddSymbols EXCEPT !.type = "OTHER"], [OddSymbols EXCEPT !.type = "FUNC"],
              [OddSymbols EXCEPT !.name_offset = 99],
              [OddSymbols EXCEPT !.value = AddressSpaceSize]}}

(***************************************************************************)
(* Versions: a requester with VERSYM, VERNEED and VERDEF, and a provider   *)
(* with VERSYM and VERDEF.                                                 *)
(***************************************************************************)
Versym(v, hidden) == [index |-> v, hidden |-> hidden]

DefOf(v, name, next) ==
    [name |-> name,
     record |-> [version |-> 1, base |-> FALSE, index |-> v, aux_count |-> 1, hash |-> name,
                 aux |-> VerdefSize, next |-> next]]
BaseDef(next) == [DefOf(1, 1, next) EXCEPT !.record.base = TRUE, !.record.aux_count = 0]
ToNext == VerdefSize + VerdauxSize

AuxOf(v, name, next) ==
    [hash |-> name, index |-> v, name |-> VersionOffset(name), next |-> next]
NeedOf(soname, auxes) ==
    <<[record |-> [version |-> 1, aux_count |-> Len(auxes), file |-> SonameOffset(soname),
                   aux |-> VerneedSize, next |-> 0],
       auxes |-> auxes]>>

Undefined == Symbol(1, 0, "GLOBAL", "UNDEF")

Requester(versym, needs, defs) ==
    [Plain EXCEPT !.soname = <<Entry("SONAME", SonameOffset(1))>>,
                  !.needed = <<Entry("NEEDED", SonameOffset(2))>>,
                  !.symbols = <<ZeroSymbol, Undefined>>, !.sysv = Sysv(<<1>>, <<0, 0>>),
                  !.versym = <<Versym(0, FALSE), versym>>, !.verneed = needs, !.verdef = defs,
                  !.dependencies = <<2>>]

Provider(v1, v2, defs) ==
    [Plain EXCEPT !.soname = <<Entry("SONAME", SonameOffset(2))>>,
                  !.symbols = <<ZeroSymbol, Symbol(1, 5, "GLOBAL", "NORMAL"),
                                Symbol(1, 7, "GLOBAL", "NORMAL")>>,
                  !.sysv = Sysv(<<1>>, <<0, 2, 0>>),
                  !.versym = <<Versym(0, FALSE), v1, v2>>, !.verdef = defs]

TwoNeeds == NeedOf(2, <<AuxOf(2, 1, VernauxSize), AuxOf(3, 2, 0)>>)
TwoDefs == <<DefOf(2, 1, ToNext), DefOf(3, 2, 0)>>

ReferenceCalls(limits) ==
    {Call("reference", 1, <<1>>, 1, [Options EXCEPT !.max_version_records = n]) : n \in limits}

RequesterWorlds ==
    {World(<<Requester(Versym(v, FALSE), needs, defs),
             Provider(Versym(2, FALSE), Versym(3, FALSE), TwoDefs)>>, {},
           ReferenceCalls({0, 1, 2, 3, 4, 5, 6})) :
       v \in {1, 2, 3},
       needs \in {<<>>, TwoNeeds, NeedOf(1, <<AuxOf(2, 1, 0)>>), NeedOf(2, <<>>),
                  NeedOf(2, <<AuxOf(2, 1, 0), AuxOf(3, 2, 0)>>),
                  NeedOf(2, <<AuxOf(2, 1, AddressSpaceSize), AuxOf(3, 2, 0)>>),
                  NeedOf(2, <<AuxOf(2, 1, VernauxSize), AuxOf(2, 2, 0)>>),
                  <<[TwoNeeds[1] EXCEPT !.record.version = 2]>>,
                  <<[TwoNeeds[1] EXCEPT !.record.aux = 0]>>,
                  <<[TwoNeeds[1] EXCEPT !.auxes[1].name = 99]>>},
       defs \in {<<>>, <<DefOf(2, 2, 0)>>, <<BaseDef(0), DefOf(2, 2, 0)>>,
                 <<BaseDef(ToNext), DefOf(3, 1, 0)>>}}

ProviderWorlds ==
    {World(<<Requester(Versym(2, FALSE), TwoNeeds, <<>>), Provider(v1, v2, defs)>>, {},
           ReferenceCalls({3, 4, 8}) \cup {Call("graph", 2, <<1>>, 0, Options)}) :
       v1 \in {Versym(1, FALSE), Versym(2, TRUE), Versym(3, FALSE)},
       v2 \in {Versym(1, TRUE), Versym(2, FALSE), Versym(3, TRUE)},
       defs \in {<<>>, TwoDefs, <<BaseDef(ToNext), DefOf(2, 1, 0)>>,
                 <<DefOf(2, 1, ToNext), DefOf(3, 1, 0)>>, <<DefOf(2, 1, 0), DefOf(3, 2, 0)>>,
                 <<[DefOf(2, 1, 0) EXCEPT !.record.aux = 0]>>,
                 <<[DefOf(2, 1, 0) EXCEPT !.record.version = 0]>>}}
    \cup {World(<<[Requester(Versym(2, FALSE), TwoNeeds, <<>>) EXCEPT !.dependencies = d],
                  Provider(Versym(2, FALSE), Versym(3, FALSE), TwoDefs)>>, {},
                ReferenceCalls({8})) : d \in {<<>>, <<3, 2>>, <<1, 2>>}}

(***************************************************************************)
(* Graphs of three objects.                                                *)
(***************************************************************************)
Definer == [Plain EXCEPT !.symbols = <<ZeroSymbol, Symbol(1, 5, "GLOBAL", "NORMAL")>>,
                         !.gnu = Gnu(1, Filter, <<1>>, <<7>>)]
Other   == [Definer EXCEPT !.symbols = <<ZeroSymbol, Symbol(3, 5, "GLOBAL", "NORMAL")>>]
Wrong   == [Definer EXCEPT !.gnu = Gnu(0, Filter, <<1>>, <<7>>)]

GraphCalls ==
    {Call(kind, 1, <<1>>, 1, [Options EXCEPT !.max_scope_objects = n,
                                             !.global_scope_objects = g]) :
       kind \in {"reference"}, n \in 0 .. 3, g \in {<<>>, <<3>>, <<3, 2>>, <<2, 4>>}}
    \cup {Call("graph", s, <<1>>, 0, [Options EXCEPT !.max_scope_objects = n]) :
            s \in {1, 3, 4}, n \in 2 .. 3}

GraphWorlds ==
    {World([i \in 1 .. 3 |-> [d[i] EXCEPT !.dependencies = e[i], !.symbolic = (i = 1) /\ s]],
           {}, GraphCalls) :
       d \in {<<Other, Other, Definer>>, <<Definer, Other, Definer>>, <<Other, Other, Other>>,
              <<Plain, Definer, Definer>>, <<Other, Wrong, Definer>>},
       e \in {<<a, b, c>> : a \in {<<2, 3>>, <<3, 2>>, <<2>>, <<1, 4>>},
                            b \in {<<>>, <<3>>, <<1, 3>>, <<4>>},
                            c \in {<<>>, <<2, 1>>}},
       s \in BOOLEAN}

(***************************************************************************)
(* Dynamic entries: an object with every table, one entry dropped, doubled *)
(* or with another value; each of its pages unreadable; its segment cut.   *)
(***************************************************************************)
Full ==
    [Provider(Versym(2, FALSE), Versym(3, TRUE), <<DefOf(2, 1, 0)>>)
       EXCEPT !.verneed = NeedOf(2, <<AuxOf(3, 2, 0)>>), !.gnu = Gnu(1, Filter, <<1>>, <<6, 7>>),
              !.needed = <<Entry("NEEDED", 5)>>, !.dependencies = <<1>>,
              !.extra = <<Entry("INIT_ARRAY", 216), Entry("INIT_ARRAYSZ", 4),
                          Entry("FINI_ARRAY", 220), Entry("FINI_ARRAYSZ", 2)>>]

WithRel ==
    [Full EXCEPT !.versym = <<>>, !.verdef = <<>>, !.verneed = <<>>,
                 !.extra = <<Entry("REL", 176), Entry("RELSZ", 8), Entry("RELENT", RelSize),
                             Entry("JMPREL", 192), Entry("PLTRELSZ", 8), Entry("PLTREL", kDtRel),
                             Entry("SYMBOLIC", 0), Entry("FLAGS_1", 2)>>]

FullCalls ==
    {Call("object", 1, <<1>>, 1, Options), Call("graph", 1, <<1>>, 1, Options),
     Call("reference", 1, <<1>>, 1, Options),
     Call("reference", 1, <<1>>, 1, [Options EXCEPT !.max_name_bytes = 0])}

WithEntries(d, entries) ==
    [World(<<d>>, {}, FullCalls)
       EXCEPT !.mem.dynamic = Function(Placed(0, DynSize, entries)),
              !.objects[1].dynamic_segment[1].file_size = Len(entries) * DynSize,
              !.objects[1].dynamic_segment[1].memory_size = Len(entries) * DynSize]

EntryWorlds ==
    UNION {LET e == Entries(d)
           IN  {WithEntries(d, RemoveAt(e, k)) : k \in DOMAIN e}
               \cup {WithEntries(d, <<e[k]>> \o e) : k \in DOMAIN e}
               \cup {WithEntries(d, [e EXCEPT ![k].value = v]) :
                        k \in DOMAIN e, v \in {0, 3, 8, 219, 4 * Block, AddressSpaceSize}}
           : d \in {Full, WithRel}}

\* A GNU table alone, with a chain on a page before that of the largest bucket.
Spread ==
    [Plain EXCEPT !.symbols = Three, !.gnu = Gnu(1, Filter, <<1, 3>>, <<7, 7, 7>>),
                  !.at.GNU_HASH = 122, !.at.SYMTAB = 144]

PageWorlds ==
    UNION {{World(<<d>>, {p}, FullCalls) : p \in 0 .. (Block \div PageSize) - 1}
             : d \in {Full, WithRel, Spread, [Full EXCEPT !.gnu = <<>>], [Full EXCEPT !.sysv = <<>>]}}

\* The tables at the end of the address space.
EdgeWorlds ==
    {World(<<[d EXCEPT !.at[t] = AddressSpaceSize - n]>>, {}, FullCalls) :
       d \in {Full, [Full EXCEPT !.gnu = <<>>], [Full EXCEPT !.sysv = <<>>]},
       t \in {"STRTAB", "HASH", "GNU_HASH", "SYMTAB", "VERSYM", "VERDEF", "VERNEED"},
       n \in {2, 8, 12, 14, 16}}

SegmentWorlds ==
    {[World(<<Full>>, {}, FullCalls) EXCEPT !.objects[1].dynamic_segment = s] :
       s \in {<<>>} \cup
             {<<[guest_address |-> a, file_size |-> f, memory_size |-> m]>> :
                a \in {0, AddressSpaceSize - 8}, f \in {0, 6, 8, 88}, m \in {8, 88}}}

\* Memory changes after the inspection: a word of a hash table, or a page.
LaterWorlds ==
    {LET w == World(<<d>>, {}, {Call("object", 1, <<1>>, 1, Options),
                                Call("graph", 1, <<1>>, 1, Options)})
     IN  [w EXCEPT !.later =
            {[w.mem EXCEPT !.word[a] = v] : a \in DOMAIN w.mem.word, v \in {0, 1, 2, 7, 9}}
            \cup {[w.mem EXCEPT !.readable = @ \ {p}] :
                     p \in 0 .. (Block \div PageSize) - 1}] :
       d \in {Full, [Full EXCEPT !.gnu = <<>>], [Full EXCEPT !.sysv = <<>>],
              [Plain EXCEPT !.symbols = Three, !.sysv = GoodSysv],
              [Plain EXCEPT !.symbols = Three, !.gnu = GoodGnu]}}

MCWorlds ==
    SysvWorlds \cup GnuWorlds \cup SymbolWorlds \cup RequesterWorlds \cup ProviderWorlds
      \cup GraphWorlds \cup EntryWorlds \cup PageWorlds \cup EdgeWorlds \cup SegmentWorlds
      \cup LaterWorlds

=============================================================================
