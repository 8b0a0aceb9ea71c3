------------------------- MODULE Elf32SymbolLookup -------------------------
(***************************************************************************)
(* Binding a name to a definition, from the dynamic segments of the loaded *)
(* objects to the answer of a lookup: inspect_object for every object of a *)
(* graph, then one call of                                                 *)
(*                                                                         *)
(*   build_elf32_symbol_index and lookup_elf32_symbol       ("object"),    *)
(*   lookup_elf32_graph_symbol                              ("graph"),     *)
(*   lookup_elf32_graph_symbol_for_reference                ("reference"), *)
(*                                                                         *)
(* a step for every object searched, symbol looked at and version record   *)
(* read.  The index of an "object" call is held by the caller, and guest   *)
(* memory may be rewritten or protected before it is used.                 *)
(*                                                                         *)
(* Objects are numbered from 1; an index with no object is an invalid one. *)
(* An optional value is a sequence of at most one.                         *)
(***************************************************************************)
EXTENDS Elf32SymbolIndex, Elf32SymbolVersions, SequencesExt, FiniteSetsExt

CONSTANTS
    Worlds,         \* where a behaviour starts: [objects, mem, later, offered],
                    \* later the contents memory may get after inspection
    MaxStringBytes  \* max_string_bytes of the inspection

VARIABLES
    objects,     \* Elf32DependencyGraph::objects
    mem,         \* guest memory, as Elf32Bytes sees it
    later, offered,
    stale,       \* what was read from memory before it was rewritten
    pc,
    call,        \* the arguments
    requirement, \* the version requirement
    walk,        \* a walk of version records
    scope,       \* the locals of lookup_elf32_graph_symbol_impl
    index,       \* the symbol index in use
    cursor,      \* the symbol looked at and the hops to it
    result

inputs == <<objects, mem, later, offered, stale, call>>
vars == <<objects, mem, later, offered, stale, pc, call, requirement, walk, scope, index,
          cursor, result>>

NoResult == [error |-> None, index_error |-> None, lookup_error |-> None, object |-> 0,
             symbol |-> 0, value |-> 0]
NoCall  == [kind |-> "none"]
NoScope == [phase |-> "others", globals |-> <<>>, pending |-> <<>>, searched |-> <<>>,
            expanded |-> {}, object |-> 0]

Init ==
    /\ \E w \in Worlds :
         /\ objects = [i \in DOMAIN w.objects |->
                         [load_bias |-> w.objects[i].load_bias,
                          dynamic_segment |-> w.objects[i].dynamic_segment,
                          dependencies |-> w.objects[i].dependencies,
                          metadata |-> NoMetadata, strings |-> NoStrings, inspected |-> FALSE]]
         /\ mem = w.mem /\ later = w.later /\ offered = w.offered
    /\ stale = "nothing" /\ pc = "inspect" /\ call = NoCall
    /\ requirement = <<>> /\ walk = NoWalk /\ scope = NoScope
    /\ index = IndexFailure(None) /\ cursor = [symbol |-> 0, hops |-> 0]
    /\ result = NoResult

(***************************************************************************)
(* inspect_object.                                                         *)
(***************************************************************************)
Inspection(o) ==
    LET dynamic  == parse_elf32_dynamic(mem, o.dynamic_segment[1])
        built    == build_elf32_linker_metadata(mem, o.load_bias, dynamic.entries)
        strings  == build_elf32_linker_strings(mem, built.metadata, MaxStringBytes)
        error    == IF o.dynamic_segment = <<>> THEN <<None, None>>
                    ELSE IF dynamic.error # None THEN <<"DynamicParseFailed", dynamic.error>>
                    ELSE IF built.error # None THEN <<"LinkerMetadataFailed", built.error>>
                    ELSE IF strings.error # None THEN <<"LinkerStringFailed", strings.error>>
                    ELSE <<None, None>>
    IN  [error |-> error,
         object |-> IF o.dynamic_segment = <<>> THEN [o EXCEPT !.inspected = TRUE]
                    ELSE [o EXCEPT !.inspected = TRUE, !.metadata = built.metadata,
                                   !.strings = strings.strings]]

InspectObject ==
    /\ pc = "inspect"
    /\ LET i == Least({j \in DOMAIN objects : ~objects[j].inspected})
       IN  \E inspection \in {Inspection(objects[i])} :
           /\ objects' = [objects EXCEPT ![i] = inspection.object]
           /\ pc' = IF inspection.error[1] # None THEN "rejected"
                    ELSE IF i = Len(objects) THEN "idle" ELSE "inspect"
           /\ result' = [NoResult EXCEPT !.error = inspection.error[1],
                                         !.lookup_error = inspection.error[2]]
    /\ UNCHANGED <<mem, later, offered, stale, call, requirement, walk, scope, index, cursor>>

(***************************************************************************)
(* The guest stores into its tables, or the host program protects or       *)
(* unmaps their pages, between two calls.                                  *)
(***************************************************************************)
MemoryChanges ==
    /\ pc \in {"idle", "held"} /\ stale = "nothing"
    /\ mem' \in later
    /\ stale' = IF pc = "held" THEN "index" ELSE "metadata"
    /\ UNCHANGED <<objects, later, offered, pc, call, requirement, walk, scope, index, cursor,
                   result>>

(***************************************************************************)
(* How a call ends, or goes on to the next object of its scope.            *)
(***************************************************************************)
Returns(r) == pc' = "done" /\ result' = r

GraphFailure(error, object) == [NoResult EXCEPT !.error = error, !.object = object]

LookupFailure(error, object) ==
    [GraphFailure("ObjectLookupFailed", object) EXCEPT !.lookup_error = error]

\* lookup_elf32_symbol_impl ends without a definition.
ObjectEnds(error, object) ==
    IF call.kind = "object"
    THEN Returns([NoResult EXCEPT !.error = error, !.lookup_error = error, !.object = object])
    ELSE IF error = "SymbolNotFound" THEN pc' = "scope" /\ UNCHANGED result
    ELSE Returns(LookupFailure(error, object))

EntersChain(idx, object) ==
    \E first \in {FirstSymbol(mem, objects[object].metadata, idx, call.name, call.options)} :
        IF first.error # None
        THEN ObjectEnds(first.error, object) /\ UNCHANGED cursor
        ELSE /\ pc' = "walk" /\ cursor' = [symbol |-> first.symbol, hops |-> 0]
             /\ UNCHANGED result

(***************************************************************************)
(* "object": the index is built by one call and used by another.           *)
(***************************************************************************)
BeginObject(c) ==
    /\ pc = "idle" /\ c.kind = "object"
    /\ call' = c /\ pc' = "held"
    /\ index' = build_elf32_symbol_index(mem, objects[c.start].metadata, c.options)
    /\ scope' = [NoScope EXCEPT !.object = c.start]
    /\ UNCHANGED <<objects, mem, later, offered, stale, requirement, walk, cursor, result>>

ReadEntry ==
    /\ pc = "held"
    /\ LET error == read_elf32_symbol_entry(mem, objects[call.start].metadata, index, call.symbol)
       IN  result' = [NoResult EXCEPT !.error = error, !.lookup_error = error,
                                      !.object = call.start, !.symbol = call.symbol]
    /\ pc' = "read"
    /\ UNCHANGED <<inputs, requirement, walk, scope, index, cursor>>

LookupHeld ==
    /\ pc = "held"
    /\ EntersChain(index, call.start)
    /\ UNCHANGED <<inputs, requirement, walk, scope, index>>

(***************************************************************************)
(* "graph" and "reference": the checks before the scope is searched.       *)
(***************************************************************************)
EntersScope(c, globals, symbolic) ==
    LET wrong == {i \in DOMAIN globals : globals[i] \notin DOMAIN objects}
    IN  IF wrong # {}
        THEN /\ Returns(GraphFailure("InvalidGlobalScopeObject", globals[Least(wrong)]))
             /\ UNCHANGED scope
        ELSE /\ pc' = "scope" /\ UNCHANGED result
             /\ scope' = [NoScope EXCEPT !.phase = IF symbolic THEN "self" ELSE "others",
                                         !.globals = globals, !.pending = <<c.start>>]

GraphError(c) ==
    IF c.options.max_scope_objects = 0 THEN "InvalidOptions"
    ELSE IF c.start \notin DOMAIN objects THEN "InvalidGraphStart"
    ELSE None

BeginGraph(c) ==
    /\ pc = "idle" /\ c.kind = "graph"
    /\ call' = c
    /\ IF GraphError(c) # None
       THEN Returns(GraphFailure(GraphError(c), c.start)) /\ UNCHANGED scope
       ELSE EntersScope(c, <<>>, FALSE)
    /\ UNCHANGED <<objects, mem, later, offered, stale, requirement, walk, index, cursor>>

VersionFails(error, object) == Returns(LookupFailure(version_lookup_error(error), object))

BeginReference(c) ==
    /\ pc = "idle" /\ c.kind = "reference"
    /\ call' = c
    /\ LET md == objects[c.start].metadata
           begins == RequirementBegins(mem, md, c.symbol, c.options)
       IN  IF GraphError(c) # None
           THEN Returns(GraphFailure(GraphError(c), c.start)) /\ UNCHANGED <<walk, scope>>
           ELSE IF begins = "Unversioned"
           THEN /\ EntersScope(c, c.options.global_scope_objects, md.symbolic)
                /\ UNCHANGED walk
           ELSE IF begins # None
           THEN VersionFails(begins, c.start) /\ UNCHANGED <<walk, scope>>
           ELSE /\ pc' = "need" /\ walk' = WalkOf(md, "VERNEED")
                /\ UNCHANGED <<scope, result>>
    /\ UNCHANGED <<objects, mem, later, offered, stale, requirement, index, cursor>>

(***************************************************************************)
(* resolve_elf32_symbol_version_requirement: the VERNEED records, each     *)
(* with its auxiliary records, then the VERDEF records, on one budget.     *)
(***************************************************************************)
SourceIndex == read_versym(mem, objects[call.start].metadata, call.symbol).index

NeedGoesOn(step) ==
    \E w \in {step} :
        IF w.error # None THEN VersionFails(w.error, call.start) /\ UNCHANGED walk
        ELSE walk' = w /\ UNCHANGED <<pc, result>>

NeedRecord ==
    /\ pc = "need" /\ walk.aux_left = 0 /\ walk.left > 0
    /\ NeedGoesOn(NeedStep(mem, objects, call.start, walk, call.options))
    /\ UNCHANGED <<inputs, requirement, scope, index, cursor>>

NeedAux ==
    /\ pc = "need" /\ walk.aux_left > 0
    /\ NeedGoesOn(AuxStep(mem, objects[call.start].metadata, walk, SourceIndex, call.options))
    /\ UNCHANGED <<inputs, requirement, scope, index, cursor>>

\* Mutant: the definitions are walked on a budget of their own.
DefinitionsWalkAfresh(md, w) == [WalkOf(md, "VERDEF") EXCEPT !.found = w.found]

DefinitionsWalk(md, w) == [WalkOf(md, "VERDEF") EXCEPT !.found = w.found, !.used = w.used]

NeedEnds ==
    /\ pc = "need" /\ walk.aux_left = 0 /\ walk.left = 0
    /\ pc' = "def" /\ walk' = DefinitionsWalk(objects[call.start].metadata, walk)
    /\ UNCHANGED <<inputs, requirement, scope, index, cursor, result>>

DefRecord ==
    /\ pc = "def" /\ walk.left > 0
    /\ NeedGoesOn(DefStep(mem, objects[call.start].metadata, walk, [index |-> SourceIndex],
                          call.options))
    /\ UNCHANGED <<inputs, requirement, scope, index, cursor>>

RequirementEnds ==
    /\ pc = "def" /\ walk.left = 0
    /\ requirement' = [i \in DOMAIN walk.found |-> Restrict(walk.found[i], {"hash", "name"})]
    /\ IF walk.found = <<>>
       THEN VersionFails("VersionIndexNotFound", call.start) /\ UNCHANGED scope
       ELSE EntersScope(call, call.options.global_scope_objects,
                        objects[call.start].metadata.symbolic)
    /\ UNCHANGED <<inputs, walk, index, cursor>>

(***************************************************************************)
(* The scope: the requester if it is symbolic, the global scope, then the  *)
(* graph breadth first.  s is the scope once the object is searched.       *)
(***************************************************************************)
search_object(i, s) ==
    LET md == objects[i].metadata
    IN  IF i \in Range(s.searched)
        THEN scope' = [s EXCEPT !.object = i] /\ UNCHANGED <<pc, index, cursor, result>>
        ELSE IF Len(s.searched) >= call.options.max_scope_objects
        THEN Returns(GraphFailure("ScopeLimitExceeded", i)) /\ UNCHANGED <<scope, index, cursor>>
        ELSE /\ scope' = [s EXCEPT !.object = i, !.searched = Append(@, i)]
             /\ IF ~has_table(md, "SYMTAB") THEN UNCHANGED <<pc, index, cursor, result>>
                ELSE \E idx \in {build_elf32_symbol_index(mem, md, call.options)} :
                       IF idx.error # None
                       THEN /\ Returns([GraphFailure("IndexBuildFailed", i)
                                          EXCEPT !.index_error = idx.error])
                            /\ UNCHANGED <<index, cursor>>
                       ELSE index' = idx /\ EntersChain(idx, i)

SearchSelf ==
    /\ pc = "scope" /\ scope.phase = "self"
    /\ search_object(call.start, [scope EXCEPT !.phase = "others"])
    /\ UNCHANGED <<inputs, requirement, walk>>

SearchGlobal ==
    /\ pc = "scope" /\ scope.phase = "others" /\ scope.globals # <<>>
    /\ search_object(Head(scope.globals), [scope EXCEPT !.globals = Tail(@)])
    /\ UNCHANGED <<inputs, requirement, walk>>

SearchLocal ==
    /\ pc = "scope" /\ scope.phase = "others" /\ scope.globals = <<>> /\ scope.pending # <<>>
    /\ search_object(Head(scope.pending),
                     [scope EXCEPT !.phase = "expand", !.pending = Tail(@)])
    /\ UNCHANGED <<inputs, requirement, walk>>

\* Mutant: an object that an earlier pass searched is not expanded.
ExpandedOrSearched(i) == i \in scope.expanded \/ Last(scope.searched) # i

Expanded(i) == i \in scope.expanded

Expand ==
    /\ pc = "scope" /\ scope.phase = "expand"
    /\ LET i == scope.object
           edges == objects[i].dependencies
           unexpanded(j) == j \notin scope.expanded \cup {i}
       IN  IF Expanded(i)
           THEN scope' = [scope EXCEPT !.phase = "others"] /\ UNCHANGED <<pc, result>>
           ELSE IF \E k \in DOMAIN edges : edges[k] \notin DOMAIN objects
           THEN Returns(GraphFailure("InvalidGraphEdge", i)) /\ UNCHANGED scope
           ELSE /\ scope' = [scope EXCEPT !.phase = "others", !.expanded = @ \cup {i},
                                          !.pending = @ \o SelectSeq(edges, unexpanded)]
                /\ UNCHANGED <<pc, result>>
    /\ UNCHANGED <<inputs, requirement, walk, index, cursor>>

ScopeExhausted ==
    /\ pc = "scope" /\ scope.phase = "others"
    /\ scope.globals = <<>> /\ scope.pending = <<>>
    /\ Returns(GraphFailure("SymbolNotFound", 0))
    /\ UNCHANGED <<inputs, requirement, walk, scope, index, cursor>>

(***************************************************************************)
(* The walk of a chain, with the version match of its candidates.          *)
(***************************************************************************)
Searched == objects[scope.object]

Verdict(s) ==
    LET md == Searched.metadata
        candidate == Candidate(mem, md, index, s, call.name, call.options)
        match == MatchBegins(mem, md, s, requirement, call.options)
    IN  IF ~ChainReadable(mem, index, s) THEN "HashReadFailed"
        ELSE IF ~HashMatches(mem, index, s, call.name) THEN "Skip"
        ELSE IF candidate # None THEN candidate
        ELSE IF match = "Differs" THEN "Skip"
        ELSE version_lookup_error(match)

\* The code's hops never pass symbol_count.
Advances ==
    \E next \in {NextSymbol(mem, index, cursor.symbol, cursor.hops + 1)} :
        IF next.error # None
        THEN ObjectEnds(next.error, scope.object) /\ UNCHANGED cursor
        ELSE /\ pc' = "walk" /\ UNCHANGED result
             /\ cursor' = [symbol |-> next.symbol,
                           hops |-> IF cursor.hops < index.symbol_count
                                    THEN cursor.hops + 1 ELSE cursor.hops]

Binds ==
    LET md == Searched.metadata
        s  == cursor.symbol
    IN  IF ValueOverflows(mem, md, Searched.load_bias, s)
        THEN ObjectEnds("ValueOverflow", scope.object)
        ELSE Returns([NoResult EXCEPT !.object = scope.object, !.symbol = s,
                                      !.value = GuestValue(mem, md, Searched.load_bias, s)])

CandidateSkipped ==
    /\ pc = "walk" /\ Verdict(cursor.symbol) = "Skip"
    /\ Advances
    /\ UNCHANGED <<inputs, requirement, walk, scope, index>>

CandidateBinds ==
    /\ pc = "walk" /\ Verdict(cursor.symbol) = "Matches"
    /\ Binds
    /\ UNCHANGED <<inputs, requirement, walk, scope, index, cursor>>

CandidateFails ==
    /\ pc = "walk" /\ Verdict(cursor.symbol) \notin {"Skip", "Matches", None}
    /\ ObjectEnds(Verdict(cursor.symbol), scope.object)
    /\ UNCHANGED <<inputs, requirement, walk, scope, index, cursor>>

\* match_elf32_symbol_version looks for the index of the required version.
MatchBegun ==
    /\ pc = "walk" /\ Verdict(cursor.symbol) = None
    /\ pc' = "match" /\ walk' = WalkOf(Searched.metadata, "VERDEF")
    /\ UNCHANGED <<inputs, requirement, scope, index, cursor, result>>

MatchRecord ==
    /\ pc = "match" /\ walk.left > 0
    /\ \E w \in {DefStep(mem, Searched.metadata, walk, requirement[1], call.options)} :
          IF w.error # None
          THEN /\ ObjectEnds(version_lookup_error(w.error), scope.object)
               /\ UNCHANGED walk
          ELSE walk' = w /\ UNCHANGED <<pc, result>>
    /\ UNCHANGED <<inputs, requirement, scope, index, cursor>>

MatchEnds ==
    /\ pc = "match" /\ walk.left = 0
    /\ LET expected == IF walk.found = <<>> THEN kVersionGlobal ELSE walk.found[1].index
       IN  IF read_versym(mem, Searched.metadata, cursor.symbol).index = expected
           THEN Binds /\ UNCHANGED cursor
           ELSE Advances
    /\ UNCHANGED <<inputs, requirement, walk, scope, index>>

Step ==
    \/ InspectObject
    \/ NeedRecord \/ NeedAux \/ NeedEnds \/ DefRecord \/ RequirementEnds
    \/ SearchSelf \/ SearchGlobal \/ SearchLocal \/ Expand \/ ScopeExhausted
    \/ CandidateSkipped \/ CandidateBinds \/ CandidateFails
    \/ MatchBegun \/ MatchRecord \/ MatchEnds

\* The caller has its answer.
Answered == pc \in {"done", "read", "rejected"} /\ UNCHANGED vars

Next ==
    \/ Step
    \/ \E c \in offered : BeginObject(c) \/ BeginGraph(c) \/ BeginReference(c)
    \/ LookupHeld \/ ReadEntry \/ MemoryChanges \/ Answered

Resting == {"idle", "held", "read", "done", "rejected"}

\* A call that has begun goes on, on the caller's thread, until it rests; whether
\* the caller calls, and whether memory changes, is open.  This is weak fairness
\* of Step, which is enabled in every state that does not rest: none deadlocks.
Fairness == <>[](pc \notin Resting) => []<><<TRUE>>_vars

Spec == Init /\ [][Next]_vars /\ Fairness

(***************************************************************************)
(* What a graph of objects says, stated without walks: the version records *)
(* as sequences, the definitions of a name as sets, the scope as a         *)
(* sequence.                                                               *)
(***************************************************************************)
\* The addresses of n records linked by their next fields.
Linked(view, zero, start, n) ==
    LET at[k \in 1 .. n] ==
            IF k = 1 THEN start ELSE at[k - 1] + Decoded(view, at[k - 1], zero).next
    IN  at

\* Every link but the last's is set, and every record is in readable memory.
LinkedWell(view, zero, at, size) ==
    \A k \in DOMAIN at :
        /\ CanRead(mem, at[k], size)
        /\ k + 1 \in DOMAIN at => Decoded(view, at[k], zero).next # 0

Defs(md) ==
    IF has_table(md, "VERDEF")
    THEN Linked(mem.verdef, ZeroDef, md.tables["VERDEF"].guest_address,
                md.tables["VERDEF"].size)
    ELSE <<>>
Def(md, k) == Decoded(mem.verdef, Defs(md)[k], ZeroDef)
NamedDefs(md) == {k \in DOMAIN Defs(md) : ~Def(md, k).base}
DefName(md, k, options) ==
    name_at(mem, md, Decoded(mem.verdaux, Defs(md)[k] + Def(md, k).aux, ZeroDaux).name, options)

DefsSound(md, options) ==
    /\ LinkedWell(mem.verdef, ZeroDef, Defs(md), VerdefSize)
    /\ \A k \in DOMAIN Defs(md) : Def(md, k).version = 1
    /\ \A k \in NamedDefs(md) :
         /\ Def(md, k).aux_count # 0 /\ Def(md, k).aux # 0
         /\ CanRead(mem, Defs(md)[k] + Def(md, k).aux, VerdauxSize)
         /\ DefName(md, k, options).error = None

DefRecords(md) == Len(Defs(md)) + Cardinality(NamedDefs(md))

Needs(md) ==
    IF has_table(md, "VERNEED")
    THEN Linked(mem.verneed, ZeroNeed, md.tables["VERNEED"].guest_address,
                md.tables["VERNEED"].size)
    ELSE <<>>
Need(md, k) == Decoded(mem.verneed, Needs(md)[k], ZeroNeed)
Auxes(md, k) ==
    Linked(mem.vernaux, ZeroAux, Needs(md)[k] + Need(md, k).aux, Need(md, k).aux_count)
Aux(md, k, j) == Decoded(mem.vernaux, Auxes(md, k)[j], ZeroAux)
AuxName(md, k, j, options) == name_at(mem, md, Aux(md, k, j).name, options)

NeedsSound(i, options) ==
    LET md == objects[i].metadata
    IN  /\ LinkedWell(mem.verneed, ZeroNeed, Needs(md), VerneedSize)
        /\ \A k \in DOMAIN Needs(md) :
             LET file == name_at(mem, md, Need(md, k).file, options)
             IN  /\ Need(md, k).version = 1 /\ Need(md, k).aux_count # 0 /\ Need(md, k).aux # 0
                 /\ file.error = None
                 /\ dependency_for_soname(objects, i, file.value) = None
                 /\ LinkedWell(mem.vernaux, ZeroAux, Auxes(md, k), VernauxSize)
                 /\ \A j \in DOMAIN Auxes(md, k) : AuxName(md, k, j, options).error = None

NeedRecords(md) ==
    Len(Needs(md)) + MapThenSumSet(LAMBDA k : Need(md, k).aux_count, DOMAIN Needs(md))

\* The version that index v of object i stands for: a definition's rather than
\* a requirement's, and the last of several.
VersionOf(i, v, options) ==
    LET md == objects[i].metadata
        defs == {k \in NamedDefs(md) : Def(md, k).index = v}
        needs == {n \in UNION {{k} \X DOMAIN Auxes(md, k) : k \in DOMAIN Needs(md)} :
                     Aux(md, n[1], n[2]).index = v}
        last == CHOOSE n \in needs :
                    \A o \in needs : o[1] < n[1] \/ (o[1] = n[1] /\ o[2] <= n[2])
    IN  IF defs # {}
        THEN LET k == Max(defs)
             IN  <<[hash |-> Def(md, k).hash, name |-> DefName(md, k, options).value]>>
        ELSE IF needs # {}
        THEN <<[hash |-> Aux(md, last[1], last[2]).hash,
                name |-> AuxName(md, last[1], last[2], options).value]>>
        ELSE <<>>

\* Symbol s of an object with metadata md has the version.
HasVersion(md, s, required, options) ==
    LET versym == read_versym(mem, md, s)
        defs == {k \in NamedDefs(md) : /\ Def(md, k).hash = required[1].hash
                                       /\ DefName(md, k, options).value = required[1].name}
    IN  \/ ~has_table(md, "VERSYM")
        \/ required = <<>> /\ ~versym.hidden
        \/ required # <<>> /\ versym.index = IF defs = {} THEN kVersionGlobal
                                             ELSE Def(md, Max(defs)).index

(***************************************************************************)
(* The definitions of the name in object i, and the first of them in the   *)
(* order of its table.                                                     *)
(***************************************************************************)
IndexOf(i) == build_elf32_symbol_index(mem, objects[i].metadata, call.options)

CandidateOf(i, idx, s) ==
    Candidate(mem, objects[i].metadata, idx, s, call.name, call.options)

Definitions(i, idx) ==
    {s \in 1 .. idx.symbol_count - 1 :
        /\ CandidateOf(i, idx, s) = None
        /\ HasVersion(objects[i].metadata, s, requirement, call.options)}

\* The SysV chain of the name, 0 after its end.
SysvChain(idx) ==
    LET chain[k \in 1 .. idx.symbol_count + 1] ==
            IF k = 1
            THEN Indexed(mem, idx.sysv[1].buckets,
                         sysv_hash(call.name) % idx.sysv[1].bucket_count)
            ELSE IF chain[k - 1] = 0 THEN 0
            ELSE Indexed(mem, idx.sysv[1].chains, chain[k - 1])
    IN  chain

Cyclic(idx) == 0 \notin Range(SysvChain(idx))

\* The table leads to every definition of the name it should lead to, and no
\* symbol on the way is one the lookup refuses.
WellHashed(i, idx) ==
    LET g    == idx.gnu[1]
        b    == Indexed(mem, g.buckets, gnu_hash(call.name) % g.bucket_count)
        defs == Definitions(i, idx)
    IN  /\ \A s \in 1 .. idx.symbol_count - 1 : CandidateOf(i, idx, s) \in {None, "Skip"}
        /\ IF UsesGnu(idx)
           THEN /\ \A s \in g.symbol_offset .. idx.symbol_count - 1 :
                     CanReadIndexed(mem, g.chains, s - g.symbol_offset)
                /\ \A d \in defs :
                     /\ BloomPasses(mem, g, gnu_hash(call.name))
                     /\ HashMatches(mem, idx, d, call.name)
                     /\ b # 0 /\ b <= d /\ \A s \in b .. d - 1 : ~EndsChain(mem, g, s)
           ELSE ~Cyclic(idx) /\ defs \subseteq Range(SysvChain(idx))

First(idx, defs) ==
    LET chain == SysvChain(idx)
    IN  IF UsesGnu(idx) THEN Min(defs) ELSE chain[Min({k \in DOMAIN chain : chain[k] \in defs})]

\* The answer of searching object i: SymbolNotFound when the search goes on.
Outcome(i) ==
    LET o     == objects[i]
        idx   == IndexOf(i)
        defs  == Definitions(i, idx)
        first == First(idx, defs)
    IN  IF ~has_table(o.metadata, "SYMTAB") THEN GraphFailure("SymbolNotFound", i)
        ELSE IF idx.error # None
        THEN [GraphFailure("IndexBuildFailed", i) EXCEPT !.index_error = idx.error]
        ELSE IF defs = {} THEN GraphFailure("SymbolNotFound", i)
        ELSE IF ValueOverflows(mem, o.metadata, o.load_bias, first)
        THEN LookupFailure("ValueOverflow", i)
        ELSE [NoResult EXCEPT !.object = i, !.symbol = first,
                              !.value = GuestValue(mem, o.metadata, o.load_bias, first)]

(***************************************************************************)
(* The scope in order: breadth first is the closure of the start, a level  *)
(* at a time, without repetitions.  An edge to no object ends it.          *)
(***************************************************************************)
Distinct(seq) ==
    FoldLeft(LAMBDA done, x : IF x \in Range(done) THEN done ELSE Append(done, x), <<>>, seq)

IsObject(j) == j \in DOMAIN objects
Broken(i) == \E k \in DOMAIN objects[i].dependencies : ~IsObject(objects[i].dependencies[k])

BreadthFirst(start) ==
    LET targets(seq) == FlattenSeq([k \in DOMAIN seq |->
                            SelectSeq(objects[seq[k]].dependencies, IsObject)])
        levels[n \in 0 .. Len(objects)] ==
            IF n = 0 THEN <<start>> ELSE Distinct(levels[n - 1] \o targets(levels[n - 1]))
        all == levels[Len(objects)]
        broken == {k \in DOMAIN all : Broken(all[k])}
    IN  IF broken = {} THEN all ELSE SubSeq(all, 1, Min(broken))

ScopeOf(c) ==
    IF c.kind = "graph" THEN BreadthFirst(c.start)
    ELSE Distinct((IF objects[c.start].metadata.symbolic THEN <<c.start>> ELSE <<>>)
                    \o c.options.global_scope_objects \o BreadthFirst(c.start))

Answer(c) ==
    LET all  == ScopeOf(c)
        max  == c.options.max_scope_objects
        last == Last(BreadthFirst(c.start))
        outcomes == [k \in DOMAIN all |-> Outcome(all[k])]
        hits == {k \in DOMAIN all : outcomes[k].error # "SymbolNotFound"}
    IN  IF hits # {} /\ Min(hits) <= max THEN outcomes[Min(hits)]
        ELSE IF Len(all) > max THEN GraphFailure("ScopeLimitExceeded", all[max + 1])
        ELSE IF Broken(last) THEN GraphFailure("InvalidGraphEdge", last)
        ELSE GraphFailure("SymbolNotFound", 0)

(***************************************************************************)
(* Properties.                                                             *)
(***************************************************************************)
Refused == pc = "done" /\ result.error = "ObjectLookupFailed" /\ scope.searched = <<>>

\* The call reached the scope, no hash table hides a definition and no version
\* record is wrong, so that the answer depends on the objects alone.
Answerable ==
    /\ pc = "done" /\ call.kind \in {"graph", "reference"}
    /\ GraphError(call) = None /\ ~Refused /\ result.error # "InvalidGlobalScopeObject"
    /\ call.name # <<>> /\ call.options.max_name_bytes # 0
    /\ \A i \in Range(ScopeOf(call)) :
         LET md  == objects[i].metadata
             idx == IndexOf(i)
         IN  has_table(md, "SYMTAB") /\ idx.error = None =>
                /\ has_table(md, "VERSYM") =>
                     /\ CanRead(mem, VersymAddress(md, 0), idx.symbol_count * VersymSize)
                     /\ requirement # <<>> =>
                          /\ DefsSound(md, call.options)
                          /\ DefRecords(md) <= call.options.max_version_records
                /\ WellHashed(i, idx)

\* A lookup binds to the first definition of the name in the first object of its
\* scope that has one: the requester first when it is symbolic, then the global
\* scope in order, then the graph breadth first, every object once.  At most
\* max_scope_objects are searched, an object is expanded even if an earlier pass
\* searched it, and a graph with an edge to no object is refused only when the
\* search gets there (lookup_elf32_graph_symbol_impl).
BindsFirstInScope == Answerable => result = Answer(call)

\* An index that was built makes the walk safe: whatever memory holds by then,
\* the symbol looked at is one of the table, and if memory is what it was, every
\* index read is in range and every symbol readable, a GNU chain ends, a SysV
\* chain that does not is reported, and no miss hides a cycle.  Only with a GNU
\* table alone, of which the words before the largest bucket's chain were not
\* read, can a chain word be unreadable (build_elf32_symbol_index and
\* lookup_elf32_symbol_impl).
IndexKeepsWalkInTable ==
    LET g == index.gnu[1]
    IN  /\ pc \in {"walk", "match"} => cursor.symbol \in 1 .. index.symbol_count - 1
        /\ pc \in {"done", "read"} /\ index.symbol_count > 0 /\ stale # "index" =>
             /\ result.lookup_error \notin {"HashIndexOutOfRange", "SymbolReadFailed"}
             /\ result.lookup_error = "InvalidHashChain" => ~UsesGnu(index) /\ Cyclic(index)
             /\ result.error = "SymbolNotFound" /\ call.kind = "object" /\ ~UsesGnu(index)
                  => ~Cyclic(index)
             /\ result.lookup_error = "HashReadFailed" =>
                  /\ UsesGnu(index) /\ index.sysv = <<>>
                  /\ \E s \in g.symbol_offset .. Max(GnuBuckets(mem, g)) :
                       ~CanReadIndexed(mem, g.chains, s - g.symbol_offset)

\* A reference is bound under the version its index stands for: its own object's
\* definition before a requirement, the last record before earlier ones.  The
\* call is refused exactly when a record of either table is broken, there are
\* more records than max_version_records, or none has the index; and the bound
\* symbol has the version as its own object defines it, or, where nothing was
\* required, is not hidden (resolve_elf32_symbol_version_requirement and
\* match_elf32_symbol_version).
BoundVersionIsRequested ==
    LET md == objects[call.start].metadata
        options == call.options
        asks == /\ call.kind = "reference" /\ GraphError(call) = None
                /\ has_table(md, "VERSYM")
                /\ CanRead(mem, VersymAddress(md, call.symbol), VersymSize)
                /\ SourceIndex > kVersionGlobal
        sound == /\ options.max_version_records # 0 /\ options.max_name_bytes # 0
                 /\ has_table(md, "STRTAB")
                 /\ NeedsSound(call.start, options) /\ DefsSound(md, options)
                 /\ NeedRecords(md) + DefRecords(md) <= options.max_version_records
    IN  pc = "done" =>
          /\ asks => /\ Refused <=> ~sound \/ VersionOf(call.start, SourceIndex, options) = <<>>
                     /\ ~Refused =>
                          requirement = VersionOf(call.start, SourceIndex, options)
          /\ result.error = None =>
               HasVersion(objects[result.object].metadata, result.symbol, requirement, options)

\* What inspection accepted is there: reading the SONAME and the needed names
\* fails only for a name that is too long or does not end, every entry of the
\* function arrays and relocation tables can be read, and the hash headers can,
\* as long as memory keeps its contents (build_elf32_linker_metadata).
AcceptedMetadataIsReadable ==
    stale = "nothing" =>
        /\ result.error = "LinkerStringFailed" =>
             result.lookup_error \in {"StringTooLong", "UnterminatedString"}
        /\ index.error # "HashHeaderReadFailed" /\ result.index_error # "HashHeaderReadFailed"
        /\ \A i \in DOMAIN objects :
             LET tables == objects[i].metadata.tables
                 entry(t) == IF t \in {"REL", "JMPREL"} THEN RelSize ELSE WordSize
             IN  \A t \in DOMAIN tables \cap {"INIT_ARRAY", "FINI_ARRAY", "REL", "JMPREL"} :
                    /\ tables[t].size % entry(t) = 0
                    /\ \A k \in 0 .. (tables[t].size \div entry(t)) - 1 :
                         CanRead(mem, tables[t].guest_address + k * entry(t), entry(t))

\* Every call ends, whatever the hash chains, the version records and the edges
\* of the graph form: a SysV cycle runs out of hops, records are linked forward
\* and counted, an object is expanded once.
LookupReturns == (pc \notin Resting) ~> (pc \in Resting)

=============================================================================
