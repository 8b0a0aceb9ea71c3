------------------------ MODULE Elf32SymbolVersions ------------------------
(***************************************************************************)
(* Symbol versions (elf/linking/elf32_symbol_versioning.cpp).  A reference *)
(* may ask for a version by an index of its object's DT_VERSYM, which      *)
(* VERNEED and VERDEF records translate to a hash and a name; a candidate  *)
(* has an index as well, which its own object's VERDEF records name.  The  *)
(* records form chains of offsets in guest memory.                         *)
(*                                                                         *)
(* A walk w is at a record, with the records left, the auxiliary record    *)
(* and how many are left of those, the offset of the next record, and the  *)
(* records used of its budget.  Each step operator gives the walk after    *)
(* one record, or an error.                                                *)
(***************************************************************************)
EXTENDS Elf32LinkerMetadata

kVersionGlobal == 1

ZeroNeed == [version |-> 0, aux_count |-> 0, file |-> 0, aux |-> 0, next |-> 0]
ZeroAux  == [hash |-> 0, index |-> 0, name |-> 0, next |-> 0]
ZeroDef  == [version |-> 0, base |-> FALSE, index |-> 0, aux_count |-> 0, hash |-> 0,
             aux |-> 0, next |-> 0]
ZeroDaux == [name |-> 0]
ZeroVersym == [index |-> 0, hidden |-> FALSE]

VersymAddress(md, s) == md.tables["VERSYM"].guest_address + s * VersymSize
read_versym(m, md, s) == Decoded(m.versym, VersymAddress(md, s), ZeroVersym)

has_any_version_descriptor(md) ==
    \E t \in {"VERSYM", "VERDEF", "VERNEED"} : has_table(md, t)

NoWalk == [at |-> 0, left |-> 0, aux |-> 0, aux_left |-> 0, next |-> 0, used |-> 0,
           error |-> None, found |-> <<>>]

WalkOf(md, table) ==
    IF has_table(md, table)
    THEN [NoWalk EXCEPT !.at = md.tables[table].guest_address, !.left = md.tables[table].size]
    ELSE NoWalk

WalkOptionsError(md, options) ==
    IF options.max_version_records = 0 \/ options.max_name_bytes = 0 THEN "InvalidOptions"
    ELSE IF ~has_table(md, "STRTAB") THEN "InvalidMetadata"
    ELSE None

\* Before the walk of a requirement: an error, "Unversioned", or None.
RequirementBegins(m, md, s, options) ==
    IF md.has_symbol_versioning /\ ~has_any_version_descriptor(md) THEN "InvalidMetadata"
    ELSE IF ~has_table(md, "VERSYM") THEN "Unversioned"
    ELSE IF ~CanRead(m, VersymAddress(md, s), VersymSize) THEN "ReadFailed"
    ELSE IF read_versym(m, md, s).index <= kVersionGlobal THEN "Unversioned"
    ELSE WalkOptionsError(md, options)

\* Before the walk of a match: an error, "Matches", "Differs", or None.
MatchBegins(m, md, s, requirement, options) ==
    IF md.has_symbol_versioning /\ ~has_any_version_descriptor(md) THEN "InvalidMetadata"
    ELSE IF ~has_table(md, "VERSYM") THEN "Matches"
    ELSE IF ~CanRead(m, VersymAddress(md, s), VersymSize) THEN "ReadFailed"
    ELSE IF requirement = <<>>
         THEN IF read_versym(m, md, s).hidden THEN "Differs" ELSE "Matches"
    ELSE IF has_table(md, "VERDEF") THEN WalkOptionsError(md, options)
    ELSE None

(***************************************************************************)
(* The steps.                                                              *)
(***************************************************************************)
name_at(m, md, offset, options) ==
    read_elf32_string_table_entry(m, md.tables["STRTAB"], offset, options.max_name_bytes)

\* The first edge that is broken or leads to an object of that SONAME.
dependency_for_soname(objects, requester, soname) ==
    LET edges == objects[requester].dependencies
        hits  == {i \in DOMAIN edges : \/ edges[i] \notin DOMAIN objects
                                       \/ objects[edges[i]].strings.soname = <<soname>>}
    IN  IF hits = {} THEN "DependencyNotFound"
        ELSE IF edges[Least(hits)] \notin DOMAIN objects THEN "InvalidMetadata"
        ELSE None

\* A link that is followed has to be set and stay in the address space.
BadLink(address, offset) == offset = 0 \/ ~checked_add_guest_address(address, offset)

\* What a VERNAUX or VERDEF record says of a version.
Version(record, name) ==
    [index |-> record.index, hash |-> record.hash, name |-> name.value]

NeedStep(m, objects, requester, w, options) ==
    LET md     == objects[requester].metadata
        record == Decoded(m.verneed, w.at, ZeroNeed)
        file   == name_at(m, md, record.file, options)
        target == dependency_for_soname(objects, requester, file.value)
        error  == IF w.used >= options.max_version_records THEN "RecordLimitExceeded"
                  ELSE IF ~CanRead(m, w.at, VerneedSize) THEN "ReadFailed"
                  ELSE IF record.version # 1 \/ record.aux_count = 0 \/ record.aux = 0
                       THEN "InvalidRecord"
                  ELSE IF file.error # None THEN "StringReadFailed"
                  ELSE IF target # None THEN target
                  ELSE IF ~checked_add_guest_address(w.at, record.aux) THEN "InvalidRecord"
                  ELSE None
    IN  [w EXCEPT !.error = error, !.used = @ + 1, !.aux = w.at + record.aux,
                  !.aux_left = record.aux_count, !.next = record.next]

\* One VERNAUX record, and the link to the next VERNEED after the last.
AuxStep(m, md, w, source_index, options) ==
    LET record == Decoded(m.vernaux, w.aux, ZeroAux)
        name   == name_at(m, md, record.name, options)
        last   == w.aux_left = 1
        error  == IF w.used >= options.max_version_records THEN "RecordLimitExceeded"
                  ELSE IF ~CanRead(m, w.aux, VernauxSize) THEN "ReadFailed"
                  ELSE IF name.error # None THEN "StringReadFailed"
                  ELSE IF ~last /\ BadLink(w.aux, record.next) THEN "InvalidRecord"
                  ELSE IF last /\ w.left > 1 /\ BadLink(w.at, w.next) THEN "InvalidRecord"
                  ELSE None
    IN  [w EXCEPT !.error = error, !.used = @ + 1, !.aux_left = @ - 1,
                  !.aux  = @ + record.next,
                  !.left = IF last THEN @ - 1 ELSE @,
                  !.at   = IF last THEN @ + w.next ELSE @,
                  !.found = IF record.index = source_index
                            THEN <<Version(record, name)>> ELSE @]

\* One VERDEF record with its first name.  found is the last version that has
\* the fields of wanted; the record that names the file is passed over.
DefStep(m, md, w, wanted, options) ==
    LET record == Decoded(m.verdef, w.at, ZeroDef)
        daux   == Decoded(m.verdaux, w.at + record.aux, ZeroDaux)
        name   == name_at(m, md, daux.name, options)
        isWanted == \A f \in DOMAIN wanted : Version(record, name)[f] = wanted[f]
        named  == IF record.base THEN None
                  ELSE IF record.aux_count = 0 \/ record.aux = 0 THEN "InvalidRecord"
                  ELSE IF w.used + 1 >= options.max_version_records
                       THEN "RecordLimitExceeded"
                  ELSE IF ~checked_add_guest_address(w.at, record.aux) THEN "InvalidRecord"
                  ELSE IF ~CanRead(m, w.at + record.aux, VerdauxSize) THEN "ReadFailed"
                  ELSE IF name.error # None THEN "StringReadFailed"
                  ELSE None
        error  == IF w.used >= options.max_version_records THEN "RecordLimitExceeded"
                  ELSE IF ~CanRead(m, w.at, VerdefSize) THEN "ReadFailed"
                  ELSE IF record.version # 1 THEN "InvalidRecord"
                  ELSE IF named # None THEN named
                  ELSE IF w.left > 1 /\ BadLink(w.at, record.next) THEN "InvalidRecord"
                  ELSE None
    IN  [w EXCEPT !.error = error, !.used = @ + (IF record.base THEN 1 ELSE 2),
                  !.left = @ - 1, !.at = @ + record.next,
                  !.found = IF ~record.base /\ isWanted THEN <<Version(record, name)>> ELSE @]

\* version_lookup_error
version_lookup_error(error) ==
    CASE error = "ReadFailed" -> "VersionReadFailed"
      [] error = "RecordLimitExceeded" -> "VersionRecordLimitExceeded"
      [] error = "DependencyNotFound" -> "VersionDependencyNotFound"
      [] error \in {"InvalidMetadata", "InvalidRecord"} -> "InvalidVersionMetadata"
      [] OTHER -> error

=============================================================================
