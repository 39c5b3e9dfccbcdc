--------------------------------- MODULE Paths ---------------------------------
(***************************************************************************)
(* Which paths a search covers: the path index of a snapshot with its      *)
(* stable file ids, the path and type filter the library applies to ids,   *)
(* and the scope the command line applies to paths.                        *)
(*                                                                         *)
(* A path is the sequence of its names.  What a name is made of is given   *)
(* by constants: its stem, its extension, which names it ends or begins    *)
(* with as bytes.  A glob is the set of paths it matches, of one name when *)
(* it looks at file names only.                                            *)
(***************************************************************************)
EXTENDS Naturals, Sequences, FiniteSets, SequencesExt, FiniteSetsExt

CONSTANTS Stem,      \* [name -> what is left of its last dot, or the name]
          Ext,       \* [name -> its extension in lower case, or NoExt]
          Tails,     \* pairs <<n, t>>: name n ends with t
          Heads,     \* pairs <<n, h>>: name n begins with h
          NoExt, Here, Up   \* no extension, "." and ".."

-------------------------------------------------------------------------------
(* path/filter.rs *)

HasExtension(p, e) == e # NoExt /\ Ext[Last(p)] = e
HasComponent(p, name) == \E i \in DOMAIN p : name \in {p[i], Stem[p[i]]}

\* A filter is the text of a path argument: a directory ends with a slash and is found
\* behind any slash, a file of several names is found anywhere, one name is a component.
FilterFits(p, f) ==
    LET n == Len(f.rel) IN
    CASE f.dir -> \E k \in 0 .. Len(p) : k + n < Len(p) /\ SubSeq(p, k + 1, k + n) = f.rel
      [] ~f.dir /\ n = 1 -> HasComponent(p, f.rel[1])
      [] OTHER -> \E k \in 0 .. Len(p) :
                     /\ k + n <= Len(p)
                     /\ <<p[k + 1], f.rel[1]>> \in Tails
                     /\ <<p[k + n], f.rel[n]>> \in Heads
                     /\ \A i \in 2 .. n - 1 : p[k + i] = f.rel[i]

MatchesPathFilter(p, types, nots, filter) ==
    /\ types = {} \/ \E e \in types : HasExtension(p, e)
    /\ \A e \in nots : ~HasExtension(p, e)
    /\ \A f \in filter : FilterFits(p, f)

-------------------------------------------------------------------------------
(* path/mod.rs: PathIndex.  A removed path leaves its slot empty, so that ids are stable. *)

Gone == <<>>
WithMetadata(exts, p, id) == IF Ext[Last(p)] = NoExt THEN exts ELSE exts \cup {<<Ext[Last(p)], id>>}
Build(paths) ==
    [slots |-> paths,
     ids |-> [p \in Range(paths) |-> CHOOSE i \in DOMAIN paths : paths[i] = p],
     exts |-> FoldLeftDomain(LAMBDA acc, i : WithMetadata(acc, paths[i], i), {}, paths)]

Removed(ix, p) ==
    IF p \notin DOMAIN ix.ids THEN ix
    ELSE [slots |-> [ix.slots EXCEPT ![ix.ids[p]] = Gone],
          ids |-> [q \in DOMAIN ix.ids \ {p} |-> ix.ids[q]],
          exts |-> ix.exts \ {<<Ext[Last(p)], ix.ids[p]>>}]
Added(ix, p) ==
    IF p \in DOMAIN ix.ids THEN ix
    ELSE LET id == Len(ix.slots) + 1 IN
         [slots |-> Append(ix.slots, p),
          ids |-> [q \in DOMAIN ix.ids \cup {p} |-> IF q = p THEN id ELSE ix.ids[q]],
          exts |-> WithMetadata(ix.exts, p, id)]
\* The added paths come in the order of a hash set.
BuildIncremental(old, removed, added) ==
    FoldSet(LAMBDA p, ix : Added(ix, p),
            FoldSet(LAMBDA p, ix : Removed(ix, p), old, removed), added)

Visible(ix) == {i \in DOMAIN ix.slots : ix.slots[i] # Gone}
FilesWithExtension(ix, e) == {i \in DOMAIN ix.slots : <<e, i>> \in ix.exts}

\* build_filter: the ids that pass; nothing is asked when there is nothing to filter.
BuildFilter(ix, types, nots, filter) ==
    LET inc == IF types = {} THEN Visible(ix) ELSE UNION {FilesWithExtension(ix, e) : e \in types}
        fit == {i \in Visible(ix) : \A f \in filter : FilterFits(ix.slots[i], f)}
    IN  (inc \cap fit) \ UNION {FilesWithExtension(ix, e) : e \in nots}

-------------------------------------------------------------------------------
(* cli/scope: path arguments and what they cover *)

\* A relative argument is taken from the working directory when that is in the repository,
\* and from the root otherwise; what climbs out of the root stays and matches nothing.
Normalized(p) ==
    FoldLeft(LAMBDA acc, c : IF c = Here THEN acc
                             ELSE IF c = Up /\ acc # <<>> /\ Last(acc) # Up THEN Front(acc)
                             ELSE Append(acc, c), <<>>, p)
Relativized(cwd, arg) == Normalized(cwd \o arg)

StartsWith(p, dir) == Len(dir) <= Len(p) /\ SubSeq(p, 1, Len(dir)) = dir
IsDirectory(disk, rel) == \E p \in disk : StartsWith(p, rel) /\ p # rel
Exists(disk, rel) == rel \in disk \/ IsDirectory(disk, rel)

\* explicit_path_specs: the root asks for everything and is dropped.
PathSpecs(disk, cwd, args) ==
    SelectSeq([i \in DOMAIN args |->
                  LET rel == Relativized(cwd, args[i]) IN [rel |-> rel, dir |-> IsDirectory(disk, rel)]],
              LAMBDA spec : spec.rel # <<>>)
SpecFits(p, spec) == IF spec.dir THEN StartsWith(p, spec.rel) ELSE p = spec.rel
MatchesAnySpec(p, specs) == specs = <<>> \/ \E s \in Range(specs) : SpecFits(p, s)

\* matches_optional_glob: the last glob that fits decides.
GlobFits(g, p) == IF g.base THEN <<Last(p)>> \in g.set ELSE p \in g.set
FirstGlobMutant(p, globs) ==
    LET fitting == {i \in DOMAIN globs : GlobFits(globs[i], p)} IN
    IF fitting = {} THEN \A g \in Range(globs) : g.exclude ELSE ~globs[Min(fitting)].exclude
GlobsAllow(p, globs) ==
    LET fitting == {i \in DOMAIN globs : GlobFits(globs[i], p)} IN
    IF fitting = {} THEN \A g \in Range(globs) : g.exclude ELSE ~globs[Max(fitting)].exclude
MatchesOptionalGlob(p, types, nots, globs) ==
    MatchesPathFilter(p, types, nots, {}) /\ GlobsAllow(p, globs)

\* --max-depth counts from the deepest argument above a path.
PathDepth(p) == Len(p) - 1
SpecDepth(p, specs) == Max({0} \cup {Len(s.rel) : s \in {t \in Range(specs) : StartsWith(p, t.rel)}})
WithinDepth(p, specs, depth) ==
    \A n \in depth : PathDepth(p) <= n + SpecDepth(p, specs)

===============================================================================
