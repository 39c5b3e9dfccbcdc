------------------------------- MODULE SegmentFile -------------------------------
(***************************************************************************)
(* The two files of a segment: a .dict with the document table and the     *)
(* dictionary of grams, and a .post with the posting lists; how they are   *)
(* written, what each check of an open looks at, and how documents and     *)
(* lists are read from them.                                               *)
(*                                                                         *)
(* A file is a sequence of cells, one for each field of the format and one *)
(* for each piece of a path.  The files are written without fsync: a power *)
(* loss leaves blocks of them zero, or cuts them short.                    *)
(***************************************************************************)
EXTENDS Naturals, Sequences, FiniteSets, SequencesExt

CONSTANTS Path,
          PathBytes, \* the cells of a path, none of them zero
          GramsOf,   \* the grams of a path's document, none of them zero
          PageSize,  \* PAGE_SIZE, and what a power loss takes of a file
          Threshold, \* ROARING_THRESHOLD
          Radix,     \* the base of a varint's digits
          MaxDigits, \* the most digits of a varint
          LaterBase  \* the first document id of a segment that is not the first

Magic == 91
PostMagic == 92
Cookie == 93
Version == 3
HeaderSize == 7
FooterSize == 8
RecordSize == 4
ListHeader == 3

\* A checksum that tells the contents of the instances apart.
Sum(cells) ==
    LET sum[i \in 0 .. Len(cells)] == IF i = 0 THEN 1 ELSE (sum[i - 1] * 31 + cells[i] + 7) % 32749
    IN  sum[Len(cells)]

\* Where the i-th part starts when the parts follow each other.
Offset(parts, i) == Len(FlattenSeq(SubSeq(parts, 1, i - 1)))
Zeros(n) == [i \in 1 .. n |-> 0]

-------------------------------------------------------------------------------
(* Posting lists *)

\* varint_encode: the distances of ascending ids, each digit but the last with a mark.
Digits(n) == CHOOSE k \in 1 .. MaxDigits : n < Radix ^ k /\ (k > 1 => n >= Radix ^ (k - 1))
Varint(n) == [i \in 1 .. Digits(n) |-> ((n \div Radix ^ (i - 1)) % Radix)
                                       + IF i < Digits(n) THEN Radix ELSE 0]
VarintEncode(ids) ==
    FlattenSeq([i \in DOMAIN ids |-> Varint(ids[i] - IF i = 1 THEN 0 ELSE ids[i - 1])])

\* varint_decode: at most one list; a distance of zero is refused but at the start, and so is
\* a number that does not end.
ReadDigit(acc, c) ==
    LET value == acc.value + (c % Radix) * Radix ^ acc.digits IN
    IF c >= Radix THEN [acc EXCEPT !.value = value, !.digits = @ + 1, !.ok = @ /\ acc.digits + 1 < MaxDigits]
    ELSE [acc EXCEPT !.value = 0, !.digits = 0, !.ids = Append(@, acc.last + value), !.last = @ + value,
                     !.ok = @ /\ (acc.ids # <<>> => value > 0)]
VarintDecode(cells) ==
    LET acc[i \in 0 .. Len(cells)] ==
            IF i = 0 THEN [ids |-> <<>>, last |-> 0, value |-> 0, digits |-> 0, ok |-> TRUE]
            ELSE ReadDigit(acc[i - 1], cells[i])
        end == acc[Len(cells)]
    IN  IF end.ok /\ end.digits = 0 THEN {end.ids} ELSE {}

\* A long list is a bitmap, which is not read without its cookie.
Encoded(ids) ==
    LET data == IF Len(ids) >= Threshold THEN <<Cookie>> \o ids ELSE VarintEncode(ids)
    IN  <<IF Len(ids) >= Threshold THEN 1 ELSE 0, Len(ids), Len(data)>> \o data

-------------------------------------------------------------------------------
(* SegmentWriter *)

Docs(paths) == SetToSeq(paths)
Grams(paths) == SetToSortSeq(UNION {GramsOf[p] : p \in paths}, <)
IdsWith(paths, base, g) ==
    SelectSeq([i \in DOMAIN Docs(paths) |-> base + i - 1],
              LAMBDA id : g \in GramsOf[Docs(paths)[id - base + 1]])
Record(paths, base, i) ==
    LET bytes == PathBytes[Docs(paths)[i]] IN <<base + i - 1, 1, 1, Len(bytes)>> \o bytes

\* serialize: the postings are written first, for the dictionary holds where each list starts.
Lists(paths, base) == [k \in DOMAIN Grams(paths) |-> Encoded(IdsWith(paths, base, Grams(paths)[k]))]
PostFile(paths, base) ==
    LET body == FlattenSeq(Lists(paths, base)) IN <<PostMagic>> \o body \o <<Sum(body)>>

\* Header, table of records behind their offsets, dictionary on a page of its own, footer.
DictFile(paths, base) ==
    LET n == Cardinality(paths)
        lists == Lists(paths, base)
        records == [i \in 1 .. n |-> Record(paths, base, i)]
        table == [i \in 1 .. n |-> HeaderSize + n + Offset(records, i)] \o FlattenSeq(records)
        used == HeaderSize + Len(table)
        dict == ((used + PageSize - 1) \div PageSize) * PageSize
        entries == FlattenSeq([k \in DOMAIN lists |-> <<Grams(paths)[k], Offset(lists, k), lists[k][2]>>])
        content == <<Magic, Version, n, Len(lists), HeaderSize, 0, dict>> \o table
                       \o Zeros(dict - used) \o entries
    IN  content \o <<HeaderSize, 0, dict, n, Len(lists), Sum(content), Version, Magic>>

-------------------------------------------------------------------------------
(* Opening *)

\* read_exact_at: the cells, if there are so many.
Cells(file, at, n) == IF at + n <= Len(file) THEN {SubSeq(file, at + 1, at + n)} ELSE {}

\* parse_segment_mmap: the layout in the footer, if it is believed; the checksum is compared
\* by a full verification only.
SumMutant(file, full) == TRUE
SumFits(file, full) ==
    LET end == Len(file) - FooterSize IN full => Sum(SubSeq(file, 1, end)) = file[end + 6]
Parse(file, full) ==
    LET end == Len(file) - FooterSize
        l == [table |-> file[end + 1], dict |-> file[end + 3], docs |-> file[end + 4], grams |-> file[end + 5]]
    IN  IF /\ Len(file) >= HeaderSize + FooterSize
           /\ file[end + 8] = Magic /\ file[end + 7] = Version
           /\ SumFits(file, full)
           /\ file[1] = Magic
           /\ l.table \in HeaderSize .. end /\ l.dict \in l.table .. end
        THEN {l} ELSE {}

\* check_post_file_structure, and the length in the manifest; verify_post_file_checksum.
PostFits(file, len, full) ==
    /\ Len(file) = len /\ file[1] = PostMagic
    /\ full => Sum(SubSeq(file, 2, len - 1)) = file[len]

-------------------------------------------------------------------------------
(* Reading *)

\* get_doc: the record a document's offset leads to, unless it leaves the table.
GetDoc(file, l, id) ==
    UNION {UNION {
        {[id |-> head[1], bytes |-> bytes] :
            bytes \in IF at + RecordSize + head[4] <= l.dict THEN Cells(file, at + RecordSize, head[4]) ELSE {}} :
                head \in Cells(file, at, RecordSize)} :
                    at \in {c[1] : c \in {d \in Cells(file, l.table + id, 1) :
                                            d[1] >= l.table /\ d[1] + RecordSize <= l.dict}}}

\* dict_lookup: a binary search; where the list of a gram starts.
DictLookup(file, l, gram) ==
    LET search[lo \in 0 .. l.grams, hi \in 0 .. l.grams] ==
            IF lo >= hi THEN {}
            ELSE LET mid == lo + (hi - lo) \div 2
                     entry == file[l.dict + 3 * mid + 1]
                 IN  CASE entry = gram -> {file[l.dict + 3 * mid + 2]}
                       [] entry < gram -> search[mid + 1, hi]
                       [] OTHER -> search[lo, mid]
    IN  search[0, l.grams]

\* read_posting_list_pread: at most one list.
ReadList(file, at) ==
    {[encoding |-> h.encoding, data |-> h.data] : h \in UNION {
        {[encoding |-> head[1], data |-> data] : data \in Cells(file, 1 + at + ListHeader, head[3])} :
            head \in Cells(file, 1 + at, ListHeader)}}
Decodes(list) == list.encoding = 0 \/ (list.data # <<>> /\ Head(list.data) = Cookie)
LookupGram(dict, post, l, gram) ==
    {list \in UNION {ReadList(post, at) : at \in DictLookup(dict, l, gram)} : Decodes(list)}

\* to_vec
ToVec(list) == IF list.encoding = 0 THEN VarintDecode(list.data) ELSE {Tail(list.data)}

-------------------------------------------------------------------------------
(* What is left of a segment when power was lost before its files were on the disk *)

Pages(file) == 0 .. (Len(file) - 1) \div PageSize
Zeroed(file, pages) ==
    [i \in DOMAIN file |-> IF (i - 1) \div PageSize \in pages THEN 0 ELSE file[i]]
Remains(file) ==
    {Zeroed(file, pages) : pages \in SUBSET Pages(file)} \cup {SubSeq(file, 1, PageSize * k) : k \in Pages(file)}

\* What a process can do with the files: whether they open, and pass a full verification;
\* the documents listed with their paths, or with something else for a path; those that the
\* search for one of their grams does not find, without an error; and whether a compaction
\* can read the lists of all grams.
Outcome(paths, base, dict, post) ==
    LET docs == Docs(paths)
        len == Len(PostFile(paths, base))
        IdOf(p) == CHOOSE i \in 0 .. Len(docs) - 1 : docs[i + 1] = p
        Left(l) ==
            LET read(p) == GetDoc(dict, l, IdOf(p))
                lists(g) == LookupGram(dict, post, l, g)
                missed(p, g) == lists(g) = {} \/ \E list \in lists(g) : \E ids \in ToVec(list) :
                                                     base + IdOf(p) \notin ToSet(ids)
                sound(k) == LET found == lists(dict[l.dict + 3 * k + 1])
                            IN  found # {} /\ \A list \in found : ToVec(list) # {}
                listed == {p \in paths : \E d \in read(p) : d.bytes = PathBytes[p]}
            IN  [opens |-> \A p \in paths : \A d \in read(p) : d.id = base + IdOf(p),
                 intact |-> Parse(dict, TRUE) # {} /\ PostFits(post, len, TRUE),
                 listed |-> listed,
                 misread |-> {p \in paths \ listed : read(p) # {}},
                 missed |-> {p \in listed : \E g \in GramsOf[p] : missed(p, g)},
                 sound |-> \A k \in 0 .. l.grams - 1 : sound(k)]
        left == {Left(l) : l \in {m \in Parse(dict, FALSE) : PostFits(post, len, FALSE)}}
        opening == {o \in left : o.opens}
    IN  IF opening = {} THEN [opens |-> FALSE, intact |-> FALSE, listed |-> {}, misread |-> {},
                              missed |-> {}, sound |-> FALSE]
        ELSE CHOOSE o \in opening : TRUE

\* Documents, first id, and what may be left of their segment.
Outcomes == UNION {
    {<<paths, base, Outcome(paths, base, dict, post)>> :
        dict \in Remains(DictFile(paths, base)), post \in Remains(PostFile(paths, base))} :
            paths \in (SUBSET Path) \ {{}}, base \in {0, LaterBase}}
===============================================================================
