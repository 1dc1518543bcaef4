------------------------------- MODULE Listing -------------------------------
(***************************************************************************)
(* Listings, page by page: the objects of a bucket with prefix and         *)
(* delimiter (ListObjects V1 and V2, ListObjectVersions, the management    *)
(* API), its pending multipart uploads, and the parts of an upload.  Each  *)
(* page is one statement on the table as it then is; the client asks for   *)
(* the next page with the marker or token of the page before, and rows     *)
(* come and go meanwhile.                                                  *)
(*                                                                         *)
(* A key is a sequence of characters, a character a number.  A row is a    *)
(* key; <<key, id>> for an upload, <<number>> for a part.  Tokens encode   *)
(* the cursor reversibly and are left out, as are the columns of a row.    *)
(* Rows of other buckets or uploads, and uploads that are not active, are  *)
(* not in the table modelled.                                              *)
(***************************************************************************)
EXTENDS Naturals, Sequences, FiniteSets, FiniteSetsExt, SequencesExt

CONSTANTS
    ObjectRows, UploadRows, PartRows,   \* rows that may exist
    ListPrefixes,   \* prefixes asked for
    Delimiter,      \* the character that clients group by
    Limits,         \* max-keys, max-uploads, max-parts asked for
    MaxResults,     \* maxListKeys, maxListResults (1000)
    MaxChanges      \* bound on rows inserted and removed during a listing

\* Keys, upload ids and part numbers are bounded; part numbers start at 1.
ASSUME ListingAssumption ==
    /\ IsFiniteSet(ObjectRows) /\ IsFiniteSet(UploadRows) /\ IsFiniteSet(PartRows)
    /\ \A k \in ObjectRows : k \in Seq(Nat) /\ k # <<>>
    /\ \A u \in UploadRows : u \in Seq(Nat) /\ Len(u) = 2
    /\ \A r \in PartRows : r \in Seq(Nat) /\ Len(r) = 1 /\ r[1] > 0
    /\ ListPrefixes \subseteq Seq(Nat)
    /\ Limits \subseteq Nat
    /\ MaxResults \in Nat \ {0}
    /\ MaxChanges \in Nat

Apis == {"objects", "versions", "management", "uploads", "parts"}

RowsOf(api) ==
    CASE api = "uploads" -> UploadRows [] api = "parts" -> PartRows [] OTHER -> ObjectRows

\* The order of keys, and of (key, id).
Less(s, t) ==
    \E i \in 1..Len(t) :
        /\ i <= Len(s) + 1
        /\ \A j \in 1..(i - 1) : s[j] = t[j]
        /\ i <= Len(s) => s[i] < t[i]

\* A page: what is listed, where the next page goes on, and is there one.
Entry(value, cursor) == [value |-> value, cursor |-> cursor]

\* ORDER BY
Sorted(entries) ==
    [i \in 1..Cardinality(entries) |->
        CHOOSE e \in entries : Cardinality({f \in entries : Less(f.value, e.value)}) = i - 1]

\* Mutant: nothing is asked for beyond the page.
Limited_NoLookahead(entries, limit) ==
    SubSeq(Sorted(entries), 1, Min({limit, Cardinality(entries)}))

\* LIMIT max+1: one more than the page, to see whether it is truncated.
Limited(entries, limit) ==
    SubSeq(Sorted(entries), 1, Min({limit + 1, Cardinality(entries)}))

List(table, prefix, startAfter, maxKeys) ==
    Limited({Entry(k, k) : k \in {r \in table : Less(startAfter, r) /\ IsPrefix(prefix, r)}}, maxKeys)

\* A key up to the first delimiter after the prefix, or the whole key.
VirtualKey(k, prefix) ==
    LET at == {i \in (Len(prefix) + 1)..Len(k) : k[i] = Delimiter}
    IN  IF at = {} THEN k ELSE SubSeq(k, 1, CHOOSE i \in at : \A j \in at : i <= j)

\* Mutant: only the keys themselves are held against the marker.
ListDelimited_KeysOnly(table, prefix, startAfter, maxKeys) ==
    LET raw == {r \in table : Less(startAfter, r) /\ IsPrefix(prefix, r)}
        group(v) == {k \in raw : VirtualKey(k, prefix) = v}
        last(v) == CHOOSE k \in group(v) : \A l \in group(v) : ~Less(k, l)
    IN  Limited({Entry(v, last(v)) : v \in {VirtualKey(k, prefix) : k \in raw}}, maxKeys)

\* Keys that share a virtual key are one entry, whose cursor is the largest of
\* them; a virtual key that is not after the marker has been listed already.
ListDelimited(table, prefix, startAfter, maxKeys) ==
    LET raw == {r \in table : Less(startAfter, r) /\ IsPrefix(prefix, r)}
        group(v) == {k \in raw : VirtualKey(k, prefix) = v}
        last(v) == CHOOSE k \in group(v) : \A l \in group(v) : ~Less(k, l)
        grouped == {v \in {VirtualKey(k, prefix) : k \in raw} : Less(startAfter, v)}
    IN  Limited({Entry(v, last(v)) : v \in grouped}, maxKeys)

\* The marker of the first page is empty.
ListByBucket(table, marker, maxUploads) ==
    LET later(u) == \/ marker = <<>>
                    \/ u[1] > marker[1]
                    \/ u[1] = marker[1] /\ u[2] > marker[2]
    IN  Limited({Entry(r, r) : r \in {u \in table : later(u)}}, maxUploads)

\* All parts are read; the page is cut out of them.
PartsAfterMarker(table, marker, maxParts) ==
    LET number == IF marker = <<>> THEN 0 ELSE marker[1]
    IN  Limited({Entry(r, r) : r \in {p \in table : p[1] > number}}, maxParts)

\* The limit asked for is capped; no uploads or parts at all is the default.
ListLimit(api, asked) ==
    IF asked > MaxResults \/ (asked = 0 /\ api \in {"uploads", "parts"}) THEN MaxResults ELSE asked

\* Versions and the management API answer 400 to a limit of none, and only
\* some listings group; the prefix of uploads is left out, parts have none.
Answered(api, prefix, delimited, asked) ==
    /\ api \in {"versions", "management"} => asked > 0
    /\ delimited => api \in {"objects", "management"}
    /\ api \in {"uploads", "parts"} => prefix = <<>>

-----------------------------------------------------------------------------
VARIABLES
    rows,       \* the table
    query,      \* what the client lists: api, prefix, delimiter?, limit
    after,      \* start-after, marker or decoded token of the next page
    listed,     \* entries of the pages so far
    ended,      \* the last page was not truncated
    steady,     \* rows that have been there since the listing began
    changes     \* rows inserted and removed since

listVars == <<rows, query, after, listed, ended, steady, changes>>

Query == [api : Apis, prefix : ListPrefixes, delimited : BOOLEAN, limit : Nat]

ListTypeOK ==
    /\ query \in Query
    /\ rows \subseteq RowsOf(query.api)
    /\ after \in Seq(Nat)
    /\ \A i \in DOMAIN listed : listed[i] \in Seq(Nat)
    /\ ended \in BOOLEAN
    /\ steady \subseteq rows
    /\ changes \in 0..MaxChanges

ListInit ==
    /\ \E api \in Apis, p \in ListPrefixes, d \in BOOLEAN, asked \in Limits :
        /\ Answered(api, p, d, asked)
        /\ query = [api |-> api, prefix |-> p, delimited |-> d, limit |-> ListLimit(api, asked)]
        /\ rows \in SUBSET RowsOf(api)
    /\ steady = rows
    /\ after = <<>>
    /\ listed = <<>>
    /\ ended = FALSE
    /\ changes = 0

\* The handlers: what each reads of the table for the page asked for.
ListObjects ==
    IF query.limit = 0      THEN <<>>
    ELSE IF query.delimited THEN ListDelimited(rows, query.prefix, after, query.limit)
    ELSE                         List(rows, query.prefix, after, query.limit)

ListObjectVersions == List(rows, query.prefix, after, query.limit)

ManagementListObjects ==
    IF query.delimited
    THEN ListDelimited(rows, query.prefix, after, query.limit)
    ELSE List(rows, query.prefix, after, query.limit)

ListMultipartUploads == ListByBucket(rows, after, query.limit)

ListParts == PartsAfterMarker(rows, after, query.limit)

Fetched ==
    CASE query.api = "objects"    -> ListObjects
      [] query.api = "versions"   -> ListObjectVersions
      [] query.api = "management" -> ManagementListObjects
      [] query.api = "uploads"    -> ListMultipartUploads
      [] query.api = "parts"      -> ListParts

\* One request and its response.
NextPage ==
    LET fetched == Fetched
        truncated == Len(fetched) > query.limit
        page == IF truncated THEN SubSeq(fetched, 1, query.limit) ELSE fetched
    IN  /\ ~ended
        /\ listed' = listed \o [i \in 1..Len(page) |-> page[i].value]
        /\ after' = IF truncated THEN page[Len(page)].cursor ELSE after
        /\ ended' = ~truncated
        /\ UNCHANGED <<rows, query, steady, changes>>

\* Somebody else's writes between two pages.
InsertRow(r) ==
    /\ ~ended
    /\ changes < MaxChanges
    /\ r \in RowsOf(query.api) \ rows
    /\ rows' = rows \cup {r}
    /\ changes' = changes + 1
    /\ UNCHANGED <<query, after, listed, ended, steady>>

RemoveRow(r) ==
    /\ ~ended
    /\ changes < MaxChanges
    /\ r \in rows
    /\ rows' = rows \ {r}
    /\ steady' = steady \ {r}
    /\ changes' = changes + 1
    /\ UNCHANGED <<query, after, listed, ended>>

ListNext ==
    \/ NextPage
    \/ \E r \in ObjectRows \cup UploadRows \cup PartRows : InsertRow(r) \/ RemoveRow(r)

ListSpec == ListInit /\ [][ListNext]_listVars

-----------------------------------------------------------------------------
(* Properties                                                              *)

\* What a row is listed as.
ListedAs(r) == IF query.delimited THEN VirtualKey(r, query.prefix) ELSE r

\* Over all pages, entries are in strictly ascending order: no key and no
\* common prefix is listed twice, also if the group at a page's end grows.
ListsEachOnce == \A i \in 2..Len(listed) : Less(listed[i - 1], listed[i])

\* Once the last page is there, every row that was in the table all the time
\* has been listed, by itself or by its common prefix: page boundaries and
\* other rows' comings and goings make none of them disappear.
ListsSteadyRows ==
    ended /\ query.limit > 0 =>
        \A r \in steady : IsPrefix(query.prefix, r) => \E i \in DOMAIN listed : listed[i] = ListedAs(r)

=============================================================================
