--------------------------- MODULE CompletedParts ---------------------------
(***************************************************************************)
(* What CompleteMultipartUpload makes of the list of parts its client      *)
(* sends: normalizeCompletedParts, which runs before the upload is         *)
(* claimed, and matchStoredParts, which runs on the part rows listed after *)
(* it.  MultipartUpload.tla takes a list that has passed the former.       *)
(***************************************************************************)
EXTENDS Naturals, Sequences

CONSTANTS
    PartNumbers,    \* a set of numbers
    PartETags,      \* ETags up to quotes and case (etagMatches)
    NotStored,      \* no row with that part number
    MinPartSize     \* minPartSize()

ASSUME CompletedPartsAssumption == PartNumbers \subseteq Nat /\ MinPartSize \in Nat

CompletePart == [number : PartNumbers, etag : PartETags]

\* A list that is refused, and why; or the parts of the object.
Refused(reason) == [ok |-> FALSE, reason |-> reason, parts |-> <<>>]
Accepted(parts) == [ok |-> TRUE, reason |-> "none", parts |-> parts]

\* Mutant: the first entry for a number wins.
AddPart_FirstWins(unique, part) ==
    IF \E i \in DOMAIN unique : unique[i].number = part.number THEN unique ELSE Append(unique, part)

\* One round of the loop: an entry seen before is replaced where it stands.
AddPart(unique, part) ==
    IF \E i \in DOMAIN unique : unique[i].number = part.number
    THEN [i \in DOMAIN unique |-> IF unique[i].number = part.number THEN part ELSE unique[i]]
    ELSE Append(unique, part)

NormalizeCompletedParts(list) ==
    LET loop[n \in 0..Len(list)] ==
            IF n = 0 THEN <<>> ELSE AddPart(loop[n - 1], list[n])
        unique == loop[Len(list)]
    IN  CASE list = <<>> -> Refused("errNoCompletedParts")
          [] \E i \in 2..Len(unique) : unique[i].number < unique[i - 1].number
                         -> Refused("errPartOrder")
          [] OTHER       -> Accepted(unique)

\* What is wrong with the i-th part of the normalised list.
PartError(requested, stored, i) ==
    LET have == stored[requested[i].number]
    IN  IF have = NotStored \/ have.etag # requested[i].etag    THEN "errUnknownPart"
        ELSE IF i < Len(requested) /\ have.size < MinPartSize  THEN "errPartTooSmall"
        ELSE                                                        "none"

\* The first error ends the loop.
MatchStoredParts(requested, stored) ==
    LET wrong == {i \in DOMAIN requested : PartError(requested, stored, i) # "none"}
    IN  IF wrong = {}
        THEN Accepted(requested)
        ELSE LET first == CHOOSE i \in wrong : \A j \in wrong : i <= j
             IN  Refused(PartError(requested, stored, first))

\* The answer to a completion whose claim succeeds.
Completion(list, stored) ==
    LET requested == NormalizeCompletedParts(list)
    IN  IF requested.ok THEN MatchStoredParts(requested.parts, stored) ELSE requested

-----------------------------------------------------------------------------
(* Reference: the list read as a whole                                     *)

Named(list) == {list[i].number : i \in DOMAIN list}

FirstAt(list, n) ==
    CHOOSE i \in DOMAIN list : list[i].number = n /\ \A j \in 1..(i - 1) : list[j].number # n

LastFor(list, n) ==
    list[CHOOSE i \in DOMAIN list : list[i].number = n /\ \A j \in (i + 1)..Len(list) : list[j].number # n]

\* Numbers are first named in ascending order.
InOrder(list) ==
    \A m, n \in Named(list) : m < n => FirstAt(list, m) < FirstAt(list, n)

\* The last entry for each number names a stored part.
AllStored(list, stored) ==
    \A n \in Named(list) : stored[n] # NotStored /\ stored[n].etag = LastFor(list, n).etag

\* Every part but the one with the highest number is large enough.
AllLarge(list, stored) ==
    \A m, n \in Named(list) : m < n /\ stored[m] # NotStored => stored[m].size >= MinPartSize

\* A completion is accepted exactly if its list names stored parts in order,
\* whatever entries it repeats; the object is then made of each part named,
\* once, by ascending number, with the ETag of the last entry for it.  A
\* refusal names something that is really wrong with the list.
CompletesExactly(list, stored) ==
    LET answer == Completion(list, stored)
    IN  /\ answer.ok <=> /\ list # <<>>
                         /\ InOrder(list)
                         /\ AllStored(list, stored)
                         /\ AllLarge(list, stored)
        /\ answer.ok =>
              /\ {answer.parts[i] : i \in DOMAIN answer.parts} = {LastFor(list, n) : n \in Named(list)}
              /\ \A i \in 2..Len(answer.parts) : answer.parts[i - 1].number < answer.parts[i].number
        /\ answer.reason = "errNoCompletedParts" => list = <<>>
        /\ answer.reason = "errPartOrder" => ~InOrder(list)
        /\ answer.reason = "errUnknownPart" => ~AllStored(list, stored)
        /\ answer.reason = "errPartTooSmall" => ~AllLarge(list, stored)

=============================================================================
