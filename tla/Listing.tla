------------------------------ MODULE Listing ------------------------------
(***************************************************************************)
(* Reading a collection of the service page by page (rvs/api.py).  A       *)
(* cursor is the position after the last item of its page.  A service may  *)
(* also answer too much, cursors it has given before, or pages for ever.   *)
(***************************************************************************)
EXTENDS Naturals, Sequences

CONSTANTS
    Size,           \* bound: items of the collection
    PageLimit,      \* COLLECTION_PAGE_LIMIT, 100 in the code
    MaxPages,       \* _MAX_COLLECTION_PAGES, 10,000 in the code
    NoCursor        \* null, and no maximum

ASSUME ListingAssumption ==
    {Size, PageLimit, MaxPages} \subseteq Nat \ {0} /\ NoCursor \notin Nat

VARIABLE listing    \* arguments, what was read, the cursors seen

NoListing == [at |-> "idle", honest |-> TRUE, from |-> 0, max |-> NoCursor, items |-> <<>>,
              cursor |-> NoCursor, seen |-> {}, pages |-> 0]

ListingInit == listing = NoListing

\* A listing starts at the beginning or, with --cursor, where an earlier one ended.
ListingBegin ==
    /\ listing = NoListing
    /\ \E honest \in BOOLEAN, max \in (1..Size + 1) \cup {NoCursor},
          cursor \in (1..Size) \cup {NoCursor} :
        listing' = [NoListing EXCEPT !.at = "page", !.honest = honest, !.max = max,
            !.cursor = cursor, !.from = IF cursor = NoCursor THEN 0 ELSE cursor,
            !.seen = {cursor} \ {NoCursor}]

\* Mutant: asks for full pages.
LimitFull == PageLimit

Limit ==
    LET left == listing.max - Len(listing.items)
    IN IF listing.max = NoCursor \/ left > PageLimit THEN PageLimit ELSE left

\* The service's answer: an honest one continues after the cursor and says when it ends.
Page(items, next) ==
    LET pos == IF listing.cursor = NoCursor THEN 0 ELSE listing.cursor
        end == pos + Len(items)
    IN IF listing.honest
       THEN /\ items = [i \in 1..Len(items) |-> pos + i]
            /\ Len(items) <= Limit /\ end <= Size
            /\ Len(items) = 0 => end = Size
            /\ \/ next = NoCursor /\ end = Size
               \/ next = end /\ items # <<>>
       ELSE items = [i \in 1..Len(items) |-> 1]

Fail == listing' = [listing EXCEPT !.at = "failed"]
ReadPage ==
    /\ listing.at = "page"
    /\ \E n \in 0..PageLimit + 1, next \in (1..Size) \cup {NoCursor},
          first \in IF listing.honest THEN 1..Size ELSE {1} :
        LET items == [i \in 1..n |-> IF listing.honest THEN first + i - 1 ELSE 1]
            read == [listing EXCEPT !.items = @ \o items, !.cursor = next, !.pages = @ + 1]
            full == listing.max # NoCursor /\ Len(read.items) >= listing.max
        IN /\ Page(items, next)
           /\ CASE n > Limit -> Fail
                [] n <= Limit /\ (next = NoCursor \/ full) ->
                     listing' = [read EXCEPT !.at = "done"]
                [] OTHER ->
                     IF next \in listing.seen \/ read.pages = MaxPages THEN Fail
                     ELSE listing' = [read EXCEPT !.seen = @ \cup {next}]

ListingStep == ReadPage
ListingNext == ListingBegin \/ ListingStep
ListingSpec == ListingInit /\ [][ListingNext]_listing

-----------------------------------------------------------------------------
\* Every field of the listing has its type.
ListingTypeOK ==
    /\ listing.at \in {"idle", "page", "done", "failed"}
    /\ listing.honest \in BOOLEAN /\ listing.from \in 0..Size
    /\ listing.max \in Nat \cup {NoCursor} /\ listing.items \in Seq(1..Size)
    /\ listing.cursor \in (1..Size) \cup {NoCursor} /\ listing.seen \subseteq 1..Size
    /\ listing.pages \in 0..MaxPages

\* What a listing returns is what the collection has after its cursor, without gaps or
\* repetitions and never more than was asked for, and the cursor it returns continues
\* exactly there; only the page limit fails on an honest service (api.py 188-236).
ListingExact ==
    LET n == Len(listing.items)
    IN /\ listing.at = "done" =>
            /\ listing.max # NoCursor => n <= listing.max
            /\ listing.honest =>
                 /\ listing.items = [i \in 1..n |-> listing.from + i]
                 /\ listing.cursor \in {NoCursor, listing.from + n}
                 /\ listing.cursor = NoCursor => listing.from + n = Size
                 /\ listing.max = NoCursor => listing.from + n = Size
       /\ listing.at = "failed" /\ listing.honest => listing.pages + 1 = MaxPages
=============================================================================
