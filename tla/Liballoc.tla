------------------------------ MODULE Liballoc ------------------------------
(***************************************************************************)
(* The kernel heap, Kernel/liballoc.c.  The heap is a doubly linked list   *)
(* of majors (runs of pages obtained from the hook liballoc_alloc), each   *)
(* with a doubly linked list of minors (allocated chunks) inside its       *)
(* pages.  Addresses are numbers; a header lives at the address that names *)
(* it, and the user's pointer lies behind the header, aligned.             *)
(*                                                                         *)
(* Each operation runs between liballoc_lock and liballoc_unlock, cli and  *)
(* sti on the only processor, and is one step; krealloc takes the lock     *)
(* three times and is split there.  What the hook returns when it is       *)
(* called is the argument `base' of the operations.                        *)
(***************************************************************************)
EXTENDS Integers, Sequences, FiniteSets, SequencesExt

CONSTANTS
    MajorHdr, MinorHdr,    \* sizeof of the two headers (24 and 24)
    Alignment, AlignInfo,  \* ALIGNMENT, ALIGN_INFO (16 and 16)
    PageSize, PageCount    \* l_pageSize, l_pageCount (4096 and 16)

ASSUME LiballocAssumption ==
    /\ MajorHdr \in Nat \ {0} /\ MinorHdr \in Nat \ {0}
    /\ Alignment \in Nat \ {0} /\ AlignInfo \in Nat \ {0}
    /\ PageSize \in Nat \ {0} /\ PageCount \in Nat \ {0}

NULL == 0

VARIABLES
    major,        \* address of a major -> its header
    minor,        \* address of a minor -> its header
    l_memRoot, l_bestBet,
    l_allocated, l_inuse,
    users,        \* history: what callers hold, [ptr, diff, req]; diff is the
                  \* byte ALIGN leaves in front of the pointer
    pending       \* krealloc between kmalloc and kfree: the old pointer

heapVars == <<major, minor, l_memRoot, l_bestBet, l_allocated, l_inuse, users>>
liballocVars == <<heapVars, pending>>

LiballocInit ==
    /\ major = <<>> /\ minor = <<>>
    /\ l_memRoot = NULL /\ l_bestBet = NULL
    /\ l_allocated = 0 /\ l_inuse = 0
    /\ users = {} /\ pending = {}

-----------------------------------------------------------------------------
(* Sizes and the lists *)

(* Variant: no room for the info byte. *)
SizeNoInfo(req) == req + Alignment

Size(req) == req + Alignment + AlignInfo

Need(req) == Size(req) + MinorHdr

(* allocate_new_page: enough pages for both headers, at least PageCount. *)
PagesFor(req) ==
    LET st == Need(req) + MajorHdr
    IN  Max({ PageCount, (st + PageSize - 1) \div PageSize })

FreeBytes(m) == major[m].size - major[m].usage

MajorsFrom(m) ==
    LET chain[a \in DOMAIN major \cup {NULL}] ==
            IF a = NULL THEN <<>> ELSE <<a>> \o chain[major[a].next]
    IN  chain[m]

MinorsFrom(a) ==
    LET chain[b \in DOMAIN minor \cup {NULL}] ==
            IF b = NULL THEN <<>> ELSE <<b>> \o chain[minor[b].next]
    IN  chain[a]

-----------------------------------------------------------------------------
(* kmalloc *)

(* The free bytes in front of the first minor (p = NULL) or behind minor p. *)
GapAfter(m, p) ==
    LET start == IF p = NULL THEN m + MajorHdr ELSE p + MinorHdr + minor[p].size
        next  == IF p = NULL THEN major[m].first ELSE minor[p].next
    IN  (IF next = NULL THEN m + major[m].size ELSE next) - start

(* Where a new minor may go, in the order of the search: in front of the    *)
(* first minor, or behind one of them.                                      *)
Spots(m) == <<NULL>> \o MinorsFrom(major[m].first)

(* Variant: the header of the new minor is forgotten. *)
PlaceNoHeader(m, req) ==
    SelectInSeq(Spots(m), LAMBDA p : GapAfter(m, p) >= Size(req))

(* Cases 2 to 4: the first of them with room, 0 if none has it. *)
Place(m, req) == SelectInSeq(Spots(m), LAMBDA p : GapAfter(m, p) >= Need(req))

FitsIn(m, req) == FreeBytes(m) >= Need(req) /\ Place(m, req) # 0

StartedBet(req) == l_bestBet # NULL /\ FreeBytes(l_bestBet) > Need(req)

(* Variant: the search does not start over at the root. *)
SearchOrderNoRestart(req) ==
    MajorsFrom(IF StartedBet(req) THEN l_bestBet ELSE l_memRoot)

(* The majors in the order kmalloc visits them: from the best bet to the    *)
(* end and then all over again, or all of them.                             *)
SearchOrder(req) ==
    IF StartedBet(req) THEN MajorsFrom(l_bestBet) \o MajorsFrom(l_memRoot)
    ELSE MajorsFrom(l_memRoot)

(* The best bet after the majors of a sequence have been visited: the first *)
(* one with the most room, if it has more than the best bet had.            *)
BestAfter(visited) ==
    LET had  == IF l_bestBet = NULL THEN 0 ELSE FreeBytes(l_bestBet)
        most == Max({ FreeBytes(m) : m \in ToSet(visited) } \cup {had})
    IN  IF most = had THEN l_bestBet
        ELSE visited[SelectInSeq(visited, LAMBDA m : FreeBytes(m) = most)]

Header(m, prev, next, req) ==
    [block |-> m, prev |-> prev, next |-> next, size |-> Size(req), req |-> req]

(* ALIGN: room for the info byte, then up to the next aligned address.      *)
User(a, req) ==
    LET p    == a + MinorHdr + AlignInfo
        diff == IF p % Alignment = 0 THEN 0 ELSE Alignment - (p % Alignment)
    IN  [ptr |-> p + diff, diff |-> diff + AlignInfo, req |-> req]

(* The minor is written behind p and linked between p and its successor;    *)
(* `maj' is the table of majors, possibly with a new one.                   *)
Insert(maj, m, p, req) ==
    LET a    == IF p = NULL THEN m + MajorHdr ELSE p + MinorHdr + minor[p].size
        next == IF p = NULL THEN maj[m].first ELSE minor[p].next
    IN  /\ minor' = [b \in DOMAIN minor \cup {a} |->
                        IF b = a THEN Header(m, p, next, req)
                        ELSE [minor[b] EXCEPT
                                !.next = IF b = p THEN a ELSE @,
                                !.prev = IF b = next THEN a ELSE @]]
        /\ major' = [maj EXCEPT
                        ![m].first = IF p = NULL THEN a ELSE @,
                        ![m].usage = @ + Need(req)]
        /\ l_inuse' = l_inuse + Size(req)
        /\ users' = users \cup {User(a, req)}

(* A major of the search order has room. *)
kmalloc_fits(req) ==
    LET order == SearchOrder(req)
        i     == SelectInSeq(order, LAMBDA m : FitsIn(m, req))
    IN  /\ l_memRoot # NULL /\ i # 0
        /\ Insert(major, order[i], Spots(order[i])[Place(order[i], req)], req)
        /\ l_bestBet' = BestAfter(SubSeq(order, 1, i))
        /\ UNCHANGED <<l_memRoot, l_allocated>>

NeedsPages(req) ==
    l_memRoot = NULL \/ \A m \in ToSet(SearchOrder(req)) : ~ FitsIn(m, req)

LastOf(order) == IF order = <<>> THEN NULL ELSE Last(order)

(* None has: a new major is linked behind the last one.  A last major with  *)
(* too few bytes falls through to the new one (case 1), a fragmented one    *)
(* goes round the loop (case 5), where the new one may become the best bet. *)
kmalloc_grows(req, base) ==
    LET order == IF l_memRoot = NULL THEN <<>> ELSE SearchOrder(req)
        last  == LastOf(order)
        new   == [prev |-> last, next |-> NULL, first |-> NULL,
                  pages |-> PagesFor(req), size |-> PagesFor(req) * PageSize,
                  usage |-> MajorHdr]
        maj   == [m \in DOMAIN major \cup {base} |->
                    IF m = base THEN new
                    ELSE [major[m] EXCEPT !.next = IF m = last THEN base ELSE @]]
        visitsNew == last = NULL \/ FreeBytes(last) >= Need(req)
        best      == BestAfter(order)
    IN  /\ NeedsPages(req) /\ base # NULL
        /\ Insert(maj, base, NULL, req)
        /\ l_memRoot' = IF l_memRoot = NULL THEN base ELSE l_memRoot
        /\ l_allocated' = l_allocated + new.size
        /\ l_bestBet' =
             IF visitsNew /\ (best = NULL \/ FreeBytes(best) < new.size - new.usage)
             THEN base ELSE best

(* The hook returns NULL: the search still moved the best bet. *)
kmalloc_fails(req) ==
    /\ NeedsPages(req)
    /\ l_bestBet' = BestAfter(IF l_memRoot = NULL THEN <<>> ELSE SearchOrder(req))
    /\ UNCHANGED <<major, minor, l_memRoot, l_allocated, l_inuse, users>>

-----------------------------------------------------------------------------
(* kfree *)

(* Variant: a diff that uses the whole gap is taken for a bad one. *)
MinorOfStrict(u) ==
    (IF u.diff < Alignment + AlignInfo - 1 THEN u.ptr - u.diff ELSE u.ptr) - MinorHdr

(* UNALIGN, then back over the header. *)
MinorOf(u) ==
    (IF u.diff < Alignment + AlignInfo THEN u.ptr - u.diff ELSE u.ptr) - MinorHdr

(* Variant: the first major is kept when it empties. *)
EmptiedNotRoot(u) ==
    LET x == minor[MinorOf(u)]
    IN  IF x.prev = NULL /\ x.next = NULL /\ x.block # l_memRoot
        THEN {x.block} ELSE {}

(* The major whose pages kfree gives back to the hook, if any. *)
Emptied(u) ==
    LET x == minor[MinorOf(u)]
    IN  IF x.prev = NULL /\ x.next = NULL THEN {x.block} ELSE {}

(* A table without the entry at a; its neighbours are linked to each other. *)
Unlink(table, a) ==
    [b \in DOMAIN table \ {a} |->
        [table[b] EXCEPT
            !.next = IF b = table[a].prev THEN table[a].next ELSE @,
            !.prev = IF b = table[a].next THEN table[a].prev ELSE @]]

(* Variant: the header stays counted. *)
UsageWithoutNoHeader(x) == major[x.block].usage - x.size

UsageWithout(x) == major[x.block].usage - (x.size + MinorHdr)

(* Variant: the root is left pointing at the released major. *)
RootWithoutStale(m) == l_memRoot

RootWithout(m) == IF l_memRoot = m THEN major[m].next ELSE l_memRoot

(* Variant: the best bet is left pointing at the released major. *)
BetWithoutStale(m) == l_bestBet

BetWithout(m) == IF l_bestBet = m THEN NULL ELSE l_bestBet

(* The minor is unlinked; an empty major is unlinked and released.  The     *)
(* major of a minor that went may become the best bet.                      *)
kfree(u) ==
    LET x == minor[MinorOf(u)]
        m == x.block
    IN  /\ minor' = Unlink(minor, MinorOf(u))
        /\ l_inuse' = l_inuse - x.size
        /\ users' = users \ {u}
        /\ IF Emptied(u) # {}
           THEN /\ major' = Unlink(major, m)
                /\ l_memRoot' = RootWithout(m)
                /\ l_bestBet' = BetWithout(m)
                /\ l_allocated' = l_allocated - major[m].size
           ELSE /\ major' = [major EXCEPT
                                ![m].first = IF x.prev = NULL THEN x.next ELSE @,
                                ![m].usage = UsageWithout(x)]
                /\ l_bestBet' = IF /\ l_bestBet \notin {NULL, m}
                                   /\ major[m].size - UsageWithout(x)
                                        > FreeBytes(l_bestBet)
                                THEN m ELSE l_bestBet
                /\ UNCHANGED <<l_memRoot, l_allocated>>

(* krealloc to a size that fits only rewrites the requested size. *)
krealloc_shrinks(u, req) ==
    /\ req <= u.req
    /\ minor' = [minor EXCEPT ![MinorOf(u)].req = req]
    /\ users' = (users \ {u}) \cup {[u EXCEPT !.req = req]}
    /\ UNCHANGED <<major, l_memRoot, l_bestBet, l_allocated, l_inuse>>
=============================================================================
