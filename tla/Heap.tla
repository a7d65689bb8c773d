-------------------------------- MODULE Heap --------------------------------
(***************************************************************************)
(* The heap of Liballoc over hooks that keep the promises of               *)
(* Include/liballoc.h: liballoc_alloc returns pages nobody else has, or    *)
(* NULL, and liballoc_free gives exactly those pages back.  One kernel     *)
(* thread uses it: it allocates, resizes and frees what it holds, in any   *)
(* order.                                                                  *)
(***************************************************************************)
EXTENDS Liballoc

CONSTANTS
    HeapPages,    \* pages in the heap's window
    Requests,     \* sizes the kernel asks for
    MaxUsers      \* chunks held at once

ASSUME HeapAssumption ==
    /\ HeapPages \in Nat /\ MaxUsers \in Nat
    /\ Requests \subseteq Nat \ {0}

VARIABLE pages    \* pages the hook has granted

vars == <<major, minor, l_memRoot, l_bestBet, l_allocated, l_inuse, users,
          pending, pages>>

PageRun(first, n) == first .. (first + n - 1)

(* liballoc_alloc as its comment describes it: NULL, or n pages nobody has  *)
(* (the lowest such run, as find_free_contiguous_pages does).               *)
FreeRuns(n) == { f \in 1 .. HeapPages :
                    /\ f + n - 1 <= HeapPages
                    /\ PageRun(f, n) \cap pages = {} }

Init == LiballocInit /\ pages = {}

Grow(req) ==
    /\ NeedsPages(req)
    /\ LET runs == FreeRuns(PagesFor(req))
       IN  /\ runs # {}
           /\ kmalloc_grows(req, Min(runs) * PageSize)
           /\ pages' = pages \cup PageRun(Min(runs), PagesFor(req))

Idle == pending = {}

Kmalloc(req) ==
    /\ Idle /\ Cardinality(users) < MaxUsers
    /\ \/ kmalloc_fits(req) /\ UNCHANGED pages
       \/ Grow(req)
       \/ kmalloc_fails(req) /\ UNCHANGED pages
    /\ UNCHANGED pending

Release(u) ==
    pages' = pages \ UNION { PageRun(m \div PageSize, major[m].pages) :
                                m \in Emptied(u) }

Kfree(u) ==
    /\ Idle
    /\ kfree(u) /\ Release(u)
    /\ UNCHANGED pending

KreallocShrink(u, req) ==
    /\ Idle
    /\ krealloc_shrinks(u, req)
    /\ UNCHANGED <<pending, pages>>

(* krealloc to a larger size: kmalloc, then the copy, then kfree of the old *)
(* block, whether kmalloc succeeded or not.                                 *)
KreallocAlloc(u, req) ==
    /\ Idle /\ req > u.req
    /\ \/ kmalloc_fits(req) /\ UNCHANGED pages
       \/ Grow(req)
       \/ kmalloc_fails(req) /\ UNCHANGED pages
    /\ pending' = {u}

KreallocFree ==
    \E u \in pending :
        /\ kfree(u) /\ Release(u)
        /\ pending' = {}

Next ==
    \/ \E req \in Requests : Kmalloc(req)
    \/ \E u \in users : Kfree(u)
    \/ \E u \in users, req \in Requests : KreallocShrink(u, req)
    \/ \E u \in users, req \in Requests : KreallocAlloc(u, req)
    \/ KreallocFree

Spec == Init /\ [][Next]_vars

-----------------------------------------------------------------------------
(* Properties *)

Addr == 0 .. ((HeapPages + 1) * PageSize)

TypeOK ==
    /\ DOMAIN major \subseteq Addr \ {NULL}
    /\ \A m \in DOMAIN major :
          major[m] \in [prev : Addr, next : Addr, first : Addr,
                        pages : Nat, size : Nat, usage : Nat]
    /\ DOMAIN minor \subseteq Addr \ {NULL}
    /\ \A a \in DOMAIN minor :
          minor[a] \in [block : Addr, prev : Addr, next : Addr,
                        size : Nat, req : Nat]
    /\ l_memRoot \in DOMAIN major \cup {NULL}
    /\ l_allocated \in Nat /\ l_inuse \in Nat
    /\ pending \subseteq users
    /\ pages \subseteq 1 .. HeapPages

Bytes(first, n) == first .. (first + n - 1)
UserBytes(u) == Bytes(u.ptr, u.req)
HeaderBytes ==
    (UNION { Bytes(m, MajorHdr) : m \in DOMAIN major })
        \cup (UNION { Bytes(a, MinorHdr) : a \in DOMAIN minor })
(* The byte in front of the pointer that UNALIGN reads back. *)
InfoByte(u) == u.ptr - AlignInfo
GrantedBytes == UNION { Bytes(p * PageSize, PageSize) : p \in pages }

(* What kmalloc and krealloc hand out is aligned, lies in pages the hook    *)
(* granted, and writing all of it destroys no header, no other caller's     *)
(* memory and no info byte kfree needs, through any sequence of kmalloc,    *)
(* krealloc and kfree.                                                      *)
UsersAreSeparate ==
    \A u \in users :
        /\ u.ptr % Alignment = 0
        /\ UserBytes(u) \cup {InfoByte(u)} \subseteq GrantedBytes \ HeaderBytes
        /\ \A v \in users \ {u} :
              (UserBytes(u) \cup {InfoByte(u)})
                  \cap (UserBytes(v) \cup {InfoByte(v)}) = {}

(* Unaligning a held pointer finds the live header of its own chunk.        *)
UsersHaveHeaders ==
    /\ \A u \in users : MinorOf(u) \in DOMAIN minor
                        /\ minor[MinorOf(u)].req = u.req
    /\ Cardinality(users) = Cardinality(DOMAIN minor)

(* Both kinds of lists are doubly linked, hold every live header once, and  *)
(* the minors of a major are in address order without overlap.              *)
ListsAreSound ==
    LET majors == MajorsFrom(l_memRoot)
    IN  /\ Len(majors) = Cardinality(DOMAIN major)
        /\ \A i \in 1 .. Len(majors) :
              major[majors[i]].prev = IF i = 1 THEN NULL ELSE majors[i - 1]
        /\ \A m \in DOMAIN major :
              LET minors == MinorsFrom(major[m].first)
              IN  /\ ToSet(minors) = { a \in DOMAIN minor : minor[a].block = m }
                  /\ \A i \in 1 .. Len(minors) :
                        /\ minor[minors[i]].prev = IF i = 1 THEN NULL ELSE minors[i - 1]
                        /\ GapAfter(m, minors[i]) >= 0

(* The byte counts that steer the search agree with the lists.              *)
CountsAreExact ==
    /\ \A m \in DOMAIN major :
          major[m].usage = MajorHdr +
              MapThenSumSet(LAMBDA a : minor[a].size + MinorHdr,
                            { a \in DOMAIN minor : minor[a].block = m })
    /\ l_inuse = MapThenSumSet(LAMBDA a : minor[a].size, DOMAIN minor)
    /\ l_allocated = MapThenSumSet(LAMBDA m : major[m].size, DOMAIN major)

(* The best bet is never a major whose pages went back to the hook, and no  *)
(* major stays behind empty: when everything is freed, the heap holds no    *)
(* page.                                                                    *)
BestBetIsLive == l_bestBet \in DOMAIN major \cup {NULL}
EmptyMajorsGoBack ==
    /\ \A m \in DOMAIN major : major[m].first # NULL
    /\ Cardinality(pages) = MapThenSumSet(LAMBDA m : major[m].pages, DOMAIN major)

(* liballoc.c:311, "bounce through every major and find enough space": the  *)
(* heap asks for more pages only when no gap of any major holds the chunk,  *)
(* although the search starts at the best bet.                              *)
GrowsOnlyWhenFull ==
    [][\A a \in DOMAIN minor' \ DOMAIN minor :
          pages' # pages =>
            \A m \in DOMAIN major, p \in DOMAIN minor \cup {NULL} :
              p = NULL \/ minor[p].block = m
                => GapAfter(m, p) < minor'[a].size + MinorHdr]_vars
=============================================================================
