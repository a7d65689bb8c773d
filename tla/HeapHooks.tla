----------------------------- MODULE HeapHooks -----------------------------
(***************************************************************************)
(* The hooks of the kernel heap, Kernel/liballoc_hook.c: liballoc_alloc    *)
(* finds unused pages from HEAP_START_ADDR on and maps each to a new       *)
(* frame, liballoc_free unmaps them.  Liballoc calls them with interrupts  *)
(* off, so each call is one step; `granted' is what Liballoc holds, a set  *)
(* of runs <<first page, number of pages>>, each freed once.               *)
(***************************************************************************)
EXTENDS Vmm

CONSTANTS
    HeapIndex,    \* directory entry of HEAP_START_ADDR
    MaxPages,     \* pages asked for at once
    MaxGrants     \* runs held at once

ASSUME HookAssumption ==
    /\ HeapIndex \in (KernelIndex + 1) .. (Entries - 1)
    /\ MaxPages \in Nat \ {0} /\ MaxGrants \in Nat

VARIABLE granted

vars == <<mem, used, stopped, cur_directory, granted>>

HEAP_START == HeapIndex * Entries
HeapPage == HEAP_START .. (Entries * Entries - 1)
PagesOf(run) == run[1] .. (run[1] + run[2] - 1)

Init == VmmInit /\ granted = {}

Initialize == vmm_initialize /\ UNCHANGED granted

(* A page counts as free when its table is missing or its entry is not      *)
(* present; a run may cross from one table into the next.                   *)
PageFree(page) == Pde(Machine, page) = Zero \/ ~ Present(Pte(Machine, page))

(* Variant: the search starts at address 0. *)
FreeRunsFromZero(n) ==
    { p \in 0 .. (Entries * Entries - n) : \A q \in p .. (p + n - 1) : PageFree(q) }

FreeRuns(n) ==
    { p \in HeapPage : \A q \in p .. (p + n - 1) : q \in HeapPage /\ PageFree(q) }

(* Variant: what is mapped already is not looked at. *)
find_free_contiguous_pages_first(n) == HEAP_START

(* The first run of n free pages.  Behind the last page the code would look *)
(* on at address 0; that the heap fills the space behind HEAP_START is left *)
(* out (HasRoom).                                                           *)
HasRoom(n) == FreeRuns(n) # {}
find_free_contiguous_pages(n) == Min(FreeRuns(n))

(* One turn of the loop of liballoc_alloc: a frame, then its mapping. *)
MapNext(m, page) ==
    LET p == Min(FreeFrames(m))
    IN  vmm_mapPhysicalAddr([m EXCEPT !.used = @ \cup {p}], page, p,
                            I86_PTE_PRESENT + I86_PTE_WRITABLE)

(* The machine after i turns; a turn that finds no frame ends the loop and  *)
(* leaves what the turns before it did.                                     *)
AfterTurns(first, n) ==
    LET turn[i \in 0 .. n] ==
            IF i = 0 THEN Machine
            ELSE IF turn[i - 1].stopped \/ FreeFrames(turn[i - 1]) = {}
            THEN turn[i - 1]
            ELSE MapNext(turn[i - 1], first + i - 1)
    IN  turn

Running == cur_directory # 0 /\ ~ stopped

Complete(turn, n) == \A i \in 0 .. (n - 1) : FreeFrames(turn[i]) # {}

liballoc_alloc(n) ==
    LET first == find_free_contiguous_pages(n)
        turn  == AfterTurns(first, n)
    IN  /\ Running /\ Cardinality(granted) < MaxGrants /\ HasRoom(n)
        /\ Complete(turn, n)
        /\ Becomes(turn[n])
        /\ granted' = IF turn[n].stopped THEN granted
                      ELSE granted \cup {<<first, n>>}
        /\ UNCHANGED cur_directory

(* NULL: a turn found no frame. *)
liballoc_alloc_fails(n) ==
    LET turn == AfterTurns(find_free_contiguous_pages(n), n)
    IN  /\ Running /\ Cardinality(granted) < MaxGrants /\ HasRoom(n)
        /\ ~ Complete(turn, n)
        /\ Becomes(turn[n])
        /\ UNCHANGED <<granted, cur_directory>>

(* The machine after the loop of liballoc_free. *)
AfterUnmaps(first, n) ==
    LET turn[i \in 0 .. n] ==
            IF i = 0 THEN Machine
            ELSE vmm_unmapPhysicalAddr(turn[i - 1], first + i - 1)
    IN  turn[n]

liballoc_free(run) ==
    /\ Running
    /\ Becomes(AfterUnmaps(run[1], run[2]))
    /\ granted' = granted \ {run}
    /\ UNCHANGED cur_directory

Next ==
    \/ Initialize
    \/ \E n \in 1 .. MaxPages : liballoc_alloc(n)
    \/ \E n \in 1 .. MaxPages : liballoc_alloc_fails(n)
    \/ \E run \in granted : liballoc_free(run)

Spec == Init /\ [][Next]_vars

-----------------------------------------------------------------------------
(* Properties *)

TypeOK ==
    /\ mem \in [Frame -> [0 .. (Entries - 1) -> Word]]
    /\ used \subseteq Frame
    /\ stopped \in BOOLEAN
    /\ cur_directory \in Frame
    /\ granted \subseteq HeapPage \X (1 .. MaxPages)

Directory == mem[cur_directory]
Tables == { i \in 0 .. (Entries - 1) : Directory[i] # Zero }
TableFrames == { Directory[i].frame : i \in Tables }

(* The directory never shows a table whose frame went back to the pool, no  *)
(* two entries share a table, and no page of the heap maps a frame that     *)
(* holds a table or the directory: writing to the heap cannot rewrite the   *)
(* address space, in any order of allocations and frees.                    *)
TablesAreSound ==
    Running =>
        /\ TableFrames \cup {cur_directory} \subseteq used
        /\ Cardinality(TableFrames) = Cardinality(Tables)
        /\ \A run \in granted, page \in HeapPage :
              page \in PagesOf(run) /\ Mapped(Machine, page)
                => Pte(Machine, page).frame \notin TableFrames \cup {cur_directory}

(* The first table keeps mapping every frame below it to itself, and the    *)
(* kernel's entry its frames, although the memset for a new table runs past *)
(* that table: the kernel can still reach every page table it has.          *)
KernelStaysMapped ==
    Running =>
        /\ \A f \in Frame : f < Entries => Reachable(Machine, f)
        /\ \A i \in 0 .. (Entries - 1) :
              Pte(Machine, KernelIndex * Entries + i).frame = i

(* Unless it took the last frame, liballoc_alloc returns pages that were    *)
(* not mapped and now each map a frame of their own, new from the pool and  *)
(* outside its tables.                                                      *)
GrantIsFresh ==
    [][\A run \in granted' \ granted :
         used' # Frame =>
           /\ \A page \in PagesOf(run) :
                /\ ~ Mapped(Machine, page)
                /\ Mapped(Machine, page)'
                /\ Pte(Machine, page).frame' \notin used \cup TableFrames'
           /\ \A page, other \in PagesOf(run) :
                page # other => Pte(Machine, page).frame' # Pte(Machine, other).frame']_vars

(* vmm.c:170, "Unmap Physical address": freeing a run leaves the pages of   *)
(* every other run mapped.                                                  *)
FreeUnmapsItsPages ==
    [][\A run \in granted' :
         \A page \in PagesOf(run) :
            Mapped(Machine, page) => Mapped(Machine, page)']_vars
=============================================================================
