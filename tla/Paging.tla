-------------------------------- MODULE Paging --------------------------------
(***************************************************************************)
(* Page tables (paging/paging32.c) beside whoever else takes pages from    *)
(* the bitmap and writes them.  Tables lie in the pages they are given; a  *)
(* page that is an address is its number, and a virtual page a pair of an  *)
(* index into the directory and one into a table.                          *)
(*                                                                         *)
(* Page 0 and no page at all are the same answer of bitmap_alloc: either   *)
(* way the table is the one at address 0, with whatever lies there.  The   *)
(* directory is kept apart from the pages: that create_page_directory32    *)
(* may be answered the same (paging32.c:33-38), and the directory then lie *)
(* at address 0 with the tables, is left out.                              *)
(***************************************************************************)
EXTENDS Integers, FiniteSetsExt

CONSTANTS NumFrames, \* pages the bitmap has
          Indices,   \* of a directory and of a table, 0 .. 1023
          FlagSets   \* what p32_flags_t may grant

ASSUME PagingConstants ==
  /\ NumFrames \in Nat \ {0}
  /\ IsFiniteSet(Indices) /\ Indices # {} /\ Indices = 0 .. Cardinality(Indices) - 1

VARIABLE mmu \* [used, dir, memory]: pages marked, entries, what pages hold

Frames == 0 .. NumFrames - 1
Absent32 == [present |-> FALSE, frame |-> 0, flags |-> {}]
(* fill_pte32 and fill_pde32.                                              *)
Entry32(frame, flags) == [present |-> TRUE, frame |-> frame, flags |-> flags]
ZeroPage == [i \in Indices |-> Absent32]
Writes == [i \in Indices |-> Entry32(NumFrames - 1, {})]

(* bitmap_alloc.  A slip: the page is not marked.                          *)
TakenUnmarked(m) ==
  [mmu |-> m, page |-> IF Frames \subseteq m.used THEN 0 ELSE Min(Frames \ m.used)]
Taken(m) ==
  IF Frames \subseteq m.used THEN [mmu |-> m, page |-> 0]
  ELSE [mmu |-> [m EXCEPT !.used = @ \cup {Min(Frames \ m.used)}], page |-> Min(Frames \ m.used)]

(* create_page_table32, create_page_directory32.                           *)
Created(m) ==
  LET new == Taken(m)
  IN  IF new.page = 0 THEN new ELSE [new EXCEPT !.mmu.memory[new.page] = ZeroPage]

(* map_page32: what is there stays as it is.                               *)
Mapped(m, v, frame, flags) ==
  LET new == Created(m)
      dir == IF m.dir[v[1]].present THEN m
             ELSE [new.mmu EXCEPT !.dir[v[1]] = Entry32(new.page, flags)]
      table == dir.dir[v[1]].frame
  IN  IF dir.memory[table][v[2]].present THEN dir
      ELSE [dir EXCEPT !.memory[table][v[2]] = Entry32(frame, flags)]

MapPage(v, frame, flags) == mmu' = Mapped(mmu, v, frame, flags)

(* identity_mapping32                                                      *)
Virtual(frame) ==
  LET n == Cardinality(Indices) IN <<(frame \div n) % n, frame % n>>
IdentityMapping(flags) ==
  LET upTo[n \in 0 .. NumFrames] ==
        IF n = 0 THEN mmu ELSE Mapped(upTo[n - 1], Virtual(n - 1), n - 1, flags)
  IN  mmu' = upTo[NumFrames]

(* Another caller of bitmap_alloc writes the page it was given.            *)
Used == LET new == Taken(mmu)
        IN  new.page # 0 /\ mmu' = [new.mmu EXCEPT !.memory[new.page] = Writes]

pagingInit ==
  \E reserved \in SUBSET Frames, low \in {ZeroPage, Writes} :
    mmu = [used |-> reserved, dir |-> ZeroPage, memory |-> [p \in Frames |-> IF p = 0 THEN low ELSE ZeroPage]]
pagingNext ==
  \/ \E v \in Indices \X Indices, frame \in Frames, flags \in FlagSets : MapPage(v, frame, flags)
  \/ \E flags \in FlagSets : IdentityMapping(flags)
  \/ Used

-----------------------------------------------------------------------------
(* What the processor makes of a virtual page: where it lies, and what may *)
(* be done there.                                                          *)
Walk(m, v) ==
  LET entry == m.memory[m.dir[v[1]].frame][v[2]]
  IN  IF ~m.dir[v[1]].present \/ ~entry.present THEN Absent32
      ELSE [entry EXCEPT !.flags = @ \cap m.dir[v[1]].flags]

(* A page that is mapped, by a table that is not the one at address 0,     *)
(* stays mapped to where it was, with the rights it had, whatever else is  *)
(* mapped and whoever takes and writes pages (paging32.c:47-78).           *)
TranslationsKeptStep ==
  \A v \in Indices \X Indices :
    mmu.dir[v[1]].frame # 0 /\ Walk(mmu, v).present => Walk(mmu', v) = Walk(mmu, v)
TranslationsKept == [][TranslationsKeptStep]_mmu
=============================================================================
