------------------------------- MODULE MemoryMap -------------------------------
(***************************************************************************)
(* What the page bitmap starts from: its size, the loader's memory map     *)
(* (multiboot/multiboot_mmap.c) and the kernel's own pages                 *)
(* (memory/bitmap.c).  A bitmap is the set of its pages and those used; a  *)
(* map is a sequence of sections.                                          *)
(*                                                                         *)
(* init.c:51 gives bitmap_init the machine's memory in KiB where bytes are *)
(* expected, so that a bitmap has a 1024th of the machine's pages, and the *)
(* kernel's are not among them.                                            *)
(***************************************************************************)
EXTENDS Integers, Sequences, SequencesExt, FiniteSetsExt

CONSTANTS PageBytes,  \* page_size, 4096
          WordBits    \* the width of size_t, 32

MAX_MMAP_SCANNERS == 2
MB_MMAP_SCANNER_SIGNATURE == "0x01F6"
SizeT(n) == n % 2^WordBits
Ceiling(n, by) == (n + by - 1) \div by

(* bitmap_init refuses nothing to manage and pages that are no power of 2; *)
(* the last byte may have up to seven pages more than there are.           *)
BitmapInit(memory) ==
  IF memory = 0 \/ \A k \in 0 .. WordBits : PageBytes # 2^k
  THEN [ok |-> FALSE, pages |-> {}, used |-> {}, scanners |-> <<>>]
  ELSE [ok |-> TRUE, pages |-> 0 .. Ceiling(Ceiling(memory, PageBytes), 8) * 8 - 1, used |-> {},
        scanners |-> <<>>]
SetRange(b, start, len) == [b EXCEPT !.used = @ \cup (start .. start + len - 1 \cap b.pages)]
ClearRange(b, start, len) == [b EXCEPT !.used = @ \ (start .. start + len - 1)]

RegisterMmapScanner(b, scanner) ==
  IF Len(b.scanners) < MAX_MMAP_SCANNERS THEN [b EXCEPT !.scanners = Append(@, scanner)] ELSE b

(* A section from its first page on, as many pages as it has full ones;    *)
(* one of another type is passed over.                                     *)
Available == "AVAILABLE"
Marked == {"RESERVED", "ACPI_RECLAIMABLE", "NVS", "BADRAM"}
Section(b, section) ==
  LET start == SizeT(section.base) \div PageBytes
      len == SizeT(section.length) \div PageBytes
  IN  CASE section.type = Available -> ClearRange(b, start, len)
        [] section.type \in Marked -> SetRange(b, start, len)
        [] OTHER -> b
MultibootMmapScanner(b, info) ==
  IF info.signature # MB_MMAP_SCANNER_SIGNATURE THEN [bitmap |-> b, answer |-> FALSE]
  ELSE [bitmap |-> FoldLeft(Section, ClearRange(b, 0, Cardinality(b.pages)), info.sections),
        answer |-> TRUE]
BuildMmapInfo(sections) == [signature |-> MB_MMAP_SCANNER_SIGNATURE, sections |-> sections]

(* protect_bitmap begins a page behind the kernel's first.                 *)
ProtectBitmap(b, kernel) ==
  SetRange(b, kernel.start \div PageBytes + 1, (kernel.end - kernel.start) \div PageBytes + 1)
BitmapScanMmap(b, info, kernel) ==
  LET try(st, scanner) ==
        IF st.answer \/ scanner # "multiboot" THEN st ELSE MultibootMmapScanner(st.bitmap, info)
      end == FoldLeft(try, [bitmap |-> b, answer |-> FALSE], b.scanners)
  IN  [end EXCEPT !.bitmap = ProtectBitmap(@, kernel)]

(* kernel_init, of what the loader says.                                   *)
KernelInit(memUpper, sections, kernel) ==
  BitmapScanMmap(RegisterMmapScanner(BitmapInit(memUpper), "multiboot"), BuildMmapInfo(sections),
                 kernel)

-----------------------------------------------------------------------------
(* Maps of three sections with a gap; Beyond is one that a size_t does not *)
(* reach.                                                                  *)
Types == Marked \cup {Available, "unknown"}
Maps ==
  {<<[type |-> t[1], base |-> 0, length |-> PageBytes * n],
     [type |-> t[2], base |-> PageBytes * n, length |-> PageBytes * 2],
     [type |-> t[3], base |-> PageBytes * (n + 3), length |-> PageBytes * 4]>> :
   t \in [1 .. 3 -> Types], n \in 0 .. 3}
Inside(page, section) ==
  /\ section.base <= page * PageBytes
  /\ (page + 1) * PageBytes <= section.base + section.length

(* Of a map whose sections begin and end where pages do, exactly the pages *)
(* that are not available are marked, whatever the order of the sections,  *)
(* and the kernel's but the first (multiboot_mmap.c:5-47, bitmap.c:120).   *)
ASSUME MapMarked ==
  \A map \in Maps, end \in 0 .. 2 :
    LET kernel == [start |-> PageBytes * 8, end |-> PageBytes * 8 + (PageBytes * end) \div 2]
        marked(p) == \E k \in DOMAIN map : map[k].type \in Marked /\ Inside(p, map[k])
        b == KernelInit(PageBytes * 11, map, kernel).bitmap
        reversed == KernelInit(PageBytes * 11, Reverse(map), kernel).bitmap
    IN  /\ b = reversed /\ b.pages = 0 .. 15
        /\ b.used = {p \in b.pages : marked(p)} \cup 9 .. 9 + end \div 2

(* A section that is less than a page, or that begins inside one, leaves   *)
(* pages it has a part of as they were.                                    *)
ASSUME PartsForgotten ==
  \A base \in 0 .. PageBytes, length \in 1 .. PageBytes - 1 :
    Section(BitmapInit(PageBytes), [type |-> "RESERVED", base |-> base, length |-> length]).used = {}
(* A section behind what a size_t reaches is taken for one at its          *)
(* beginning: memory that is there frees what was reserved.                *)
Beyond == [type |-> Available, base |-> 2^WordBits, length |-> PageBytes * 2]
ASSUME BeyondTakenForLow ==
  Section(SetRange(BitmapInit(PageBytes * 4), 0, 4), Beyond).used = {2, 3}
=============================================================================
