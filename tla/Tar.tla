---------------------------------- MODULE Tar ----------------------------------
(***************************************************************************)
(* Archives (tar/tar.c): one in memory that is listed, and one that is     *)
(* made.  A header is what the code reads and writes of it: the name and   *)
(* the octal numbers, whose characters are digits; END stands for the NUL  *)
(* behind them, and a byte nobody wrote is a digit as well.                *)
(*                                                                         *)
(* What is made here is not listed here: endTarFile ends it with zeros and *)
(* scanTarFile looks for a '\n', and int2oct writes each number a place    *)
(* too far to the right, over its own NUL.                                 *)
(***************************************************************************)
EXTENDS LibStrings

CONSTANT SizeBits \* the width of size_t, 32

TAR_BLOCK_SIZE == 512
TAR_START_SIZE == 4096
END == "END"
RoundToBlocks(n) == ((n + TAR_BLOCK_SIZE - 1) \div TAR_BLOCK_SIZE) * TAR_BLOCK_SIZE

(* A number is multiplied once more than it has digits, and divided back.  *)
Oct2int(chain) ==
  FoldLeft(LAMBDA size, d : ((size + d) * 8) % 2^SizeBits, 0, Front(chain)) \div 8
Int2oct(chain, n) ==
  [i \in DOMAIN chain |-> IF i = 1 THEN chain[1] ELSE (n \div 8^(Len(chain) - i)) % 8]

(* scanTarFile: memory says what header an address holds, and whether it   *)
(* is the '\n'; what is read where there is none is not followed.          *)
EntryAtBlock(base, header) ==
  [base |-> base, size |-> Oct2int(header.size), uid |-> Oct2int(header.uid),
   gid |-> Oct2int(header.gid)]
ScanTarFile(memory, start) ==
  LET from[n \in 0 .. Cardinality(DOMAIN memory), p \in Nat] ==
        CASE p \notin DOMAIN memory -> [entries |-> <<>>, end |-> "wild"]
          [] memory[p].newline -> [entries |-> <<>>, end |-> "end"]
          [] OTHER ->
               LET entry == EntryAtBlock(p, memory[p])
                   others == from[n - 1, p + RoundToBlocks(entry.size) + TAR_BLOCK_SIZE]
               IN  [others EXCEPT !.entries = <<entry>> \o @]
  IN  from[Cardinality(DOMAIN memory), start]

(* findTarFile: a header begins with the name.                             *)
FindTarFile(memory, entries, name) ==
  SelectInSeq(entries, LAMBDA e : memory[e.base].name = name)

-----------------------------------------------------------------------------
(* An archive that is made: room is what its memory has, cap what it is    *)
(* said to have, and top how far the last call wrote.                      *)
InitTarFile ==
  [headers |-> <<>>, size |-> 0, cap |-> TAR_START_SIZE, room |-> TAR_START_SIZE, top |-> 0]
Header(tar, memory, file) ==
  [name |-> file.name, mode |-> Int2oct(memory.mode, file.mode), uid |-> Int2oct(memory.uid, file.uid),
   gid |-> Int2oct(memory.gid, file.gid), size |-> Int2oct(memory.size, file.size),
   mtime |-> Int2oct(memory.mtime, file.mtime), at |-> tar.size]
AppendTarFile(tar, memory, file) ==
  LET need == tar.size + file.size + TAR_BLOCK_SIZE
      grown == IF need >= tar.cap THEN [tar EXCEPT !.cap = need, !.room = need] ELSE tar
  IN  [grown EXCEPT !.headers = Append(@, Header(tar, memory, file)),
                    !.size = @ + TAR_BLOCK_SIZE + RoundToBlocks(file.size),
                    !.top = need]
EndTarFile(tar) ==
  LET end == tar.size + 2 * TAR_BLOCK_SIZE
      grown == IF end >= tar.cap THEN [tar EXCEPT !.cap = @ + 2 * TAR_BLOCK_SIZE, !.room = end] ELSE tar
  IN  [grown EXCEPT !.size = end, !.top = end]

-----------------------------------------------------------------------------
(* An archive as others make them, one header for each file.               *)
Octal(n, len) == [i \in 1 .. len |-> IF i = len THEN END ELSE (n \div 8^(len - 1 - i)) % 8]
FileSizes == {0, 1, 200, 511, 512, 513}
Listing == UNION {[1 .. n -> FileSizes] : n \in 0 .. 3}
Starts(sizes) ==
  [k \in 1 .. Len(sizes) + 1 |->
    FoldLeft(LAMBDA p, size : p + TAR_BLOCK_SIZE + RoundToBlocks(size), 0, SubSeq(sizes, 1, k - 1))]
Archive(sizes) ==
  LET at == Starts(sizes)
  IN  [p \in ToSet(at) |->
        LET k == SelectInSeq(at, LAMBDA a : a = p)
        IN  IF k > Len(sizes) THEN [newline |-> TRUE]
            ELSE [newline |-> FALSE, name |-> k, uid |-> Octal(k, 4), gid |-> Octal(0, 4), size |-> Octal(sizes[k], 5)]]
Garbage == [mode |-> <<0, 0, 0>>, uid |-> <<0, 0, 0>>, gid |-> <<0, 0, 0>>,
            size |-> <<7, 0, 0, 0, 0>>, mtime |-> <<0, 0, 0>>]

(* Every file of an archive is listed, where it is and as long as it is,   *)
(* and found by its name (tar.c:31-65, 114-124).                           *)
ASSUME ArchivesListed ==
  \A sizes \in Listing :
    LET memory == Archive(sizes)
        scan == ScanTarFile(memory, 0)
    IN  /\ scan.end = "end"
        /\ [k \in DOMAIN scan.entries |-> scan.entries[k].size] = sizes
        /\ \A k \in DOMAIN sizes :
             /\ scan.entries[k].base = Starts(sizes)[k] /\ scan.entries[k].uid = k
             /\ FindTarFile(memory, scan.entries, k) = k

(* Whatever is appended, nothing is written behind the memory there is,    *)
(* the archive's end included (tar.c:76-112).                              *)
ArchiveOf(sizes) ==
  FoldLeft(LAMBDA tar, size :
             AppendTarFile(tar, Garbage, [name |-> "f", mode |-> 0, uid |-> 1, gid |-> 1,
                                          size |-> size, mtime |-> 0]), InitTarFile, sizes)
ASSUME ArchiveFits ==
  \A sizes \in UNION {[1 .. n -> {0, 200, 511, 3584, 3585}] : n \in 0 .. 4} :
    LET tar == ArchiveOf(sizes)
        end == EndTarFile(tar)
    IN  tar.top <= tar.room /\ end.top <= end.room /\ \A k \in 1 .. Len(sizes) : tar.headers[k].at % 512 = 0

(* What int2oct wrote is read back as an eighth of it, below what the      *)
(* first byte held.                                                        *)
ASSUME NumbersShifted ==
  \A n \in 0 .. 4095 : Oct2int(Int2oct(<<3, 0, 0, 0, 0>>, n)) = 3 * 512 + n \div 8
=============================================================================
