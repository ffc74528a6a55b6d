-------------------------------- MODULE Disks --------------------------------
(***************************************************************************)
(* From the PCI bus to a partition's sectors: sweepPCI (pci/pci.c) finds   *)
(* the IDE controllers, registerAtaUnit (disk/disk_manager.c) makes four   *)
(* disks of each, partition_mng.c and mbr.c list their partitions, and     *)
(* partitions.c, diski.c and ata.c carry sectors to and from them.         *)
(* What the drives do with their registers is external.                    *)
(***************************************************************************)
EXTENDS Integers, Sequences, SequencesExt, FiniteSetsExt, Bits

CONSTANTS Bus,       \* the bus: of each slot, its functions' headers
          Drives,    \* what is plugged in: the ports it answers at -> drive
          Tables,    \* what a first sector may hold
          Capacity,  \* partitions there is memory for, 128
          CountBits, \* width of the count one command takes, 8
          CallBits,  \* width of the count one call takes, 16
          AddrBits,  \* bits of a sector's number that reach a drive, 27
          MaxSectors \* bound: how many are asked for at once

Headers == UNION {ToSet(Bus[s]) : s \in DOMAIN Bus}
ASSUME DiskConstants ==
  /\ {2^CountBits, 2^CallBits, 2^AddrBits} \subseteq Nat \ {0}
  /\ MaxSectors \in Nat /\ Capacity \in Nat
  /\ Bus \in Seq(Seq(Headers))
  /\ \A at \in DOMAIN Drives : Drives[at].sectors \in Nat
  /\ \A t \in Tables : /\ t.sign \in BOOLEAN
                       /\ t.parts \in Seq([start : Nat, size : Nat, type : Nat])

VARIABLES boot,      \* how far kernel_init has come
          units,     \* system_disks
          partitions,\* kpartition_manager.partitions
          firsts,    \* the first sector of each drive
          had,       \* history: all that it has been since the start
          wrote,     \* the sectors of drives the last step wrote
          stopped    \* "no", or why nothing more is said
diskVars == <<boot, units, partitions, firsts, had, wrote, stopped>>

-----------------------------------------------------------------------------
(* Registers.  Bit 3 of a head number is in neither direction.             *)
Bit(n, k) == (n \div 2^k) % 2
DriveHeadCfg2Byte(cfg) == 160 + (cfg.idk & 7) + 16 * Bit(cfg.drv, 0) + (IF cfg.lba THEN 64 ELSE 0)
Byte2DriveHeadCfg(byte) == [idk |-> byte & 7, drv |-> Bit(byte, 4), lba |-> Bit(byte, 6) = 1]
ErrorNames == <<"amnf", "tkznf", "abrt", "mcr", "idnf", "mc", "unc", "bbk">>
WtfAtaErrors(errOut) == {ErrorNames[k] : k \in {i \in 1 .. 8 : Bit(errOut, i - 1) = 1}}

(* Assembling and splitting a sector's number: 48 bits of it.              *)
Lba2Number(a) == a.lo + a.hi * 2^CallBits * 2^CallBits
Number2Lba(n) == LET word == 2^CallBits
                 IN  [lo |-> n % (word * word), hi |-> (n \div (word * word)) % word]

-----------------------------------------------------------------------------
(* The sweep: functions 1 to 7 are asked only where function 0 says so.    *)
Parsed(header) == header.present /\ header.type = 0 /\ header.ide
Asked(slot) ==
  IF slot = <<>> \/ ~slot[1].present THEN <<>>
  ELSE IF slot[1].multi THEN slot ELSE <<slot[1]>>
(* The ports of a unit, from the bits of prog_if this channel is looked up *)
(* by: those above the ones that name its mode.                            *)
IsNative(header, channel) == Bit(header.progIf, channel + 2) = 1
Ports(header, channel) ==
  IF IsNative(header, channel) THEN header.bars[channel + 1] ELSE <<"legacy", channel>>
UnitsOf(header) ==
  [k \in 1 .. 4 |-> <<Ports(header, (k - 1) \div 2), (k - 1) % 2>>]

(* Slot after slot, and function after function: the disks made of them.   *)
Swept(list, k) ==
  LET asked == Asked(Bus[((k - 1) \div 8) + 1])
      f == ((k - 1) % 8) + 1
  IN  IF f \in DOMAIN asked /\ Parsed(asked[f]) THEN list \o UnitsOf(asked[f]) ELSE list
Detected ==
  LET upTo[k \in 0 .. 8 * Len(Bus)] == IF k = 0 THEN <<>> ELSE Swept(upTo[k - 1], k)
  IN  upTo[8 * Len(Bus)]

Absent == [kind |-> "absent", sectors |-> 0, lba48 |-> FALSE]
DriveAt(unit) == IF unit.at \in DOMAIN Drives THEN Drives[unit.at] ELSE Absent

(* ata_identify_device: what it answers is not looked at, but a drive that *)
(* never asks to be read from nor fails keeps it waiting.                  *)
Identify(drive) ==
  CASE drive.kind = "ata" -> "yes"
    [] drive.kind = "mute" -> "endless"
    [] OTHER -> "no"

-----------------------------------------------------------------------------
(* A call: how many sectors it carries, and whether it comes back.         *)
(* ataCommon writes the count of a 28-bit command to the wrong port; the   *)
(* reset before it left the count at 1.                                    *)
Carried(unit, n) ==
  LET call == n % 2^CallBits
  IN  IF unit.lba48 THEN call ELSE Min({1, call % 2^CountBits})
ComesBack(unit, n) == n < (IF unit.lba48 THEN 2^CallBits ELSE 2^CountBits)
Folded(unit, lba) == IF unit.lba48 THEN lba ELSE lba % 2^AddrBits
(* The sectors of drives that a transfer touches: a drive without 48-bit   *)
(* commands refuses them.                                                  *)
Touched(unit, lba, n) ==
  LET drive == DriveAt(unit)
  IN  IF drive.kind # "ata" \/ (unit.lba48 /\ ~drive.lba48) THEN {}
      ELSE {<<unit.at, s>> : s \in {Folded(unit, lba) + k : k \in 0 .. Carried(unit, n) - 1}
                                     \cap 0 .. drive.sectors - 1}

(* The first sector, as one that reads it sees it.                         *)
NoTable == [sign |-> FALSE, parts |-> <<>>]
ReadFirst(unit) == IF Touched(unit, 0, 1) = {} THEN NoTable ELSE firsts[unit.at]

(* mbr_detect_partitions.                                                  *)
Found(list, d, p) ==
  IF p.start > 0 /\ p.type # 0
  THEN Append(list, [disk |-> d, id |-> Len(list), start |-> p.start, total |-> p.size])
  ELSE list
Listed(d, table) ==
  LET upTo[k \in 0 .. Len(table.parts)] ==
        IF k = 0 THEN <<>> ELSE Found(upTo[k - 1], d, table.parts[k])
  IN  upTo[Len(table.parts)]
(* partitionManagerScanDisk, disk after disk.                              *)
Scanned(list, d) ==
  LET table == ReadFirst(units[d])
      found == Listed(d, table)
  IN  IF table.sign /\ Len(list) + Len(found) <= Capacity THEN list \o found ELSE list

-----------------------------------------------------------------------------
Going == stopped = "no"

SweepPCI ==
  /\ Going /\ boot = "sweepPCI"
  /\ \E lba48 \in BOOLEAN :
       units' = [k \in DOMAIN Detected |-> [at |-> Detected[k], lba48 |-> lba48]]
  /\ boot' = "scan"
  /\ stopped' = IF \E k \in DOMAIN units' : Identify(DriveAt(units'[k])) = "endless"
                THEN "identify" ELSE "no"
  /\ UNCHANGED <<partitions, firsts, had, wrote>>

(* init_disk_subsystem and scanByDetectedDisks.                            *)
Scan ==
  /\ Going /\ boot = "scan"
  /\ partitions' =
       LET upTo[d \in 0 .. Len(units)] == IF d = 0 THEN <<>> ELSE Scanned(upTo[d - 1], d)
       IN  upTo[Len(units)]
  /\ boot' = "up"
  /\ UNCHANGED <<units, firsts, had, wrote, stopped>>

(* A slip: one sector too many.                                            *)
FitsBut(p, where, n) == where + n <= p.total + 1
(* readPartition and writePartition refuse what ends behind the partition. *)
Fits(p, where, n) == where + n <= p.total

ReadPartition(k, where, n) ==
  LET p == partitions[k]
  IN  /\ Going /\ boot = "up"
      /\ Fits(p, where, n)
      /\ wrote' = {}
      /\ stopped' = IF ComesBack(units[p.disk], n) THEN "no" ELSE "endless"
      /\ UNCHANGED <<boot, units, partitions, firsts, had>>

(* What a drive's first sector is, it has been.                            *)
Remembered == had' = [at \in DOMAIN firsts |-> had[at] \cup {firsts'[at]}]

(* A number that is folded may come out as the first sector's: that then   *)
(* holds whatever was in the buffer.                                       *)
WritePartition(k, where, n) ==
  LET p == partitions[k]
  IN  /\ Going /\ boot = "up"
      /\ Fits(p, where, n)
      /\ wrote' = Touched(units[p.disk], p.start + where, n)
      /\ stopped' = IF ComesBack(units[p.disk], n) THEN "no" ELSE "endless"
      /\ firsts' \in {[at \in DOMAIN firsts |-> IF <<at, 0>> \in wrote' THEN table ELSE firsts[at]] :
                       table \in Tables}
      /\ Remembered
      /\ UNCHANGED <<boot, units, partitions>>

(* remountPartitions: the disk's entries and the one behind them are       *)
(* written over, from lists that do not exist but for the very first; what *)
(* lies behind the list's end is taken for no entry of the disk.           *)
Remounted(d, table) ==
  LET mine == {k \in DOMAIN partitions : partitions[k].disk = d}
      from == Min(mine)
      past == Min({k \in from + 1 .. Len(partitions) + 1 :
                     k = Len(partitions) + 1 \/ partitions[k].disk # d})
      found == Listed(d, table)
      written == {k \in from .. past : k <= Len(found)}
  IN  IF mine = {} \/ ~table.sign \/ written = {} THEN [list |-> partitions, wild |-> FALSE]
      ELSE IF written = {1} THEN [list |-> [partitions EXCEPT ![1] = found[1]], wild |-> FALSE]
      ELSE [list |-> partitions, wild |-> TRUE]

(* formatMBRreload: a new table, and what the list then says.              *)
FormatMBRreload(d, table) ==
  /\ Going /\ boot = "up"
  /\ wrote' = {}
  /\ firsts' = IF Touched(units[d], 0, 1) = {} THEN firsts ELSE [firsts EXCEPT ![units[d].at] = table]
  /\ Remembered
  /\ LET new == Remounted(d, IF firsts' = firsts THEN ReadFirst(units[d]) ELSE table)
     IN  /\ partitions' = new.list
         /\ stopped' = IF new.wild THEN "remount" ELSE "no"
  /\ UNCHANGED <<boot, units>>

diskInit == /\ boot = "sweepPCI"
            /\ units = <<>>
            /\ partitions = <<>>
            /\ firsts \in [DOMAIN Drives -> Tables]
            /\ had = [at \in DOMAIN Drives |-> {firsts[at]}]
            /\ wrote = {}
            /\ stopped = "no"
diskNext ==
  \/ SweepPCI
  \/ Scan
  \/ \E k \in DOMAIN partitions, where, n \in 0 .. MaxSectors :
       ReadPartition(k, where, n) \/ WritePartition(k, where, n)
  \/ \E d \in DOMAIN units, table \in Tables : FormatMBRreload(d, table)

-----------------------------------------------------------------------------
(* The sectors that a table of this very drive put into a partition.       *)
Described(at) ==
  UNION {UNION {{p.start + k : k \in 0 .. p.size - 1} : p \in {q \in ToSet(t.parts) : q.start > 0}} :
           t \in {x \in had[at] : x.sign}}
Sectors(p) == p.start .. p.start + p.total - 1

(* Whatever was registered, scanned and remounted before, what is written  *)
(* (partitions.c:25-38) is a sector of one listed partition of that drive, *)
(* which the drive's own table described (mbr.c:68-86): the one it has, or *)
(* of a drive that was reformatted also one it had, whose entries may stay *)
(* listed (partition_mng.c:49-74).  Without 48-bit commands it is where    *)
(* the sector's number leads, which loses what does not fit (ata.c:232).   *)
InsidePartitions ==
  \A s \in wrote :
    \E k \in DOMAIN partitions :
      LET unit == units[partitions[k].disk]
      IN  /\ unit.at = s[1]
          /\ \E lba \in Sectors(partitions[k]) \cap Described(s[1]) : s[2] = Folded(unit, lba)
=============================================================================
