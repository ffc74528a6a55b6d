------------------------------- MODULE MCDisks -------------------------------
(***************************************************************************)
(* A small bus, and drives of a few sectors.                               *)
(***************************************************************************)
EXTENDS Disks, TLC

(* The bus: a bridge; a device whose function 1 is an IDE controller; one  *)
(* hidden behind a function 0 that is not there.  Two drives answer, one   *)
(* of them to 48-bit commands.  Then the tables their first sectors may    *)
(* hold: of the last one's partition the other drive does not reach the    *)
(* end.                                                                    *)
DeviceHeader(ide, type, multi, progIf) ==
  [present |-> TRUE, ide |-> ide, type |-> type, multi |-> multi, progIf |-> progIf,
   bars |-> <<<<"bar", 0>>, <<"bar", 2>>>>]
Gap == [DeviceHeader(FALSE, 0, FALSE, 0) EXCEPT !.present = FALSE]
MCBus == <<<<DeviceHeader(FALSE, 1, FALSE, 0)>>,
           <<DeviceHeader(FALSE, 0, TRUE, 0), DeviceHeader(TRUE, 0, FALSE, 136)>>,
           <<Gap, DeviceHeader(TRUE, 0, FALSE, 0)>>, <<>>>>
MCDrives == <<<<"legacy", 0>>, 0>> :> [kind |-> "ata", sectors |-> 7, lba48 |-> FALSE]
         @@ <<<<"legacy", 0>>, 1>> :> [kind |-> "ata", sectors |-> 5, lba48 |-> TRUE]
Part(start, size, type) == [start |-> start, size |-> size, type |-> type]
NoPart == Part(0, 0, 0)
MCTables == {[sign |-> FALSE, parts |-> <<NoPart, NoPart, NoPart, NoPart>>],
             [sign |-> TRUE, parts |-> <<NoPart, Part(1, 2, 1), NoPart, Part(4, 1, 13)>>],
             [sign |-> TRUE, parts |-> <<Part(1, 5, 13), NoPart, Part(2, 1, 0), NoPart>>]}

(* What the registers are made of is what they are taken apart into.       *)
ASSUME RegistersRoundTrip ==
  /\ \A cfg \in [idk : 0 .. 7, drv : 0 .. 1, lba : BOOLEAN] :
       Byte2DriveHeadCfg(DriveHeadCfg2Byte(cfg)) = cfg
  /\ \A a \in [lo : {0, 5, 15}, hi : {0, 3}] : Number2Lba(Lba2Number(a)) = a
  /\ \A e \in 0 .. 255 : e = FoldSet(LAMBDA k, sum : sum + 2^(k - 1), 0,
                                     {k \in 1 .. 8 : ErrorNames[k] \in WtfAtaErrors(e)})
=============================================================================
