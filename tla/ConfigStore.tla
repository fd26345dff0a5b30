---------------------------- MODULE ConfigStore ----------------------------
(***************************************************************************)
(* The configuration's way into the board: the TFTP server (W5500 build)   *)
(* writes an upload into one flash sector, the main loop verifies it and   *)
(* copies it to another, reboots, and the constructor reads it back.       *)
(* Packets may be lost, repeated or delayed, a host may give up an upload  *)
(* and start again, and the power may fail between any two steps.          *)
(*                                                                         *)
(* A file is its sequence of 512-byte blocks, the first of which is the    *)
(* metadata; the copy goes by blocks where the code goes by bytes.  The    *)
(* CRC tells an intact file from anything else.  The file system calls and *)
(* the SD card, which this build leaves out, are not modelled; nor is an   *)
(* erase that the power cuts short.                                        *)
(*                                                                         *)
(* A definition named XMut is X with a plausible slip, kept beside X: some *)
(* property checked by the runs rejects it.                                *)
(***************************************************************************)
EXTENDS Integers

CONSTANTS
  Files,           (* the configuration files hosts upload                *)
  NoFile, Mixed,   (* no document; a document that is no intact file      *)
  Blocks,          (* blocks of a file that carry data, metadata included *)
  Last,            (* the packet that ends its transfer: the last block,  *)
                   (* or an empty one after it when that block is full    *)
  Conns,           (* UDP control blocks left for uploads:                *)
                   (* MEMP_NUM_UDP_PCB less the two bound at start        *)
  Slots,           (* blocks in a sector                                  *)
  MaxPowerLoss     (* bound: how often the power fails                    *)

ASSUME StoreAssumption ==
  /\ {NoFile, Mixed} \cap Files = {}
  /\ NoFile # Mixed
  /\ "none" \notin Conns
  /\ Slots \in Nat /\ MaxPowerLoss \in Nat
  /\ Blocks \in [Files -> 2 .. Slots]
  /\ Last \in [Files -> Nat]
  /\ \A f \in Files : Last[f] \in {Blocks[f], Blocks[f] + 1}

VARIABLES
  upload,          (* the upload sector                                   *)
  writeSlot,       (* Flash_Write_Address, one for all connections        *)
  conns,           (* tftp_connection_args of each connection, and the    *)
                   (* file its host is sending                            *)
  newFlashJson,    (* JsonConfigHandler::new_flash_json                   *)
  storageLen,      (* the length at the head of the storage sector        *)
  storage,         (* the blocks behind it                                *)
  pc,              (* where the main program is                           *)
  copied,          (* i of store_json_in_flash                            *)
  status,          (* remoraStatus: "ok", "default" or "fatal"            *)
  running,         (* the document whose modules were loaded              *)
  powerLosses,
  sole,            (* history: the connection opened last, while nothing  *)
                   (* but its file was written since                      *)
  delivered,       (* history: a file received whole over such a one      *)
  interrupted      (* history: a copy to storage was cut short            *)

flash   == <<upload, storageLen, storage>>
tftp    == <<writeSlot, conns, newFlashJson>>
boot    == <<status, running>>
history == <<sole, delivered, interrupted>>
vars == <<flash, tftp, pc, copied, boot, powerLosses, history>>

Block(f, n) == [file |-> f, block |-> n]
Erased == Block(NoFile, 0)
Junk   == Block(NoFile, 1)
Blank  == [n \in 1 .. Slots |-> Erased]
Empty  == -1
Closed == [open |-> FALSE, file |-> NoFile, block |-> 0]
NoConn == [c \in Conns |-> Closed]

Init ==
  /\ upload = Blank /\ storageLen = Empty /\ storage = Blank
  /\ writeSlot = 1 /\ conns = NoConn /\ newFlashJson = FALSE
  /\ pc = "boot" /\ copied = 0
  /\ status = "ok" /\ running = NoFile
  /\ powerLosses = 0
  /\ sole = "none" /\ delivered = NoFile /\ interrupted = FALSE

-----------------------------------------------------------------------------
(* The TFTP server, called from comms->tasks().  One packet comes up in a  *)
(* pass, and the pass begins by looking at the flag: the server runs only  *)
(* with the flag down, or when a fatal status keeps the loop from looking. *)

Serving == pc = "loop" /\ (newFlashJson => status = "fatal")

(* A write request opens a connection of its own, erases the sector and    *)
(* starts again at its beginning; connections open already live on.  With  *)
(* no control block left it is dropped.                                    *)
ProcessWriteMut(c, f) ==
  /\ conns' = [conns EXCEPT ![c] = [open |-> TRUE, file |-> f, block |-> 0]]
  /\ upload' = Blank
  /\ writeSlot' = writeSlot
  /\ sole' = c
  /\ delivered' = NoFile

ProcessWrite(c, f) ==
  /\ conns' = [conns EXCEPT ![c] = [open |-> TRUE, file |-> f, block |-> 0]]
  /\ upload' = Blank
  /\ writeSlot' = 1
  /\ sole' = c
  /\ delivered' = NoFile

TftpRecvCallback ==
  /\ Serving
  /\ \E c \in Conns, f \in Files : ~conns[c].open /\ ProcessWrite(c, f)
  /\ UNCHANGED <<storageLen, storage, newFlashJson, pc, copied, boot, powerLosses, interrupted>>

(* What a connection may get: any block of its file up to the one after    *)
(* the last acknowledged, and the error packet of a host that gives up,    *)
(* which the server takes for data, its code for a block number.           *)
NoData == Block(NoFile, 2)

Packets(c) ==
  LET f == conns[c].file
  IN  {[block |-> n, data |-> IF n > Blocks[f] THEN NoData ELSE Block(f, n),
        short |-> n = Last[f]] : n \in 1 .. conns[c].block + 1}
        \cup {[block |-> code, data |-> Junk, short |-> TRUE] :
              code \in {0, conns[c].block + 1}}

(* Data in sequence is written, or spoilt when the flash refuses it.  The  *)
(* area is as large as what the connections can send between two requests, *)
(* so the guard on writeSlot only bounds the model.                        *)
FlashWrite(c, p) ==
  \E content \in {p.data, Junk} :
    /\ writeSlot <= Slots
    /\ upload' = [upload EXCEPT ![writeSlot] = content]
    /\ writeSlot' = writeSlot + 1
    /\ sole' = IF sole = c /\ content # Junk THEN c ELSE "none"

(* A short packet ends the transfer, whatever its block number.            *)
WrqRecvCallback(c, p) ==
  LET expected == p.block = conns[c].block + 1
      block == IF expected THEN p.block ELSE conns[c].block
  IN  /\ Serving
      /\ IF expected /\ p.data # NoData
         THEN FlashWrite(c, p)
         ELSE UNCHANGED <<upload, writeSlot, sole>>
      /\ conns' = [conns EXCEPT
           ![c] = IF p.short THEN Closed ELSE [@ EXCEPT !.block = block]]
      /\ newFlashJson' = (p.short \/ newFlashJson)
      /\ delivered' = IF /\ expected /\ p.short /\ p.data # Junk
                         /\ sole' = c /\ status # "fatal"
                      THEN conns[c].file ELSE delivered
      /\ UNCHANGED <<storageLen, storage, pc, copied, boot, powerLosses, interrupted>>

Receive ==
  \E c \in Conns : conns[c].open /\ \E p \in Packets(c) : WrqRecvCallback(c, p)

-----------------------------------------------------------------------------
(* The main loop: verify, copy, reboot.                                    *)

Header == upload[1].file

IntactUpload(f) == \A n \in 1 .. Blocks[f] : upload[n] = Block(f, n)

CheckLengthAndCRCMut == \E f \in Files : upload[1] = Block(f, 1)

CheckLengthAndCRC == \E f \in Files : IntactUpload(f)

CheckConfig ==
  /\ pc = "loop" /\ newFlashJson /\ status # "fatal"
  /\ newFlashJson' = FALSE
  /\ pc' = IF CheckLengthAndCRC THEN "erase" ELSE "loop"
  /\ UNCHANGED <<flash, writeSlot, conns, copied, boot, powerLosses, history>>

EraseStorage ==
  /\ pc = "erase"
  /\ storageLen' = Empty /\ storage' = Blank
  /\ pc' = "length"
  /\ UNCHANGED <<upload, tftp, copied, boot, powerLosses, history>>

JsonLengthMut == Blocks[Header]

JsonLength == Blocks[Header] - 1

(* A write that fails ends the copy without a word.                        *)
FlashFailure ==
  /\ pc' = "reboot"
  /\ interrupted' = TRUE /\ delivered' = NoFile
  /\ UNCHANGED <<storageLen, storage, copied>>

StoreLength ==
  /\ pc = "length"
  /\ \/ /\ storageLen' = JsonLength
        /\ copied' = 0
        /\ pc' = "copy"
        /\ UNCHANGED <<storage, delivered, interrupted>>
     \/ FlashFailure
  /\ UNCHANGED <<upload, tftp, boot, powerLosses, sole>>

(* The data starts behind the metadata.                                    *)
SourceMut(i) == upload[i]

Source(i) == upload[i + 1]

MoreToCopyMut == copied + 1 < JsonLength

MoreToCopy == copied < JsonLength

StoreBlock ==
  /\ pc = "copy" /\ MoreToCopy
  /\ \/ /\ storage' = [storage EXCEPT ![copied + 1] = Source(copied + 1)]
        /\ copied' = copied + 1
        /\ UNCHANGED <<storageLen, pc, delivered, interrupted>>
     \/ FlashFailure
  /\ UNCHANGED <<upload, tftp, boot, powerLosses, sole>>

StoreDone ==
  /\ pc = "copy" /\ ~MoreToCopy
  /\ pc' = "reboot"
  /\ UNCHANGED <<flash, tftp, copied, boot, powerLosses, history>>

(* What a restart leaves: the flash.                                       *)
Restart ==
  /\ pc' = "boot"
  /\ writeSlot' = 1 /\ conns' = NoConn /\ newFlashJson' = FALSE
  /\ copied' = 0 /\ status' = "ok" /\ running' = NoFile
  /\ sole' = "none"
  /\ UNCHANGED flash

Reboot ==
  /\ pc = "reboot"
  /\ Restart
  /\ UNCHANGED <<powerLosses, delivered, interrupted>>

PowerLoss ==
  /\ pc # "boot" /\ powerLosses < MaxPowerLoss
  /\ Restart
  /\ powerLosses' = powerLosses + 1
  /\ interrupted' = (interrupted \/ pc \in {"length", "copy"})
  /\ delivered' = NoFile

-----------------------------------------------------------------------------
(* The constructor: read the stored length, copy the text, parse it.       *)

StoredIs(f) ==
  /\ storageLen = Blocks[f] - 1
  /\ \A n \in 1 .. storageLen : storage[n] = Block(f, n + 1)

(* The parser takes an intact text, refuses one that breaks off, and may   *)
(* or may not take a mixture.                                              *)
ParseJson ==
  LET intact == {f \in Files : StoredIs(f)}
  IN  IF intact # {} THEN intact
      ELSE IF storage[storageLen] = Erased THEN {NoFile} ELSE {NoFile, Mixed}

(* With the storage erased the default's text is fetched, but the status   *)
(* that says so is not zero, and loadConfiguration leaves before parsing   *)
(* it.                                                                     *)
BootEmpty ==
  /\ pc = "boot" /\ storageLen = Empty
  /\ status' = "default" /\ running' = NoFile
  /\ pc' = "loop"
  /\ UNCHANGED <<flash, tftp, copied, powerLosses, history>>

BootStored ==
  /\ pc = "boot" /\ storageLen # Empty
  /\ \E doc \in ParseJson :
       /\ running' = doc
       /\ status' = IF doc = NoFile THEN "fatal" ELSE "ok"
  /\ pc' = "loop"
  /\ UNCHANGED <<flash, tftp, copied, powerLosses, history>>

MainProgram ==
  CheckConfig \/ EraseStorage \/ StoreLength \/ StoreBlock \/ StoreDone
    \/ Reboot \/ BootEmpty \/ BootStored

Next == TftpRecvCallback \/ Receive \/ MainProgram \/ PowerLoss

Spec == Init /\ [][Next]_vars

(* The main program runs on; hosts and power owe it nothing.               *)
FairSpec == Spec /\ WF_vars(MainProgram)

-----------------------------------------------------------------------------

Content == [file : Files \cup {NoFile}, block : Nat]

Connection == [open : BOOLEAN, file : Files \cup {NoFile}, block : Nat]

(* Types.  The copy stays within the length it has stored. *)
TypeOK ==
  /\ upload \in [1 .. Slots -> Content]
  /\ writeSlot \in 1 .. Slots + 1
  /\ conns \in [Conns -> Connection]
  /\ newFlashJson \in BOOLEAN
  /\ storageLen \in -1 .. Slots
  /\ storage \in [1 .. Slots -> Content]
  /\ pc \in {"boot", "loop", "erase", "length", "copy", "reboot"}
  /\ copied \in 0 .. Slots /\ (copied # 0 => copied <= storageLen)
  /\ status \in {"ok", "default", "fatal"}
  /\ running \in Files \cup {NoFile, Mixed}
  /\ powerLosses \in 0 .. MaxPowerLoss
  /\ sole \in Conns \cup {"none"}
  /\ delivered \in Files \cup {NoFile}
  /\ interrupted \in BOOLEAN

(* The storage sector is blank, or holds the length of one intact file and *)
(* an initial part of its text, whatever uploads crossed each other, hosts *)
(* gave up, writes failed or power cuts came (store_json_in_flash behind   *)
(* json_check_length_and_CRC).                                             *)
StoredIntact ==
  \/ storageLen = Empty /\ storage = Blank
  \/ \E f \in Files : \E k \in 0 .. Blocks[f] - 1 :
       /\ storageLen = Blocks[f] - 1
       /\ \A n \in 1 .. Slots :
            storage[n] = IF n <= k THEN Block(f, n + 1) ELSE Erased

(* Modules are loaded from an intact file or not at all.                   *)
RunsIntact == running # Mixed

(* The board comes up with the fatal status, which it never leaves again,  *)
(* only after a copy to the storage sector was cut short.                  *)
FatalOnlyIfInterrupted == status = "fatal" => interrupted

(* Once the board serves again after a file was received whole over a      *)
(* connection no other one wrote beside, that file is what it runs: no     *)
(* upload is verified, copied and booted as another, or dropped on the way.*)
DeliveredRuns ==
  \A f \in Files : delivered = f /\ pc = "loop" /\ ~newFlashJson => running = f

(* A file received whole over a connection no other one wrote beside,      *)
(* while the board is not in a fatal status, is running after a while,     *)
(* unless the power or the flash fails first.  It rests on the address     *)
(* starting again with each request, on the flag, on the check of the CRC  *)
(* and on a copy of the right length.                                      *)
DeliveredIsRun ==
  \A f \in Files : delivered = f ~> (running = f \/ delivered # f)
=============================================================================
