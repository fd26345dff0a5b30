------------------------- MODULE ConfigStore_proofs -------------------------
(* What reaches the storage sector is an initial part of one intact file,  *)
(* modules are loaded from a whole one, and only an interrupted copy makes *)
(* the board come up dead: for any files, connections and sector size.     *)
EXTENDS ConfigStore, TLAPS

(* The inductive invariant: from the check to the reboot the upload is an  *)
(* intact file, since the server does not run, and the storage holds as    *)
(* much of it as has been copied.                                          *)
Prefix(f, k) ==
  /\ storageLen = Blocks[f] - 1
  /\ storage = [n \in 1 .. Slots |-> IF n <= k THEN Block(f, n + 1) ELSE Erased]

Verified == Header \in Files /\ IntactUpload(Header)

BlankStorage == storageLen = Empty /\ storage = Blank

(* Storage that a boot can do something with.                              *)
Usable == BlankStorage \/ \E f \in Files : Prefix(f, Blocks[f] - 1)

Stored == BlankStorage \/ \E f \in Files : \E k \in 0 .. Blocks[f] - 1 : Prefix(f, k)

CopyInv ==
  /\ pc \in {"erase", "length", "copy"} => Verified
  /\ pc \in {"boot", "loop", "erase", "length"} => copied = 0
  /\ pc = "length" => BlankStorage
  /\ pc = "copy" => Prefix(Header, copied) /\ copied <= JsonLength

BootInv ==
  /\ ~interrupted /\ pc \notin {"length", "copy"} => Usable
  /\ status = "fatal" => interrupted
  /\ running # Mixed

Inv == TypeOK /\ CopyInv /\ Stored /\ BootInv

LEMMA BlocksType ==
  ASSUME NEW f \in Files
  PROVE  /\ Blocks[f] \in 2 .. Slots /\ Blocks[f] \in Nat /\ Slots \in Nat
         /\ f # NoFile
BY StoreAssumption

LEMMA BlankType == Blank \in [1 .. Slots -> Content]
BY DEF Blank, Erased, Block, Content

LEMMA NoConnType == NoConn \in [Conns -> Connection]
BY DEF NoConn, Closed, Connection

LEMMA RestartType == TypeOK /\ Restart =>
  /\ upload' \in [1 .. Slots -> Content] /\ storage' \in [1 .. Slots -> Content]
  /\ storageLen' \in -1 .. Slots
  /\ writeSlot' \in 1 .. Slots + 1 /\ copied' \in 0 .. Slots /\ copied' = 0
  /\ conns' \in [Conns -> Connection]
  /\ newFlashJson' \in BOOLEAN /\ pc' = "boot" /\ status' = "ok" /\ running' = NoFile
  /\ sole' = "none"
<1> SUFFICES ASSUME TypeOK, Restart
    PROVE  /\ upload' \in [1 .. Slots -> Content] /\ storage' \in [1 .. Slots -> Content]
           /\ storageLen' \in -1 .. Slots
           /\ writeSlot' \in 1 .. Slots + 1 /\ copied' \in 0 .. Slots /\ copied' = 0
           /\ conns' \in [Conns -> Connection]
           /\ newFlashJson' \in BOOLEAN /\ pc' = "boot" /\ status' = "ok" /\ running' = NoFile
           /\ sole' = "none"
  OBVIOUS
<1>1. /\ upload' \in [1 .. Slots -> Content] /\ storage' \in [1 .. Slots -> Content]
      /\ storageLen' \in -1 .. Slots
  BY DEF TypeOK, Restart, flash
<1>2. writeSlot' = 1 /\ copied' = 0 /\ 1 \in 1 .. Slots + 1 /\ 0 \in 0 .. Slots
  BY StoreAssumption DEF Restart
<1>3. /\ newFlashJson' \in BOOLEAN /\ pc' = "boot" /\ status' = "ok" /\ running' = NoFile
      /\ sole' = "none"
  BY DEF Restart
<1>4. conns' \in [Conns -> Connection]
  BY NoConnType DEF Restart
<1> QED
  BY <1>1, <1>2, <1>3, <1>4

LEMMA StoredMeans ==
  ASSUME TypeOK
  PROVE  Stored <=> StoredIntact
<1> DEFINE P(f, k) == [n \in 1 .. Slots |-> IF n <= k THEN Block(f, n + 1) ELSE Erased]
<1>1. ASSUME NEW f \in Files, NEW k \in 0 .. Blocks[f] - 1
      PROVE  storage = P(f, k) <=> \A n \in 1 .. Slots :
               storage[n] = IF n <= k THEN Block(f, n + 1) ELSE Erased
  BY DEF TypeOK
<1> QED
  BY <1>1 DEF Stored, StoredIntact, Prefix, BlankStorage

LEMMA InitInv == Init => Inv
<1> SUFFICES ASSUME Init PROVE Inv
  OBVIOUS
<1>1. TypeOK
  <2>1. upload \in [1 .. Slots -> Content] /\ storage \in [1 .. Slots -> Content]
    BY BlankType DEF Init
  <2>2. conns \in [Conns -> Connection]
    BY NoConnType DEF Init
  <2>3. /\ writeSlot \in 1 .. Slots + 1 /\ storageLen \in -1 .. Slots
        /\ copied \in 0 .. Slots /\ copied = 0 /\ powerLosses \in 0 .. MaxPowerLoss
    BY StoreAssumption DEF Init, Empty
  <2>4. newFlashJson \in BOOLEAN /\ interrupted \in BOOLEAN
    BY DEF Init
  <2> QED
    BY <2>1, <2>2, <2>3, <2>4 DEF Init, TypeOK
<1>2. BlankStorage /\ CopyInv /\ Stored
  BY DEF Init, BlankStorage, CopyInv, Stored
<1>3. BootInv
  BY <1>2, StoreAssumption DEF Init, BootInv, Usable
<1> QED
  BY <1>1, <1>2, <1>3 DEF Inv

-----------------------------------------------------------------------------
(* The server: it runs only in the loop, and never touches the storage.    *)

LEMMA PacketType ==
  ASSUME TypeOK, NEW c \in Conns, NEW p \in Packets(c)
  PROVE  /\ p.block \in Nat /\ p.short \in BOOLEAN
         /\ p.data = NoData \/ p.data \in Content
<1> DEFINE f == conns[c].file
<1>1. conns[c].block \in Nat /\ f \in Files \cup {NoFile}
  BY DEF TypeOK, Connection
<1>2. CASE \E n \in 1 .. conns[c].block + 1 :
        p = [block |-> n, data |-> IF n > Blocks[f] THEN NoData ELSE Block(f, n),
             short |-> n = Last[f]]
  <2>1. PICK n \in 1 .. conns[c].block + 1 :
          p = [block |-> n, data |-> IF n > Blocks[f] THEN NoData ELSE Block(f, n),
               short |-> n = Last[f]]
    BY <1>2
  <2>2. n \in Nat /\ Block(f, n) \in Content
    BY <1>1 DEF Block, Content
  <2> QED
    BY <2>1, <2>2
<1>3. CASE \E code \in {0, conns[c].block + 1} :
        p = [block |-> code, data |-> Junk, short |-> TRUE]
  <2>1. Junk \in Content
    BY DEF Junk, Block, Content
  <2> QED
    BY <1>1, <1>3, <2>1
<1> QED
  BY <1>2, <1>3 DEF Packets

LEMMA ServerType ==
  ASSUME TypeOK, TftpRecvCallback \/ Receive
  PROVE  TypeOK'
<1>1. ASSUME TftpRecvCallback PROVE TypeOK'
  <2>1. PICK c \in Conns, f \in Files : ProcessWrite(c, f)
    BY <1>1 DEF TftpRecvCallback
  <2>2. /\ upload' \in [1 .. Slots -> Content] /\ writeSlot' \in 1 .. Slots + 1
        /\ conns' \in [Conns -> Connection]
        /\ sole' \in Conns \cup {"none"} /\ delivered' \in Files \cup {NoFile}
    <3>1. [open |-> TRUE, file |-> f, block |-> 0] \in Connection
      BY DEF Connection
    <3> QED
      BY <2>1, <3>1, BlankType, StoreAssumption DEF ProcessWrite, TypeOK
  <2> QED
    BY <1>1, <2>2 DEF TftpRecvCallback, TypeOK, boot
<1>2. ASSUME Receive PROVE TypeOK'
  <2>1. PICK c \in Conns : conns[c].open /\ \E p \in Packets(c) : WrqRecvCallback(c, p)
    BY <1>2 DEF Receive
  <2>2. PICK p \in Packets(c) : WrqRecvCallback(c, p)
    BY <2>1
  <2>3. p.block \in Nat /\ p.short \in BOOLEAN /\ (p.data = NoData \/ p.data \in Content)
    BY PacketType
  <2>4. /\ upload' \in [1 .. Slots -> Content] /\ writeSlot' \in 1 .. Slots + 1
        /\ sole' \in Conns \cup {"none"}
    <3>1. CASE p.block = conns[c].block + 1 /\ p.data # NoData
      <4>1. FlashWrite(c, p)
        BY <2>2, <3>1 DEF WrqRecvCallback
      <4>2. Junk \in Content /\ p.data \in Content
        BY <2>3, <3>1 DEF Junk, Block, Content
      <4> QED
        BY <4>1, <4>2, StoreAssumption DEF FlashWrite, TypeOK
    <3>2. CASE ~(p.block = conns[c].block + 1 /\ p.data # NoData)
      BY <2>2, <3>2 DEF WrqRecvCallback, TypeOK
    <3> QED
      BY <3>1, <3>2
  <2>5. conns' \in [Conns -> Connection]
    <3> DEFINE block == IF p.block = conns[c].block + 1 THEN p.block ELSE conns[c].block
    <3>1. Closed \in Connection
      BY DEF Closed, Connection
    <3>2. conns[c] \in Connection /\ conns[c].block \in Nat
      BY DEF TypeOK, Connection
    <3>3. [conns[c] EXCEPT !.block = block] \in Connection
      BY <2>3, <3>2 DEF Connection
    <3>4. conns' = [conns EXCEPT
            ![c] = IF p.short THEN Closed ELSE [conns[c] EXCEPT !.block = block]]
      BY <2>2 DEF WrqRecvCallback
    <3> QED
      BY <3>1, <3>3, <3>4 DEF TypeOK
  <2>6. newFlashJson' \in BOOLEAN
    BY <2>2, <2>3 DEF WrqRecvCallback, TypeOK
  <2>7. delivered' \in Files \cup {NoFile}
    BY <2>2 DEF WrqRecvCallback, TypeOK, Connection
  <2> QED
    BY <2>2, <2>4, <2>5, <2>6, <2>7 DEF WrqRecvCallback, TypeOK, boot
<1> QED
  BY <1>1, <1>2

LEMMA ServerInv ==
  ASSUME Inv, TftpRecvCallback \/ Receive
  PROVE  Inv'
<1>1. /\ pc = "loop" /\ pc' = pc /\ storageLen' = storageLen /\ storage' = storage
      /\ status' = status /\ running' = running /\ interrupted' = interrupted
  BY DEF TftpRecvCallback, Receive, WrqRecvCallback, Serving, boot
<1>2. TypeOK'
  BY ServerType DEF Inv
<1>3. CopyInv'
  BY <1>1 DEF Inv, CopyInv, TftpRecvCallback, Receive, WrqRecvCallback
<1>4. Stored' /\ BootInv'
  BY <1>1 DEF Inv, Stored, BootInv, Usable, BlankStorage, Prefix
<1> QED
  BY <1>2, <1>3, <1>4 DEF Inv

-----------------------------------------------------------------------------
(* The copy.                                                               *)

LEMMA CheckConfigInv ==
  ASSUME Inv, CheckConfig
  PROVE  Inv'
<1>1. TypeOK'
  BY DEF Inv, TypeOK, CheckConfig, flash, boot, history
<1>2. ASSUME CheckLengthAndCRC PROVE Verified
  <2>1. PICK f \in Files : IntactUpload(f)
    BY <1>2 DEF CheckLengthAndCRC
  <2>2. upload[1] = Block(f, 1)
    BY <2>1, BlocksType DEF IntactUpload
  <2> QED
    BY <2>1, <2>2 DEF Verified, Header, Block
<1>3. CopyInv'
  BY <1>2 DEF Inv, CheckConfig, CopyInv, flash, Verified, Header, IntactUpload
<1>4. Stored' /\ BootInv'
  BY DEF Inv, CheckConfig, flash, boot, history, Stored, BootInv, Usable, BlankStorage, Prefix
<1> QED
  BY <1>1, <1>3, <1>4 DEF Inv

LEMMA EraseStorageInv ==
  ASSUME Inv, EraseStorage
  PROVE  Inv'
<1>1. TypeOK'
  <2>1. storage' \in [1 .. Slots -> Content] /\ storageLen' \in -1 .. Slots
    BY BlankType, StoreAssumption DEF EraseStorage, Empty
  <2>2. copied' = 0
    BY DEF Inv, EraseStorage, CopyInv
  <2> QED
    BY <2>1, <2>2 DEF Inv, TypeOK, EraseStorage, tftp, boot, history
<1>2. BlankStorage'
  BY DEF EraseStorage, BlankStorage
<1>3. CopyInv'
  BY <1>2 DEF Inv, CopyInv, EraseStorage, Verified, Header, IntactUpload
<1>4. Stored' /\ BootInv'
  BY <1>2 DEF Inv, EraseStorage, Stored, BootInv, boot, history
<1> QED
  BY <1>1, <1>3, <1>4 DEF Inv

(* A failed write leaves what is there, and says so in interrupted.        *)
LEMMA FlashFailureInv ==
  ASSUME Inv, FlashFailure, UNCHANGED <<upload, tftp, boot, powerLosses, sole>>
  PROVE  Inv'
<1>1. TypeOK'
  BY DEF Inv, TypeOK, FlashFailure, tftp, boot
<1>2. CopyInv'
  BY DEF FlashFailure, CopyInv
<1>3. Stored' /\ BootInv'
  BY DEF Inv, FlashFailure, Stored, BootInv, BlankStorage, Prefix, boot
<1> QED
  BY <1>1, <1>2, <1>3 DEF Inv

LEMMA StoreLengthInv ==
  ASSUME Inv, StoreLength
  PROVE  Inv'
<1>1. CASE FlashFailure
  BY <1>1, FlashFailureInv DEF StoreLength
<1>2. CASE ~FlashFailure
  <2>0. /\ storageLen' = JsonLength /\ copied' = 0 /\ pc' = "copy" /\ pc = "length"
        /\ UNCHANGED <<storage, delivered, interrupted, upload, tftp, boot, powerLosses, sole>>
    BY <1>2 DEF StoreLength
  <2>1. Verified /\ BlankStorage
    BY <2>0 DEF Inv, CopyInv
  <2>2. JsonLength \in 1 .. Slots - 1 /\ Blocks[Header] \in Nat /\ Slots \in Nat
    BY <2>1, BlocksType DEF JsonLength, Verified
  <2>3. TypeOK'
    BY <2>0, <2>2 DEF Inv, TypeOK, tftp, boot
  <2>4. Header' = Header /\ JsonLength' = JsonLength /\ Verified'
    BY <2>0, <2>1 DEF Header, JsonLength, Verified, IntactUpload
  <2>5. Prefix(Header, 0)'
    BY <2>0, <2>1, <2>4, <2>2 DEF Prefix, BlankStorage, Blank, JsonLength
  <2>6. CopyInv'
    BY <2>0, <2>2, <2>4, <2>5 DEF CopyInv
  <2>7. Stored'
    BY <2>4, <2>5, <2>2 DEF Stored, Verified, JsonLength
  <2>8. BootInv'
    BY <2>0 DEF Inv, BootInv, boot
  <2> QED
    BY <2>3, <2>6, <2>7, <2>8 DEF Inv
<1> QED
  BY <1>1, <1>2

LEMMA StoreBlockInv ==
  ASSUME Inv, StoreBlock
  PROVE  Inv'
<1>1. CASE FlashFailure
  BY <1>1, FlashFailureInv DEF StoreBlock
<1>2. CASE ~FlashFailure
  <2>0. /\ storage' = [storage EXCEPT ![copied + 1] = Source(copied + 1)]
        /\ copied' = copied + 1 /\ pc = "copy" /\ copied < JsonLength
        /\ UNCHANGED <<storageLen, pc, delivered, interrupted, upload, tftp, boot, powerLosses, sole>>
    BY <1>2 DEF StoreBlock, MoreToCopy
  <2>1. Verified /\ Prefix(Header, copied)
    BY <2>0 DEF Inv, CopyInv
  <2>2. Blocks[Header] \in 2 .. Slots /\ Slots \in Nat /\ copied \in Nat
        /\ JsonLength = Blocks[Header] - 1 /\ storageLen = JsonLength
    BY <2>1, BlocksType DEF Inv, TypeOK, JsonLength, Verified, Prefix
  <2>3. Source(copied + 1) = Block(Header, copied + 2)
    BY <2>0, <2>1, <2>2 DEF Source, Verified, IntactUpload
  <2>4. Header' = Header /\ JsonLength' = JsonLength /\ Verified'
    BY <2>0, <2>1 DEF Header, JsonLength, Verified, IntactUpload
  <2>5. Prefix(Header, copied)'
    <3>0. copied + 1 \in 1 .. Slots
      BY <2>0, <2>2
    <3>1. storage' = [n \in 1 .. Slots |-> IF n <= copied + 1 THEN Block(Header, n + 1) ELSE Erased]
      <4>1. \A n \in 1 .. Slots : n <= copied + 1 <=> n <= copied \/ n = copied + 1
        BY <2>2
      <4>2. storage = [n \in 1 .. Slots |-> IF n <= copied THEN Block(Header, n + 1) ELSE Erased]
        BY <2>1 DEF Prefix
      <4>3. storage' = [n \in 1 .. Slots |->
              IF n = copied + 1 THEN Block(Header, copied + 2) ELSE storage[n]]
        BY <2>0, <2>3, <3>0, <4>2
      <4>4. \A n \in 1 .. Slots : n = copied + 1 => n + 1 = copied + 2
        BY <2>2
      <4> QED
        BY <4>1, <4>2, <4>3, <4>4, Zenon
    <3> QED
      BY <2>0, <2>1, <2>4, <3>1 DEF Prefix
  <2>6. TypeOK'
    <3>1. Source(copied + 1) \in Content
      BY <2>0, <2>2 DEF Inv, TypeOK, Source
    <3> QED
      BY <2>0, <2>2, <3>1 DEF Inv, TypeOK, tftp, boot
  <2>7. CopyInv'
    BY <2>0, <2>2, <2>4, <2>5 DEF CopyInv
  <2>8. Stored'
    <3>1. copied + 1 \in 0 .. Blocks[Header] - 1
      BY <2>0, <2>2
    <3> QED
      BY <2>0, <2>1, <2>4, <2>5, <3>1 DEF Stored, Verified
  <2>9. BootInv'
    BY <2>0 DEF Inv, BootInv, boot
  <2> QED
    BY <2>6, <2>7, <2>8, <2>9 DEF Inv
<1> QED
  BY <1>1, <1>2

(* With nothing left to copy the whole file is there.                      *)
LEMMA FullCopy ==
  ASSUME Inv, StoreDone
  PROVE  Verified /\ Header \in Files /\ Prefix(Header, Blocks[Header] - 1)
<1>1. Verified /\ Prefix(Header, copied) /\ copied <= JsonLength /\ ~(copied < JsonLength)
  BY DEF Inv, CopyInv, StoreDone, MoreToCopy
<1>2. Header \in Files /\ Blocks[Header] \in Nat /\ copied \in Nat
  BY <1>1, BlocksType DEF Verified, Inv, TypeOK
<1>3. copied = Blocks[Header] - 1
  BY <1>1, <1>2 DEF JsonLength
<1> QED
  BY <1>1, <1>2, <1>3

LEMMA StoreDoneInv ==
  ASSUME Inv, StoreDone
  PROVE  Inv'
<1>1. TypeOK' /\ CopyInv'
  BY DEF Inv, TypeOK, CopyInv, StoreDone, flash, tftp, boot, history
<1>2. Usable
  BY FullCopy DEF Usable, Verified
<1>3. Stored' /\ BootInv'
  BY <1>2 DEF Inv, StoreDone, flash, boot, history, Stored, BootInv, Usable, BlankStorage, Prefix
<1> QED
  BY <1>1, <1>3 DEF Inv

-----------------------------------------------------------------------------
(* Restarts.                                                               *)

LEMMA RestartStored ==
  ASSUME Inv, Restart
  PROVE  Stored' /\ (Usable => Usable') /\ CopyInv' /\ running' # Mixed /\ status' # "fatal"
<1>1. storage' = storage /\ storageLen' = storageLen
  BY DEF Restart, flash
<1>2. Stored' /\ (Usable => Usable')
  BY <1>1 DEF Inv, Stored, Usable, BlankStorage, Prefix
<1> QED
  BY <1>2, StoreAssumption DEF Restart, CopyInv

LEMMA RebootInv ==
  ASSUME Inv, Reboot
  PROVE  Inv'
<1>1. TypeOK'
  BY RestartType DEF Inv, TypeOK, Reboot
<1> QED
  BY <1>1, RestartStored DEF Inv, BootInv, Reboot

LEMMA PowerLossInv ==
  ASSUME Inv, PowerLoss
  PROVE  Inv'
<1>1. powerLosses' \in 0 .. MaxPowerLoss
  BY StoreAssumption DEF Inv, TypeOK, PowerLoss
<1>2. interrupted' \in BOOLEAN /\ delivered' \in Files \cup {NoFile}
  BY DEF Inv, TypeOK, PowerLoss
<1>3. TypeOK'
  BY <1>1, <1>2, RestartType DEF Inv, TypeOK, PowerLoss
<1>4. BootInv'
  BY RestartStored DEF Inv, BootInv, PowerLoss
<1> QED
  BY <1>3, <1>4, RestartStored DEF Inv, PowerLoss

LEMMA BootEmptyInv ==
  ASSUME Inv, BootEmpty
  PROVE  Inv'
<1>1. TypeOK' /\ CopyInv'
  BY DEF Inv, TypeOK, CopyInv, BootEmpty, flash, tftp, history
<1>2. Stored' /\ BootInv'
  BY StoreAssumption
     DEF Inv, BootEmpty, flash, history, Stored, BootInv, Usable, BlankStorage, Prefix
<1> QED
  BY <1>1, <1>2 DEF Inv

(* The parser sees a whole file, or a text that breaks off.                *)
LEMMA ParsePrefix ==
  ASSUME TypeOK, NEW f \in Files, NEW k \in 0 .. Blocks[f] - 1, Prefix(f, k)
  PROVE  /\ k = Blocks[f] - 1 => StoredIs(f)
         /\ k # Blocks[f] - 1 => storage[storageLen] = Erased
<1>1. Blocks[f] \in 2 .. Slots /\ Slots \in Nat
  BY BlocksType
<1> QED
  BY <1>1 DEF Prefix, StoredIs

LEMMA BootStoredInv ==
  ASSUME Inv, BootStored
  PROVE  Inv'
<1>1. PICK doc \in ParseJson : running' = doc /\ status' = IF doc = NoFile THEN "fatal" ELSE "ok"
  BY DEF BootStored
<1>2. PICK f \in Files : \E k \in 0 .. Blocks[f] - 1 : Prefix(f, k)
  BY DEF Inv, Stored, BootStored, BlankStorage
<1>3. PICK k \in 0 .. Blocks[f] - 1 : Prefix(f, k)
  BY <1>2
<1>4. doc \in Files \cup {NoFile}
  BY <1>3, ParsePrefix DEF Inv, ParseJson
<1>5. ~interrupted => doc \in Files
  <2> SUFFICES ASSUME ~interrupted PROVE doc \in Files
    OBVIOUS
  <2>1. Usable
    BY DEF Inv, BootInv, BootStored
  <2>2. PICK g \in Files : Prefix(g, Blocks[g] - 1)
    BY <2>1 DEF Usable, BlankStorage, BootStored
  <2>3. StoredIs(g)
    BY <2>2, BlocksType, ParsePrefix DEF Inv
  <2> QED
    BY <2>3 DEF ParseJson
<1>6. TypeOK'
  BY <1>1, <1>4 DEF Inv, TypeOK, BootStored, flash, tftp, history
<1>7. CopyInv'
  BY DEF Inv, BootStored, CopyInv
<1>8. Stored' /\ (Usable => Usable') /\ interrupted' = interrupted
  BY DEF Inv, BootStored, flash, history, Stored, Usable, BlankStorage, Prefix
<1>9. BootInv'
  BY <1>1, <1>4, <1>5, <1>8, StoreAssumption DEF Inv, BootInv, BootStored
<1> QED
  BY <1>6, <1>7, <1>8, <1>9 DEF Inv

-----------------------------------------------------------------------------

LEMMA StepInv == Inv /\ [Next]_vars => Inv'
<1> SUFFICES ASSUME Inv, [Next]_vars PROVE Inv'
  OBVIOUS
<1>1. CASE TftpRecvCallback \/ Receive
  BY <1>1, ServerInv
<1>2. CASE MainProgram
  BY <1>2, CheckConfigInv, EraseStorageInv, StoreLengthInv, StoreBlockInv, StoreDoneInv,
     RebootInv, BootEmptyInv, BootStoredInv DEF MainProgram
<1>3. CASE PowerLoss
  BY <1>3, PowerLossInv
<1>4. CASE UNCHANGED vars
  BY <1>4 DEF vars, flash, tftp, boot, history, Inv, TypeOK, CopyInv, Stored, BootInv, Usable,
     BlankStorage, Prefix, Verified, Header, IntactUpload, JsonLength
<1> QED
  BY <1>1, <1>2, <1>3, <1>4 DEF Next

LEMMA InvAlways == Spec => []Inv
BY InitInv, StepInv, PTL DEF Spec

(* Every variable keeps its type, for any files and any sector: the copy   *)
(* of store_json_in_flash stays within the length it has stored.           *)
THEOREM TypeCorrect == Spec => []TypeOK
BY InvAlways, PTL DEF Inv

(* The storage sector is blank or holds an initial part of one intact      *)
(* file, behind json_check_length_and_CRC and store_json_in_flash.         *)
THEOREM StorageIsIntact == Spec => []StoredIntact
<1>1. Inv => StoredIntact
  BY StoredMeans DEF Inv
<1> QED
  BY <1>1, InvAlways, PTL

(* No module is ever loaded from anything but an intact file.              *)
THEOREM LoadsIntact == Spec => []RunsIntact
<1>1. Inv => RunsIntact
  BY DEF Inv, BootInv, RunsIntact
<1> QED
  BY <1>1, InvAlways, PTL

(* The board is dead after a boot only if a copy was cut short before.     *)
THEOREM DeadOnlyIfInterrupted == Spec => []FatalOnlyIfInterrupted
<1>1. Inv => FatalOnlyIfInterrupted
  BY DEF Inv, BootInv, FatalOnlyIfInterrupted
<1> QED
  BY <1>1, InvAlways, PTL

-----------------------------------------------------------------------------
(* What an undisturbed host delivers.                                      *)

(* The connection opened last has written the blocks it acknowledged at    *)
(* the head of the sector, as long as nothing else was written.            *)
SoleInv ==
  \A c \in Conns : conns[c].open =>
    /\ conns[c].file \in Files
    /\ conns[c].block < Last[conns[c].file]
    /\ sole = c => /\ writeSlot = conns[c].block + 1
                   /\ \A n \in 1 .. conns[c].block : upload[n] = Block(conns[c].file, n)

NoneOpen == \A c \in Conns : ~conns[c].open

(* Where a file received whole is on its way to the modules: in the upload *)
(* sector, behind the verification, in the storage sector, at work.  Until *)
(* then the server is off or has no connection.                            *)
OnItsWay(f) ==
  /\ pc = "loop" /\ newFlashJson => status # "fatal" /\ IntactUpload(f)
  /\ pc \in {"erase", "length", "copy"} => Header = f
  /\ pc \in {"reboot", "boot"} => Prefix(f, Blocks[f] - 1)
  /\ pc = "loop" /\ ~newFlashJson => running = f /\ NoneOpen

DeliveryInv ==
  /\ SoleInv
  /\ pc = "boot" => NoneOpen /\ ~newFlashJson
  /\ \A f \in Files : delivered = f => OnItsWay(f)

LEMMA LastType ==
  ASSUME NEW f \in Files
  PROVE  Last[f] \in Nat /\ (Last[f] = Blocks[f] \/ Last[f] = Blocks[f] + 1)
BY StoreAssumption

LEMMA InitDelivery == Init => DeliveryInv
<1> SUFFICES ASSUME Init PROVE DeliveryInv
  OBVIOUS
<1>1. NoneOpen
  BY DEF Init, NoConn, Closed, NoneOpen
<1>2. delivered \notin Files
  BY StoreAssumption DEF Init
<1> QED
  BY <1>1, <1>2 DEF Init, DeliveryInv, SoleInv, NoneOpen

(* A write request: the sector is blank, and its connection alone has      *)
(* written all that is in it.                                              *)
LEMMA RequestDelivery ==
  ASSUME Inv, DeliveryInv, TftpRecvCallback
  PROVE  DeliveryInv'
<1>1. PICK c \in Conns, f \in Files : ProcessWrite(c, f)
  BY DEF TftpRecvCallback
<1>2. \A d \in Conns : conns'[d] = IF d = c THEN [open |-> TRUE, file |-> f, block |-> 0] ELSE conns[d]
  BY <1>1 DEF ProcessWrite, Inv, TypeOK
<1>3. 0 < Last[f]
  BY BlocksType, LastType
<1>4. SoleInv'
  <2> SUFFICES ASSUME NEW d \in Conns, conns'[d].open
               PROVE  /\ conns'[d].file \in Files
                      /\ conns'[d].block < Last[conns'[d].file]
                      /\ sole' = d => /\ writeSlot' = conns'[d].block + 1
                                      /\ \A n \in 1 .. conns'[d].block :
                                           upload'[n] = Block(conns'[d].file, n)
    BY DEF SoleInv
  <2>1. CASE d = c
    BY <1>1, <1>2, <1>3, <2>1 DEF ProcessWrite
  <2>2. CASE d # c
    BY <1>1, <1>2, <2>2 DEF ProcessWrite, DeliveryInv, SoleInv
  <2> QED
    BY <2>1, <2>2
<1>5. pc' = "loop" /\ delivered' = NoFile
  BY <1>1 DEF TftpRecvCallback, ProcessWrite, Serving
<1> QED
  BY <1>4, <1>5, BlocksType DEF DeliveryInv

(* A packet is a block of the file, or what a host that gives up sends.    *)
LEMMA PacketShape ==
  ASSUME NEW c \in Conns, NEW p \in Packets(c)
  PROVE  \/ \E n \in 1 .. conns[c].block + 1 :
              /\ p.block = n
              /\ p.data = IF n > Blocks[conns[c].file] THEN NoData ELSE Block(conns[c].file, n)
              /\ p.short <=> n = Last[conns[c].file]
         \/ p.short /\ p.data = Junk
<1> DEFINE f == conns[c].file
<1>1. CASE \E n \in 1 .. conns[c].block + 1 :
        p = [block |-> n, data |-> IF n > Blocks[f] THEN NoData ELSE Block(f, n),
             short |-> n = Last[f]]
  <2>1. PICK n \in 1 .. conns[c].block + 1 :
          p = [block |-> n, data |-> IF n > Blocks[f] THEN NoData ELSE Block(f, n),
               short |-> n = Last[f]]
    BY <1>1
  <2>2. p.block = n /\ p.data = IF n > Blocks[f] THEN NoData ELSE Block(f, n)
    BY <2>1
  <2>3. p.short <=> n = Last[f]
    BY <2>1, Zenon
  <2> QED
    BY <2>2, <2>3
<1>2. CASE \E code \in {0, conns[c].block + 1} : p = [block |-> code, data |-> Junk, short |-> TRUE]
  BY <1>2
<1> QED
  BY <1>1, <1>2 DEF Packets

(* A packet on the connection opened last.                                 *)
LEMMA SolePacket ==
  ASSUME Inv, DeliveryInv, NEW c \in Conns, conns[c].open, NEW p \in Packets(c),
         WrqRecvCallback(c, p), sole' = c, ~p.short \/ (p.block = conns[c].block + 1 /\ p.data # Junk)
  PROVE  LET f == conns[c].file
             b == IF p.block = conns[c].block + 1 THEN p.block ELSE conns[c].block
         IN  /\ b <= Last[f] /\ (b = Last[f] => p.short)
             /\ ~p.short => writeSlot' = b + 1
             /\ \A n \in 1 .. b : n <= Blocks[f] => upload'[n] = Block(f, n)
<1> DEFINE f == conns[c].file
           k == conns[c].block
           b == IF p.block = k + 1 THEN p.block ELSE k
<1>1. /\ f \in Files /\ k \in Nat /\ k < Last[f] /\ Last[f] \in Nat /\ Blocks[f] \in Nat
      /\ Last[f] = Blocks[f] \/ Last[f] = Blocks[f] + 1
  BY BlocksType, LastType DEF DeliveryInv, SoleInv, Inv, TypeOK, Connection
<1>2. PICK n \in 1 .. k + 1 :
        /\ p.block = n /\ (p.short <=> n = Last[f])
        /\ p.data = IF n > Blocks[f] THEN NoData ELSE Block(f, n)
  BY PacketShape
<1>3. p.block = n /\ (p.short <=> n = Last[f]) /\ n \in Nat /\ n <= k + 1
  BY <1>1, <1>2
<1> HIDE DEF f, k
<1>4. b \in Nat /\ b <= Last[f] /\ (b = Last[f] => p.short)
  BY <1>1, <1>3
<1>5. CASE n = k + 1 /\ n <= Blocks[f]
  <2>1. p.data = Block(f, n) /\ p.data # NoData /\ p.data # Junk
    BY <1>1, <1>2, <1>5, BlocksType DEF Block, NoData, Junk, k, f
  <2>2. PICK content \in {p.data, Junk} :
          /\ writeSlot <= Slots
          /\ upload' = [upload EXCEPT ![writeSlot] = content]
          /\ writeSlot' = writeSlot + 1
          /\ sole' = IF sole = c /\ content # Junk THEN c ELSE "none"
    BY <1>3, <1>5, <2>1 DEF WrqRecvCallback, FlashWrite, k
  <2>3. sole = c /\ content = Block(f, n)
    BY <2>1, <2>2, StoreAssumption
  <2>4. writeSlot = n /\ \A m \in 1 .. k : upload[m] = Block(f, m)
    BY <1>5, <2>3 DEF DeliveryInv, SoleInv, k, f
  <2>5. n \in 1 .. Slots /\ upload \in [1 .. Slots -> Content] /\ Blocks[f] <= Slots
    BY <1>1, <2>2, <2>4, BlocksType DEF Inv, TypeOK
  <2>6. ASSUME NEW m \in 1 .. n PROVE upload'[m] = Block(f, m)
    <3>1. m \in 1 .. Slots
      BY <2>5, <2>6, StoreAssumption
    <3>2. CASE m = n
      BY <2>2, <2>3, <2>4, <2>5, <3>2
    <3>3. CASE m # n
      <4>1. m \in 1 .. k /\ writeSlot # m
        BY <1>1, <1>5, <2>4, <3>3
      <4>2. upload'[m] = upload[m]
        BY <2>2, <2>5, <3>1, <4>1
      <4> QED
        BY <2>4, <4>1, <4>2
    <3> QED
      BY <3>2, <3>3
  <2> QED
    BY <1>3, <1>4, <1>5, <2>2, <2>4, <2>6 DEF k, f
<1>6. CASE ~(n = k + 1 /\ n <= Blocks[f])
  <2>1. ~(p.block = k + 1 /\ p.data # NoData)
    BY <1>2, <1>3, <1>6, <1>1
  <2>2. UNCHANGED <<upload, writeSlot, sole>>
    BY <2>1 DEF WrqRecvCallback, k
  <2>3. writeSlot = k + 1 /\ \A m \in 1 .. k : upload[m] = Block(f, m)
    BY <2>2 DEF DeliveryInv, SoleInv, k, f
  <2>4. ~p.short => b = k
    BY <1>1, <1>3, <1>6
  <2>5. \A m \in 1 .. b : m <= Blocks[f] => m \in 1 .. k
    BY <1>1, <1>3, <1>6
  <2> QED
    BY <1>4, <2>2, <2>3, <2>4, <2>5 DEF k, f
<1> QED
  BY <1>5, <1>6 DEF k, f

(* A packet that goes on is one of the file, before its last.              *)
LEMMA PacketBlock ==
  ASSUME Inv, DeliveryInv, NEW c \in Conns, conns[c].open, NEW p \in Packets(c), ~p.short
  PROVE  LET b == IF p.block = conns[c].block + 1 THEN p.block ELSE conns[c].block
         IN  b \in Nat /\ b < Last[conns[c].file]
<1> DEFINE f == conns[c].file
           k == conns[c].block
<1>1. f \in Files /\ k \in Nat /\ k < Last[f] /\ Last[f] \in Nat
  BY LastType DEF DeliveryInv, SoleInv, Inv, TypeOK, Connection
<1>2. PICK n \in 1 .. k + 1 : p.block = n /\ (p.short <=> n = Last[f])
  BY PacketShape
<1> HIDE DEF k, f
<1>3. n # Last[f] /\ n \in Nat /\ (n = k + 1 => n < Last[f])
  BY <1>1, <1>2
<1> QED
  BY <1>1, <1>2, <1>3 DEF k, f

(* A packet that ends a file is its last.                                  *)
LEMMA FinalPacket ==
  ASSUME NEW c \in Conns, NEW p \in Packets(c), p.short, p.data # Junk
  PROVE  p.block = Last[conns[c].file]
BY PacketShape

LEMMA PacketDelivery ==
  ASSUME Inv, DeliveryInv, Receive
  PROVE  DeliveryInv'
<1>1. PICK c \in Conns : conns[c].open /\ \E p \in Packets(c) : WrqRecvCallback(c, p)
  BY DEF Receive
<1>2. PICK p \in Packets(c) : WrqRecvCallback(c, p)
  BY <1>1
<1> DEFINE f == conns[c].file
           k == conns[c].block
           b == IF p.block = k + 1 THEN p.block ELSE k
<1>3. /\ pc = "loop" /\ pc' = "loop" /\ (newFlashJson => status = "fatal") /\ status' = status
      /\ newFlashJson' = (p.short \/ newFlashJson)
      /\ conns' = [conns EXCEPT ![c] = IF p.short THEN Closed ELSE [conns[c] EXCEPT !.block = b]]
  BY <1>2 DEF WrqRecvCallback, Serving, boot
<1>4. /\ f \in Files /\ k \in Nat /\ k < Last[f] /\ conns[c] \in Connection
      /\ \A d \in Conns : conns'[d] =
           IF d = c THEN IF p.short THEN Closed ELSE [conns[c] EXCEPT !.block = b] ELSE conns[d]
  BY <1>1, <1>3 DEF DeliveryInv, SoleInv, Inv, TypeOK, Connection
<1>5. p.block \in Nat /\ p.short \in BOOLEAN
  BY PacketType DEF Inv
<1>6. (sole' = sole /\ UNCHANGED <<upload, writeSlot>>) \/ sole' \in {c, "none"}
  BY <1>2 DEF WrqRecvCallback, FlashWrite
<1>7. SoleInv'
  <2> SUFFICES ASSUME NEW d \in Conns, conns'[d].open
               PROVE  /\ conns'[d].file \in Files
                      /\ conns'[d].block < Last[conns'[d].file]
                      /\ sole' = d => /\ writeSlot' = conns'[d].block + 1
                                      /\ \A n \in 1 .. conns'[d].block :
                                           upload'[n] = Block(conns'[d].file, n)
    BY DEF SoleInv
  <2>1. CASE d # c
    BY <1>4, <1>6, <2>1, StoreAssumption DEF DeliveryInv, SoleInv
  <2>2. CASE d = c
    <3>1. ~p.short /\ conns'[c] = [conns[c] EXCEPT !.block = b]
      BY <1>4, <1>5, <2>2 DEF Closed
    <3>2. conns'[c].file = f /\ conns'[c].block = b
      BY <1>4, <3>1 DEF Connection
    <3>3. b < Last[f] /\ b \in Nat /\ b <= Blocks[f]
      BY <1>1, <1>2, <1>4, <1>5, <3>1, PacketBlock, LastType, BlocksType
    <3>4. sole' = c => writeSlot' = b + 1 /\ \A n \in 1 .. b : upload'[n] = Block(f, n)
      <4> SUFFICES ASSUME sole' = c PROVE writeSlot' = b + 1 /\ \A n \in 1 .. b : upload'[n] = Block(f, n)
        OBVIOUS
      <4>1. ~p.short => writeSlot' = b + 1
        BY <1>1, <1>2, <3>1, SolePacket
      <4>2. \A n \in 1 .. b : n <= Blocks[f] => upload'[n] = Block(f, n)
        BY <1>1, <1>2, <3>1, SolePacket
      <4>3. \A n \in 1 .. b : n <= Blocks[f]
        BY <1>4, <3>3, BlocksType
      <4> QED
        BY <3>1, <4>1, <4>2, <4>3
    <3> QED
      BY <1>4, <2>2, <3>2, <3>3, <3>4
  <2> QED
    BY <2>1, <2>2
<1>8. ASSUME NEW g \in Files, delivered' = g PROVE OnItsWay(g)'
  <2>1. delivered # g
    BY <1>1, <1>3 DEF DeliveryInv, OnItsWay, NoneOpen
  <2>2. p.block = k + 1 /\ p.short /\ p.data # Junk /\ sole' = c /\ status # "fatal" /\ g = f
    BY <1>2, <1>8, <2>1 DEF WrqRecvCallback
  <2>3. newFlashJson' /\ status' # "fatal"
    BY <1>3, <2>2
  <2>4. b = Last[f]
    BY <1>1, <2>2, <1>4, FinalPacket
  <2>5. IntactUpload(g)'
    <3>1. \A n \in 1 .. b : n <= Blocks[f] => upload'[n] = Block(f, n)
      BY <1>1, <1>2, <2>2, SolePacket
    <3>2. \A n \in 1 .. Blocks[f] : n \in 1 .. b
      BY <1>4, <2>4, LastType, BlocksType
    <3> QED
      BY <2>2, <3>1, <3>2, BlocksType, <1>4 DEF IntactUpload
  <2> QED
    BY <1>3, <2>3, <2>5 DEF OnItsWay
<1> QED
  BY <1>3, <1>7, <1>8 DEF DeliveryInv

LEMMA SoleKept ==
  ASSUME SoleInv, UNCHANGED <<upload, conns, writeSlot, sole>>
  PROVE  SoleInv'
BY DEF SoleInv

LEMMA RestartDelivery ==
  ASSUME TypeOK, Restart
  PROVE  SoleInv' /\ NoneOpen' /\ ~newFlashJson' /\ pc' = "boot"
BY DEF Restart, NoConn, Closed, SoleInv, NoneOpen

(* From the verification to the restart the file goes where its header     *)
(* says.                                                                   *)
LEMMA CopyDelivery ==
  ASSUME Inv, DeliveryInv, CheckConfig \/ EraseStorage \/ StoreLength \/ StoreBlock \/ StoreDone
  PROVE  DeliveryInv'
<1>1. SoleInv'
  <2>1. UNCHANGED <<upload, conns, writeSlot, sole>>
    BY DEF CheckConfig, EraseStorage, StoreLength, StoreBlock, StoreDone, flash, tftp, history
  <2> QED
    BY <2>1, SoleKept DEF DeliveryInv
<1>2. pc' # "boot" /\ (pc' = "loop" => ~newFlashJson')
  BY DEF CheckConfig, EraseStorage, StoreLength, StoreBlock, StoreDone, FlashFailure
<1>3. ASSUME NEW f \in Files, delivered' = f PROVE OnItsWay(f)'
  <2>1. delivered = f
    BY <1>3, StoreAssumption
       DEF CheckConfig, EraseStorage, StoreLength, StoreBlock, StoreDone, FlashFailure, history
  <2>2. OnItsWay(f) /\ f # NoFile
    BY <2>1, StoreAssumption DEF DeliveryInv
  <2>3. Header' = Header
    BY DEF CheckConfig, EraseStorage, StoreLength, StoreBlock, StoreDone, flash, Header
  <2>4. CASE CheckConfig
    <3>1. IntactUpload(f)
      BY <2>2, <2>4 DEF CheckConfig, OnItsWay
    <3>2. CheckLengthAndCRC /\ upload[1] = Block(f, 1)
      BY <3>1, BlocksType DEF CheckLengthAndCRC, IntactUpload
    <3> QED
      BY <2>3, <2>4, <3>2 DEF CheckConfig, OnItsWay, Header, Block
  <2>5. CASE EraseStorage
    BY <2>2, <2>3, <2>5 DEF EraseStorage, OnItsWay
  <2>6. CASE StoreLength
    BY <1>3, <2>2, <2>3, <2>6 DEF StoreLength, FlashFailure, OnItsWay
  <2>7. CASE StoreBlock
    BY <1>3, <2>2, <2>3, <2>7 DEF StoreBlock, FlashFailure, OnItsWay
  <2>8. CASE StoreDone
    <3>1. Header = f /\ Prefix(f, Blocks[f] - 1)
      BY <2>2, <2>8, FullCopy DEF StoreDone, OnItsWay
    <3>2. Prefix(f, Blocks[f] - 1)'
      BY <2>8, <3>1 DEF StoreDone, flash, Prefix
    <3> QED
      BY <2>8, <3>2 DEF StoreDone, OnItsWay
  <2> QED
    BY <2>4, <2>5, <2>6, <2>7, <2>8
<1> QED
  BY <1>1, <1>2, <1>3 DEF DeliveryInv

(* A restart reads back what was copied.                                   *)
LEMMA BootDelivery ==
  ASSUME Inv, DeliveryInv, Reboot \/ BootEmpty \/ BootStored
  PROVE  DeliveryInv'
<1>1. ASSUME NEW f \in Files, delivered' = f PROVE delivered = f /\ Prefix(f, Blocks[f] - 1)
  BY <1>1 DEF Reboot, BootEmpty, BootStored, history, DeliveryInv, OnItsWay
<1>2. CASE Reboot
  <2>1. SoleInv' /\ NoneOpen' /\ ~newFlashJson' /\ pc' = "boot"
    BY <1>2, RestartDelivery DEF Inv, Reboot
  <2>2. ASSUME NEW f \in Files, delivered' = f PROVE OnItsWay(f)'
    BY <1>1, <1>2, <2>1, <2>2 DEF Reboot, Restart, flash, Prefix, OnItsWay
  <2> QED
    BY <2>1, <2>2 DEF DeliveryInv
<1>3. CASE BootEmpty \/ BootStored
  <2>1. SoleInv'
    <3>1. UNCHANGED <<upload, conns, writeSlot, sole>>
      BY <1>3 DEF BootEmpty, BootStored, flash, tftp, history
    <3> QED
      BY <3>1, SoleKept DEF DeliveryInv
  <2>2. NoneOpen' /\ ~newFlashJson' /\ pc' = "loop"
    BY <1>3 DEF BootEmpty, BootStored, tftp, DeliveryInv, NoneOpen
  <2>3. ASSUME NEW f \in Files, delivered' = f PROVE running' = f
    <3>1. Prefix(f, Blocks[f] - 1) /\ Blocks[f] \in 2 .. Slots
      BY <1>1, <2>3, BlocksType
    <3>2. StoredIs(f) /\ storageLen # Empty
      BY <3>1, ParsePrefix DEF Inv, Prefix, Empty
    <3>3. ASSUME NEW g \in Files, StoredIs(g) PROVE g = f
      <4>1. 1 \in 1 .. storageLen
        BY <3>1 DEF Prefix
      <4>2. storage[1] = Block(g, 2) /\ storage[1] = Block(f, 2)
        BY <3>2, <3>3, <4>1 DEF StoredIs
      <4> QED
        BY <4>2 DEF Block
    <3>4. \A doc \in ParseJson : doc = f
      BY <3>2, <3>3 DEF ParseJson
    <3> QED
      BY <1>3, <3>2, <3>4 DEF BootEmpty, BootStored
  <2> QED
    BY <2>1, <2>2, <2>3 DEF DeliveryInv, OnItsWay
<1> QED
  BY <1>2, <1>3

LEMMA StepDelivery == Inv /\ DeliveryInv /\ [Next]_vars => DeliveryInv'
<1> SUFFICES ASSUME Inv, DeliveryInv, [Next]_vars PROVE DeliveryInv'
  OBVIOUS
<1>1. CASE TftpRecvCallback \/ Receive
  BY <1>1, RequestDelivery, PacketDelivery
<1>2. CASE MainProgram
  BY <1>2, CopyDelivery, BootDelivery DEF MainProgram
<1>3. CASE PowerLoss
  <2>1. SoleInv' /\ NoneOpen' /\ ~newFlashJson' /\ pc' = "boot"
    BY <1>3, RestartDelivery DEF Inv, PowerLoss
  <2>2. delivered' \notin Files
    BY <1>3, StoreAssumption DEF PowerLoss
  <2> QED
    BY <2>1, <2>2 DEF DeliveryInv
<1>4. CASE UNCHANGED vars
  BY <1>4 DEF vars, flash, tftp, boot, history, DeliveryInv, SoleInv, NoneOpen, OnItsWay,
     IntactUpload, Header, Prefix
<1> QED
  BY <1>1, <1>2, <1>3, <1>4 DEF Next

(* A file received whole over an undisturbed connection is what the board  *)
(* runs when it next serves: through verification, copy, restart and load, *)
(* for any files, whatever the other connections and the power did before. *)
THEOREM DeliveredFileRuns == Spec => []DeliveredRuns
<1>1. DeliveryInv => DeliveredRuns
  BY DEF DeliveryInv, OnItsWay, DeliveredRuns
<1>2. Spec => []DeliveryInv
  BY InitDelivery, StepDelivery, InvAlways, PTL DEF Spec
<1> QED
  BY <1>1, <1>2, PTL
=============================================================================
