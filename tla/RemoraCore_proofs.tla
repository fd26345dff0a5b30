-------------------------- MODULE RemoraCore_proofs --------------------------
(***************************************************************************)
(* What RemoraCore guarantees for every number of words, every watchdog    *)
(* limit and every set of commands.                                        *)
(***************************************************************************)
EXTENDS RemoraCore, TLAPS

USE DEF Words, NoPkt, NoneSent

-----------------------------------------------------------------------------
(* Types.                                                                  *)

(* The copy in progress stays inside the buffer and handles a real packet. *)
CopyBounded ==
  /\ pc = "copy" => next <= CopyLen(pkt)
  /\ pc \in {"copy", "reply"} => pkt \in Packet

TypeInv == TypeOK /\ CopyBounded

(* No interface copies more words than rxData has: the native ones test    *)
(* the length, the W5500 relies on LenAssumption.                          *)
LEMMA CopyLenBound ==
  ASSUME NEW p \in Packet
  PROVE  CopyLen(p) \in 0..NWords
<1>0. p.len \in Nat /\ p.len <= MaxLen
  BY LenAssumption DEF Packet
<1>1. CASE Iface = "udp"
  BY <1>1, CmdAssumption DEF CopyLen
<1>2. CASE Iface = "tcp"
  BY <1>0, <1>2, CmdAssumption DEF CopyLen
<1>3. CASE Iface = "w5500"
  BY <1>0, <1>3, CmdAssumption, LenAssumption DEF CopyLen
<1> QED
  BY <1>1, <1>2, <1>3, IfaceAssumption

LEMMA ExpiryType == Expiry \in Nat /\ Expiry = DataErrMax + 1 + 3 * MaxTicksPerPass
BY CountAssumption DEF Expiry

LEMMA ZeroBuffer == [w \in Words |-> Zero] \in [Words -> Cmd \union {Zero}]
OBVIOUS

LEMMA BootHeader ==
  ASSUME NEW s \in BootStatus
  PROVE  [code |-> "data", status |-> s] \in Header
BY DEF BootStatus, Statuses, Header

LEMMA RebootType == Reboot => TypeInv'
<1> SUFFICES ASSUME Reboot PROVE TypeInv'
  OBVIOUS
<1>1. rx' \in [Words -> Cmd \union {Zero}]
  BY ZeroBuffer DEF Reboot
<1>2. header' \in Header
  BY BootHeader DEF Reboot
<1>3. remoraStatus' \in Statuses
  BY DEF Reboot, BootStatus, Statuses
<1>4. /\ noDataCount' \in 0..(CounterSize - 1) /\ next' \in 1..(NWords + 1)
      /\ ticks' \in 0..MaxTicksPerPass /\ stale' \in 0..(Expiry + 1)
  BY CmdAssumption, CountAssumption, ExpiryType DEF Reboot
<1>5. pc' = "top" /\ state' \in States /\ sent' = NoneSent /\ pkt' = NoPkt
  BY DEF Reboot, States
<1>6. /\ modules' \in BOOLEAN /\ threadsRunning' \in BOOLEAN /\ reset' \in BOOLEAN
      /\ data' \in BOOLEAN /\ status' \in BOOLEAN
      /\ newFlashJson' \in BOOLEAN /\ halted' \in BOOLEAN
  BY DEF Reboot
<1> HIDE DEF NoPkt, NoneSent
<1> QED
  BY <1>1, <1>2, <1>3, <1>4, <1>5, <1>6 DEF TypeInv, TypeOK, CopyBounded

LEMMA InitType == Init => TypeInv
<1> SUFFICES ASSUME Init PROVE TypeInv
  OBVIOUS
<1> USE DEF Init, InitExceptStatus
<1>1. rx \in [Words -> Cmd \union {Zero}]
  BY ZeroBuffer
<1>2. header \in Header
  BY BootHeader
<1>3. remoraStatus \in Statuses
  BY DEF BootStatus, Statuses
<1>4. /\ noDataCount \in 0..(CounterSize - 1) /\ next \in 1..(NWords + 1)
      /\ ticks \in 0..MaxTicksPerPass /\ stale \in 0..(Expiry + 1)
  BY CmdAssumption, CountAssumption, ExpiryType
<1>5. pc = "top" /\ state \in States /\ sent = NoneSent /\ pkt = NoPkt
  BY DEF States
<1>6. /\ modules \in BOOLEAN /\ threadsRunning \in BOOLEAN /\ reset \in BOOLEAN
      /\ data \in BOOLEAN /\ status \in BOOLEAN
      /\ newFlashJson \in BOOLEAN /\ halted \in BOOLEAN
  OBVIOUS
<1> HIDE DEF NoPkt, NoneSent, Init, InitExceptStatus
<1> QED
  BY <1>1, <1>2, <1>3, <1>4, <1>5, <1>6 DEF TypeInv, TypeOK, CopyBounded

LEMMA StepType == TypeInv /\ [Next]_vars => TypeInv'
<1> SUFFICES ASSUME TypeInv, [Next]_vars PROVE TypeInv'
  OBVIOUS
<1> USE CmdAssumption, CountAssumption, ExpiryType DEF TypeInv, TypeOK, CopyBounded,
      machine, shared, transmit, watchdog, receive, history, Goto
<1>1. CASE UpdateHeader
  BY <1>1 DEF UpdateHeader, Header
<1>2. CASE CheckFatal
  BY <1>2 DEF CheckFatal
<1>3. CASE HandleSetup \/ HandleStart \/ HandleIdle \/ HandleRunning
  BY <1>3 DEF HandleSetup, HandleStart, HandleIdle, HandleRunning, States
<1>4. CASE HandleReset
  <2>1. rx' \in [Words -> Cmd \union {Zero}]
    BY <1>4 DEF HandleReset
  <2>2. next' \in 1..(NWords + 1) /\ pc' \in {"wipe", "config"} /\ state' \in States
    BY <1>4 DEF HandleReset, States
  <2> QED
    BY <1>4, <2>1, <2>2 DEF HandleReset
<1>5. CASE HandleSysReset
  BY <1>5, RebootType DEF HandleSysReset
<1>6. CASE CheckConfig
  BY <1>6, RebootType DEF CheckConfig
<1>7. CASE NoPacket \/ TftpComplete
  BY <1>7 DEF NoPacket, TftpComplete
<1>8. ASSUME NEW p \in Packet, Arrive(p) PROVE TypeInv'
  BY <1>8, CopyLenBound DEF Arrive
<1>9. CASE CopyWord
  <2>1. pkt \in Packet /\ next \in 1..NWords /\ CopyLen(pkt) \in 0..NWords
    BY <1>9, CopyLenBound DEF CopyWord
  <2>2. CopyLen(pkt') = CopyLen(pkt)
    BY <1>9 DEF CopyWord
  <2>3. pkt.cmd \in Cmd
    BY <2>1 DEF Packet
  <2> QED
    BY <1>9, <2>1, <2>2, <2>3 DEF CopyWord
<1>10. CASE FinishPacket
  <2>1. header' \in Header /\ sent' \in Header \union {NoneSent}
    BY <1>10 DEF FinishPacket, Reply, Header, Statuses, BootStatus
  <2>2. data' \in BOOLEAN
    BY <1>10 DEF FinishPacket, Notify
  <2> QED
    BY <1>10, <2>1, <2>2 DEF FinishPacket
<1>11. CASE ServoTick
  <2>1. (noDataCount + 1) % CounterSize \in 0..(CounterSize - 1)
    OBVIOUS
  <2>2. noDataCount' \in 0..(CounterSize - 1)
    BY <1>11, <2>1 DEF ServoTick, CommsUpdate
  <2>3. data' \in BOOLEAN /\ status' \in BOOLEAN
    BY <1>11 DEF ServoTick, CommsUpdate
  <2>4. ServoModules
    BY <1>11 DEF ServoTick
  <2>5. reset' \in BOOLEAN
    BY <2>4 DEF ServoModules
  <2>6. remoraStatus' \in Statuses
    BY <2>4 DEF ServoModules, Statuses, BootStatus
  <2>7. ticks' \in 0..MaxTicksPerPass /\ stale' \in 0..(Expiry + 1)
    BY <1>11 DEF ServoTick
  <2> QED
    BY <1>11, <2>2, <2>3, <2>5, <2>6, <2>7 DEF ServoTick
<1>12. CASE UNCHANGED vars
  BY <1>12 DEF vars
<1> QED
  BY <1>1, <1>2, <1>3, <1>4, <1>5, <1>6, <1>7, <1>8, <1>9, <1>10, <1>11, <1>12
  DEF Next, MainStep, Handle, Tasks

(* Every variable of RemoraCore keeps its type, for every interface, every *)
(* number of words and every watchdog limit.                               *)
THEOREM TypeCorrect == Spec => []TypeOK
<1>1. TypeInv => TypeOK
  BY DEF TypeInv
<1> QED
  BY InitType, StepType, <1>1, PTL DEF Spec

LEMMA TypeInvariant == Spec => []TypeInv
BY InitType, StepType, PTL DEF Spec

(* A copy writes only words of rxData.  With the native interfaces this    *)
(* needs no assumption on the host: MaxLen is any number.  With the W5500  *)
(* it holds for a host that keeps to the length, as LenAssumption says.    *)
THEOREM CopiesStayInside == Spec => []CopyInBounds
<1>1. TypeInv => CopyInBounds
  <2> SUFFICES ASSUME TypeInv, pc = "copy" PROVE next \in Words
    BY DEF CopyInBounds
  <2>1. pkt \in Packet /\ next <= CopyLen(pkt) /\ next \in 1..(NWords + 1)
    BY DEF TypeInv, TypeOK, CopyBounded
  <2>2. CopyLen(pkt) \in 0..NWords
    BY <2>1, CopyLenBound
  <2> QED
    BY <2>1, <2>2, CmdAssumption
<1> QED
  BY <1>1, TypeInvariant, PTL

-----------------------------------------------------------------------------
(* The watchdog.                                                           *)

(* The 8-bit counter never wraps: it is cleared one tick after dataErrMax. *)
CountInv == noDataCount \in 0..DataErrMax

LEMMA CountStep == TypeInv /\ CountInv /\ CommsUpdate => CountInv'
<1> SUFFICES ASSUME TypeInv, CountInv, CommsUpdate PROVE CountInv'
  OBVIOUS
<1>1. (noDataCount + 1) % CounterSize = noDataCount + 1
  BY CountAssumption DEF CountInv
<1> QED
  BY <1>1, CountAssumption DEF CountInv, CommsUpdate

LEMMA CountInvariant == Spec => []CountInv
<1>1. Init => CountInv
  BY CountAssumption DEF Init, InitExceptStatus, CountInv
<1>2. TypeInv /\ CountInv /\ [Next]_vars => CountInv'
  <2> SUFFICES ASSUME TypeInv, CountInv, [Next]_vars PROVE CountInv'
    OBVIOUS
  <2>1. CASE ServoTick
    BY <2>1, CountStep DEF ServoTick
  <2>2. CASE Reboot
    BY <2>2, CountAssumption DEF Reboot, CountInv
  <2>3. CASE UNCHANGED noDataCount
    BY <2>3 DEF CountInv
  <2>4. MainStep => Reboot \/ UNCHANGED noDataCount
    BY DEF MainStep, Handle, Tasks, UpdateHeader, CheckFatal, HandleSetup, HandleStart,
        HandleIdle, HandleRunning, HandleReset, HandleSysReset, CheckConfig, NoPacket,
        TftpComplete, Arrive, CopyWord, FinishPacket, watchdog
  <2> QED
    BY <2>1, <2>2, <2>3, <2>4 DEF Next, vars, watchdog
<1> QED
  BY <1>1, <1>2, TypeInvariant, PTL DEF Spec

(* Which steps of RemoraCore the abstract watchdog sees. *)
LEMMA WatchedSteps ==
  [Next]_vars => \/ ServoTick \/ FinishPacket \/ Reboot \/ HandleStart
                 \/ UNCHANGED <<threadsRunning, watchdog>>
BY DEF Next, MainStep, Handle, Tasks, UpdateHeader, CheckFatal, HandleSetup,
    HandleIdle, HandleRunning, HandleReset, HandleSysReset, CheckConfig, NoPacket,
    TftpComplete, Arrive, CopyWord, machine, vars

(* CommsHandler implements the abstract watchdog: status is true exactly   *)
(* while a packet was heard within the last dataErrMax + 1 servo ticks,    *)
(* for every dataErrMax that fits the counter.                             *)
THEOREM WatchdogImplements == Spec => WatchdogRefines
<1>1. Init => Watch!WatchInit
  BY DEF Init, InitExceptStatus, Watch!WatchInit
<1>2. TypeInv /\ CountInv /\ [Next]_vars => [Watch!WatchNext]_(Watch!watchVars)
  <2> SUFFICES ASSUME TypeInv, CountInv, [Next]_vars
               PROVE  [Watch!WatchNext]_(Watch!watchVars)
    OBVIOUS
  <2> USE DEF Watch!WatchNext, Watch!watchVars
  <2>1. CASE ServoTick
    <3>1. (noDataCount + 1) % CounterSize = noDataCount + 1
      BY CountAssumption DEF CountInv
    <3>2. data \in BOOLEAN /\ status \in BOOLEAN /\ noDataCount \in 0..DataErrMax
      BY DEF TypeInv, TypeOK, CountInv
    <3>0. threadsRunning /\ threadsRunning' = threadsRunning
      BY <2>1 DEF ServoTick, machine
    <3>3. CASE data
      <4>1. ~(0 > DataErrMax)
        BY CountAssumption
      <4>2. noDataCount' = 0 /\ status' /\ data' = FALSE
        BY <2>1, <3>3, <4>1 DEF ServoTick, CommsUpdate
      <4> QED
        BY <3>0, <3>2, <3>3, <4>2 DEF Watch!Tick
    <3>4. CASE ~data
      BY <2>1, <3>0, <3>1, <3>2, <3>4, CountAssumption DEF ServoTick, CommsUpdate, Watch!Tick
    <3> QED
      BY <3>3, <3>4
  <2>2. CASE FinishPacket
    <3>1. data' \in BOOLEAN
      BY <2>2 DEF FinishPacket, Notify, TypeInv, TypeOK
    <3> QED
      BY <2>2, <3>1 DEF FinishPacket, machine, Watch!Report
  <2>3. CASE Reboot
    BY <2>3 DEF Reboot, Watch!Restart
  <2>4. CASE HandleStart
    BY <2>4 DEF HandleStart, watchdog, Watch!Start
  <2>5. CASE UNCHANGED <<threadsRunning, watchdog>>
    BY <2>5 DEF watchdog
  <2> QED
    BY <2>1, <2>2, <2>3, <2>4, <2>5, WatchedSteps
<1> QED
  BY <1>1, <1>2, TypeInvariant, CountInvariant, PTL
  DEF Spec, WatchdogRefines, Watch!WatchSpec

-----------------------------------------------------------------------------
(* The receive buffer of the native UDP interface.                         *)

(* Whoever starts writing rxData starts at its first word, and a copy of   *)
(* the native UDP interface covers all of it.                              *)
WriterInv ==
  /\ pc \notin {"copy", "wipe", "reply"} => next = 1
  /\ pc = "copy" => CopyLen(pkt) = NWords /\ next \in 1..NWords
  /\ pc = "wipe" => next \in 1..NWords

UniformInv == UniformBuffer /\ WriterInv

LEMMA UniformStep ==
  ASSUME Iface = "udp", TypeInv, UniformInv, [Next]_vars
  PROVE  UniformInv'
<1> USE CmdAssumption DEF UniformInv, UniformBuffer, WriterInv, Goto, machine, receive
<1>1. CASE UpdateHeader \/ CheckFatal \/ (CheckConfig /\ ~Reboot) \/ NoPacket \/ TftpComplete
  BY <1>1 DEF UpdateHeader, CheckFatal, CheckConfig, NoPacket, TftpComplete
<1>2. CASE HandleSetup \/ HandleStart \/ HandleIdle \/ HandleRunning
  BY <1>2 DEF HandleSetup, HandleStart, HandleIdle, HandleRunning
<1>3. CASE HandleReset
  <2> USE DEF TypeInv, TypeOK
  <2>1. next \in 1..NWords /\ rx \in [Words -> Cmd \union {Zero}]
    BY <1>3 DEF HandleReset
  <2>2. \A w \in Words : rx'[w] = IF w = next THEN Zero ELSE rx[w]
    BY <1>3, <2>1 DEF HandleReset
  <2>3. \A w \in Words : w < next => rx[w] = Zero
    BY <1>3, <2>1 DEF HandleReset
  <2>4. CASE next < NWords
    BY <1>3, <2>1, <2>2, <2>3, <2>4 DEF HandleReset
  <2>5. CASE next = NWords
    <3>1. \A w \in Words : rx'[w] = Zero
      BY <2>1, <2>2, <2>3, <2>5
    <3> QED
      BY <1>3, <2>5, <3>1 DEF HandleReset
  <2> QED
    BY <2>1, <2>4, <2>5
<1>4. CASE Reboot
  BY <1>4 DEF Reboot
<1>5. ASSUME NEW p \in Packet, Arrive(p) PROVE UniformInv'
  BY <1>5 DEF Arrive, CopyLen
<1>6. CASE CopyWord
  <2> USE DEF TypeInv, TypeOK
  <2>1. next \in 1..NWords /\ rx \in [Words -> Cmd \union {Zero}]
    BY <1>6 DEF CopyWord
  <2>2. \A w \in Words : rx'[w] = IF w = next THEN pkt.cmd ELSE rx[w]
    BY <1>6, <2>1 DEF CopyWord
  <2>3. CopyLen(pkt) = NWords /\ CopyLen(pkt') = NWords
    BY <1>6 DEF CopyWord
  <2>4. \A w \in Words : w < next => rx[w] = pkt.cmd
    BY <1>6 DEF CopyWord
  <2>5. \A v, w \in Words : v >= next /\ w >= next => rx[v] = rx[w]
    BY <2>1
  <2>6. CASE next < NWords
    BY <1>6, <2>1, <2>2, <2>3, <2>4, <2>5, <2>6 DEF CopyWord
  <2>7. CASE next = NWords
    <3>1. \A w \in Words : rx'[w] = pkt.cmd
      BY <2>1, <2>2, <2>4, <2>7
    <3> QED
      BY <1>6, <2>3, <2>7, <3>1 DEF CopyWord
  <2> QED
    BY <2>1, <2>6, <2>7
<1>7. CASE FinishPacket
  BY <1>7 DEF FinishPacket
<1>8. CASE ServoTick \/ UNCHANGED vars
  BY <1>8 DEF ServoTick, vars
<1> QED
  BY <1>1, <1>2, <1>3, <1>4, <1>5, <1>6, <1>7, <1>8
  DEF Next, MainStep, Handle, Tasks, HandleSysReset, CheckConfig

(* With the native UDP interface the words the base interrupt may read mix *)
(* at most the packet being copied (or the memset in progress) and one     *)
(* packet before it, for every number of words and every packet length.    *)
THEOREM BufferUniform ==
  ASSUME Iface = "udp"
  PROVE  Spec => []UniformBuffer
<1>1. Init => UniformInv
  BY CmdAssumption DEF Init, InitExceptStatus, UniformInv, UniformBuffer, WriterInv
<1>2. TypeInv /\ UniformInv /\ [Next]_vars => UniformInv'
  BY UniformStep
<1>3. UniformInv => UniformBuffer
  BY DEF UniformInv
<1> QED
  BY <1>1, <1>2, <1>3, TypeInvariant, PTL DEF Spec

-----------------------------------------------------------------------------
(* The W5500 interface never forgets a command.                            *)

Commanded == \E w \in Words : rx[w] # Zero

WipeInv ==
  /\ pc \notin {"copy", "wipe", "reply"} => next = 1
  /\ pc = "wipe" => state = "RESET" /\ next \in 1..NWords
  /\ pc = "wipe" => \A w \in Words : w < next => rx[w] = Zero

ThreadInv == state \in {"SETUP", "START"} => ~threadsRunning

(* In IDLE a live link was heard of recently enough that the main loop     *)
(* looks at it again before the watchdog trips: within this pass, or       *)
(* within this pass and the one before it.                                 *)
Fresh ==
  /\ status
  /\ pc \notin {"check", "switch"} => noDataCount + 1 <= ticks
  /\ pc \in {"check", "switch"} => noDataCount + 1 <= MaxTicksPerPass + ticks

SeenInv ==
  Commanded /\ ~halted /\ pc \notin {"copy", "reply"} =>
    /\ state \in {"SETUP", "START"} => data
    /\ state = "IDLE" => data \/ Fresh

LinkInv == WipeInv /\ ThreadInv /\ SeenInv

LEMMA LinkStep ==
  ASSUME Iface = "w5500", Kinds \subseteq {"read", "write"},
         TypeInv, CountInv, LinkInv, [Next]_vars
  PROVE  LinkInv'
<1> USE CmdAssumption DEF LinkInv, WipeInv, ThreadInv, SeenInv, Fresh, Commanded, Goto,
      machine, receive, watchdog, history
<1>t. /\ noDataCount \in 0..DataErrMax /\ ticks \in 0..MaxTicksPerPass
      /\ state \in States /\ MaxTicksPerPass \in Nat /\ DataErrMax \in Nat
      /\ 2 * MaxTicksPerPass <= DataErrMax + 1
  BY CountAssumption, PollAssumption DEF TypeInv, TypeOK, CountInv
<1>1. CASE UpdateHeader
  BY <1>t, <1>1 DEF UpdateHeader
<1>2. CASE CheckFatal
  BY <1>2 DEF CheckFatal
<1>3. CASE HandleSetup \/ HandleStart
  BY <1>3 DEF HandleSetup, HandleStart
<1>4. CASE HandleIdle \/ HandleRunning
  BY <1>4 DEF HandleIdle, HandleRunning
<1>5. CASE HandleReset
  <2>1. next \in 1..NWords /\ rx \in [Words -> Cmd \union {Zero}]
    BY <1>5 DEF HandleReset, TypeInv, TypeOK
  <2>2. \A w \in Words : rx'[w] = IF w = next THEN Zero ELSE rx[w]
    BY <1>5, <2>1 DEF HandleReset
  <2>3. \A w \in Words : w < next => rx[w] = Zero
    BY <1>5, <2>1 DEF HandleReset
  <2>4. CASE next < NWords
    BY <1>5, <2>1, <2>2, <2>3, <2>4 DEF HandleReset
  <2>5. CASE next = NWords
    <3>1. \A w \in Words : rx'[w] = Zero
      BY <2>1, <2>2, <2>3, <2>5
    <3> QED
      BY <1>5, <2>5, <3>1 DEF HandleReset
  <2> QED
    BY <2>1, <2>4, <2>5
<1>6. CASE Reboot
  BY <1>6 DEF Reboot
<1>7. CASE (CheckConfig /\ ~Reboot) \/ NoPacket \/ TftpComplete
  BY <1>7 DEF CheckConfig, NoPacket, TftpComplete
<1>8. ASSUME NEW p \in Packet, Arrive(p) PROVE LinkInv'
  BY <1>8 DEF Arrive
<1>9. CASE CopyWord
  BY <1>9 DEF CopyWord
<1>10. CASE FinishPacket
  <2>1. pkt.kind \in {"read", "write"}
    BY <1>10 DEF FinishPacket, TypeInv, CopyBounded, Packet
  <2>2. data'
    BY <1>10, <2>1 DEF FinishPacket, Notify
  <2> QED
    BY <1>10, <2>2 DEF FinishPacket
<1>11. CASE ServoTick
  <2>1. (noDataCount + 1) % CounterSize = noDataCount + 1
    BY CountAssumption DEF CountInv
  <2>2. threadsRunning /\ ticks < MaxTicksPerPass /\ ticks' = ticks + 1
    BY <1>11 DEF ServoTick
  <2>3. data => status' /\ noDataCount' = 0
    <3>1. ~(0 > DataErrMax)
      BY <1>t
    <3> QED
      BY <1>11, <3>1 DEF ServoTick, CommsUpdate
  <2>4. ~data /\ noDataCount + 1 <= DataErrMax /\ status => status' /\ noDataCount' = noDataCount + 1
    <3>1. noDataCount + 1 <= DataErrMax => ~(noDataCount + 1 > DataErrMax)
      BY <1>t
    <3> QED
      BY <1>11, <2>1, <3>1 DEF ServoTick, CommsUpdate
  <2>5. UNCHANGED <<pc, state, threadsRunning, rx, pkt, next, halted>>
    BY <1>11 DEF ServoTick
  <2>6. (data \/ Fresh) /\ pc \in {"top", "config", "tasks", "check", "switch"} => Fresh'
    BY <1>t, <2>2, <2>3, <2>4, <2>5
  <2> QED
    BY <2>2, <2>5, <2>6 DEF TypeInv, TypeOK
<1>12. CASE UNCHANGED vars
  BY <1>12 DEF vars
<1> QED
  BY <1>1, <1>2, <1>3, <1>4, <1>5, <1>6, <1>7, <1>8, <1>9, <1>10, <1>11, <1>12
  DEF Next, MainStep, Handle, Tasks, HandleSysReset, CheckConfig

(* With the W5500 interface and a host that sends READs and WRITEs only, a *)
(* nonzero command is never in rxData unwatched: for every dataErrMax, and *)
(* every number of servo ticks per pass that lets the loop look at the     *)
(* link before the watchdog has tripped and forgotten the packet.          *)
THEOREM CommandsAreWatched ==
  ASSUME Iface = "w5500", Kinds \subseteq {"read", "write"}
  PROVE  Spec => []CommandsWatched
<1>1. Init => LinkInv
  BY DEF Init, InitExceptStatus, LinkInv, WipeInv, ThreadInv, SeenInv, Commanded
<1>2. TypeInv /\ CountInv /\ LinkInv /\ [Next]_vars => LinkInv'
  BY LinkStep
<1>3. TypeInv /\ LinkInv => CommandsWatched
  BY DEF TypeInv, TypeOK, States, LinkInv, SeenInv, Commanded, Fresh, CommandsWatched
<1> QED
  BY <1>1, <1>2, <1>3, TypeInvariant, CountInvariant, PTL DEF Spec

-----------------------------------------------------------------------------
(* How long a command outlives its link.                                   *)

Late  == state \in {"RESET", "SYSRESET"}
Early == pc \in {"check", "switch", "wipe"}

(* While the link is up, stale follows noDataCount.  Then it grows by the  *)
(* ticks of this pass, of the pass before the one in which the main loop   *)
(* gets to its switch, and of one more once the loss has been seen.        *)
AgeInv ==
  /\ data => stale = 0
  /\ status => stale <= noDataCount + 1
  /\ state \in {"SETUP", "START"} => stale = 0
  /\ pc \in {"copy", "reply"} => stale <= ticks
  /\ Commanded /\ ~halted =>
       stale <= DataErrMax + 1 + (IF Late THEN MaxTicksPerPass ELSE 0)
                               + (IF Early THEN MaxTicksPerPass ELSE 0) + ticks
  /\ stale <= Expiry

LEMMA AgeStep ==
  ASSUME Iface = "w5500", Kinds \subseteq {"read", "write"},
         TypeInv, CountInv, LinkInv, AgeInv, [Next]_vars
  PROVE  AgeInv'
<1> USE DEF AgeInv, Late, Early, Goto, machine, receive, watchdog, history
<1>t. /\ noDataCount \in 0..DataErrMax /\ ticks \in 0..MaxTicksPerPass
      /\ MaxTicksPerPass \in Nat /\ DataErrMax \in Nat /\ stale \in Nat
      /\ Expiry = DataErrMax + 1 + 3 * MaxTicksPerPass
      /\ state \in States
  BY CountAssumption, ExpiryType DEF TypeInv, TypeOK, CountInv
<1>r. rx' = rx => (Commanded' => Commanded)
  BY DEF Commanded
<1>1. CASE UpdateHeader
  BY <1>t, <1>r, <1>1 DEF UpdateHeader
<1>2. CASE CheckFatal
  BY <1>t, <1>r, <1>2 DEF CheckFatal
<1>3. CASE HandleSetup \/ HandleStart \/ HandleIdle
  <2>1. Commanded' /\ ~halted' => stale' <= DataErrMax + 1
    BY <1>t, <1>r, <1>3 DEF HandleSetup, HandleStart, HandleIdle, LinkInv, SeenInv, Fresh
  <2>2. ~Late' /\ ~Early' /\ pc' = "config" /\ ticks' = ticks
    BY <1>3 DEF HandleSetup, HandleStart, HandleIdle
  <2> QED
    BY <1>t, <1>3, <2>1, <2>2 DEF HandleSetup, HandleStart, HandleIdle
<1>4. CASE HandleRunning
  BY <1>t, <1>r, <1>4 DEF HandleRunning
<1>5. CASE HandleReset
  <2>1. next \in Words /\ rx \in [Words -> Cmd \union {Zero}]
    BY <1>5, CmdAssumption DEF HandleReset, TypeInv, TypeOK, LinkInv, WipeInv
  <2>2. \A w \in Words : rx'[w] = IF w = next THEN Zero ELSE rx[w]
    BY <1>5, <2>1 DEF HandleReset
  <2>3. CASE next < NWords
    <3>1. Commanded' => Commanded
      BY <2>2 DEF Commanded
    <3> QED
      BY <1>t, <1>5, <2>3, <3>1 DEF HandleReset
  <2>4. CASE ~(next < NWords)
    <3>1. \A w \in Words : w < next => rx[w] = Zero
      BY <1>5, <2>1 DEF HandleReset, LinkInv, WipeInv
    <3>2. ~Commanded'
      BY <2>1, <2>2, <2>4, <3>1, CmdAssumption DEF Commanded
    <3> QED
      BY <1>t, <1>5, <2>4, <3>2 DEF HandleReset
  <2> QED
    BY <2>3, <2>4
<1>6. CASE Reboot
  BY <1>t, <1>6 DEF Reboot, Commanded
<1>7. CASE (CheckConfig /\ ~Reboot) \/ NoPacket \/ TftpComplete
  BY <1>t, <1>r, <1>7 DEF CheckConfig, NoPacket, TftpComplete
<1>8. ASSUME NEW p \in Packet, Arrive(p) PROVE AgeInv'
  BY <1>t, <1>r, <1>8 DEF Arrive
<1>9. CASE CopyWord
  BY <1>t, <1>r, <1>9 DEF CopyWord
<1>10. CASE FinishPacket
  BY <1>t, <1>r, <1>10 DEF FinishPacket
<1>11. CASE ServoTick
  <2>1. (noDataCount + 1) % CounterSize = noDataCount + 1
    BY CountAssumption DEF CountInv
  <2>2. /\ ticks < MaxTicksPerPass /\ ticks' = ticks + 1
        /\ UNCHANGED <<pc, state, rx, halted>> /\ ~data'
    BY <1>11 DEF ServoTick, CommsUpdate
  <2>3. stale' = IF ~Commanded \/ halted THEN 0
                 ELSE IF stale <= Expiry THEN stale + 1 ELSE stale
    BY <1>11 DEF ServoTick, Cleared, Commanded
  <2>4. stale' \in Nat /\ stale' <= stale + 1
    BY <1>t, <2>3
  <2>0. stale' = 0 \/ (Commanded /\ ~halted)
    BY <2>3
  <2>5. status' => stale' <= noDataCount' + 1
    <3>1. CASE data
      <4>1. stale' <= 1
        BY <1>t, <2>4, <3>1
      <4>2. noDataCount' = 0
        BY <1>t, <1>11, <3>1 DEF ServoTick, CommsUpdate
      <4>3. stale' <= noDataCount' + 1
        BY <2>4, <4>1, <4>2
      <4> QED
        BY <4>3
    <3>2. CASE ~data
      <4>1. CASE noDataCount + 1 > DataErrMax
        BY <1>11, <2>1, <3>2, <4>1 DEF ServoTick, CommsUpdate
      <4>2. CASE ~(noDataCount + 1 > DataErrMax)
        <5>1. noDataCount' = noDataCount + 1 /\ (status' => status)
          BY <1>11, <2>1, <3>2, <4>2 DEF ServoTick, CommsUpdate
        <5>2. stale <= noDataCount + 1 => stale' <= noDataCount' + 1
          BY <1>t, <2>4, <5>1
        <5> QED
          BY <5>1, <5>2
      <4> QED
        BY <4>1, <4>2
    <3> QED
      BY <3>1, <3>2
  <2>6. state \notin {"SETUP", "START"}
    BY <1>11 DEF ServoTick, LinkInv, ThreadInv
  <2>7. Commanded' => Commanded
    BY <1>r, <2>2
  <2>9. Commanded /\ ~halted => stale + 1 <= Expiry
    BY <1>t, <2>2
  <2>10. Commanded' /\ ~halted' =>
           stale' <= DataErrMax + 1 + (IF Late THEN MaxTicksPerPass ELSE 0)
                       + (IF Early THEN MaxTicksPerPass ELSE 0) + ticks'
    BY <1>t, <2>0, <2>2, <2>4, <2>7
  <2>11. stale' <= Expiry
    BY <1>t, <2>0, <2>4, <2>9
  <2>12. pc \in {"copy", "reply"} => stale' <= ticks'
    BY <1>t, <2>2, <2>4
  <2>13. (Late' <=> Late) /\ (Early' <=> Early) /\ Expiry' = Expiry
    BY <2>2 DEF Expiry
  <2> HIDE DEF Late, Early
  <2>14. data' => stale' = 0
    BY <2>2
  <2>15. state' \in {"SETUP", "START"} => stale' = 0
    BY <2>2, <2>6
  <2>16. pc' \in {"copy", "reply"} => stale' <= ticks'
    BY <2>2, <2>12
  <2>17. (Commanded /\ ~halted)' =>
           stale' <= DataErrMax + 1 + (IF Late' THEN MaxTicksPerPass ELSE 0)
                       + (IF Early' THEN MaxTicksPerPass ELSE 0) + ticks'
    BY <2>10, <2>13
  <2> QED
    BY <2>5, <2>11, <2>13, <2>14, <2>15, <2>16, <2>17
<1>12. CASE UNCHANGED vars
  BY <1>12, <1>r DEF vars
<1> QED
  BY <1>1, <1>2, <1>3, <1>4, <1>5, <1>6, <1>7, <1>8, <1>9, <1>10, <1>11, <1>12
  DEF Next, MainStep, Handle, Tasks, HandleSysReset, CheckConfig

(* With the W5500 interface and a host that sends READs and WRITEs only, a *)
(* command is never acted on for longer than dataErrMax + 1 servo ticks    *)
(* and three passes of the main loop after the last packet, unless a fatal *)
(* status has stopped the state machine: the safety side, with its bound,  *)
(* of what StaleCommandsCleared says of the end.                           *)
THEOREM CommandsDoExpire ==
  ASSUME Iface = "w5500", Kinds \subseteq {"read", "write"}
  PROVE  Spec => []CommandsExpire
<1>1. Init => LinkInv
  BY DEF Init, InitExceptStatus, LinkInv, WipeInv, ThreadInv, SeenInv, Commanded
<1>2. TypeInv /\ CountInv /\ LinkInv /\ [Next]_vars => LinkInv'
  BY LinkStep
<1>3. Init => AgeInv
  BY CountAssumption, ExpiryType DEF Init, InitExceptStatus, AgeInv, Commanded, Late, Early
<1>4. TypeInv /\ CountInv /\ LinkInv /\ AgeInv /\ [Next]_vars => AgeInv'
  BY AgeStep
<1>5. AgeInv => CommandsExpire
  BY DEF AgeInv, CommandsExpire
<1> QED
  BY <1>1, <1>2, <1>3, <1>4, <1>5, TypeInvariant, CountInvariant, PTL DEF Spec

-----------------------------------------------------------------------------
(* A talking host gets the machine into RUNNING.                           *)

(* The main loop keeps running and, once the timers are started, so does   *)
(* the servo interrupt: what the fairness of FairSpec comes to.            *)
BothRun ==
  /\ []<><<MainStep>>_vars
  /\ []<>~threadsRunning \/ []<><<ServoTick>>_vars

In(s)  == state = s
At(S)  == pc \in S
Up     == In("RUNNING") \/ halted
Heard  == data \/ Fresh
Wiping == {"switch", "wipe"}

(* Around the loop: a packet handled is followed by the top of the loop,   *)
(* and from there every way back leads through the switch.                 *)
LEMMA Around ==
  /\ [Next]_vars /\ At({"reply"}) => At({"reply"})' \/ At({"top"})'
  /\ [Next]_vars /\ At({"reply"}) /\ MainStep => At({"top"})'
  /\ [Next]_vars /\ At({"top", "check"}) /\ ~halted'
       => At({"top", "check"})' \/ At({"switch"})'
<1> USE DEF Goto, At
<1>1. [Next]_vars /\ pc = "reply" => FinishPacket \/ pc' = "reply"
  BY DEF Next, MainStep, Handle, Tasks, UpdateHeader, CheckFatal, HandleSetup, HandleStart,
      HandleIdle, HandleRunning, HandleReset, HandleSysReset, CheckConfig, NoPacket,
      TftpComplete, Arrive, CopyWord, ServoTick, vars
<1>2. pc = "reply" /\ MainStep => FinishPacket
  BY DEF MainStep, Handle, Tasks, UpdateHeader, CheckFatal, HandleSetup, HandleStart,
      HandleIdle, HandleRunning, HandleReset, HandleSysReset, CheckConfig, NoPacket,
      TftpComplete, Arrive, CopyWord
<1>3. FinishPacket => pc' = "top"
  BY DEF FinishPacket
<1>4. [Next]_vars /\ pc \in {"top", "check"} => UpdateHeader \/ CheckFatal \/ pc' = pc
  BY DEF Next, MainStep, Handle, Tasks, HandleSetup, HandleStart,
      HandleIdle, HandleRunning, HandleReset, HandleSysReset, CheckConfig, NoPacket,
      TftpComplete, Arrive, CopyWord, FinishPacket, ServoTick, vars
<1>5. UpdateHeader => pc' = "check"
  BY DEF UpdateHeader
<1>6. CheckFatal /\ ~halted' => pc' = "switch"
  BY DEF CheckFatal
<1> QED
  BY <1>1, <1>2, <1>3, <1>4, <1>5, <1>6

(* Which steps move the state machine, and what leaves the switch.         *)
LEMMA StateSteps ==
  /\ [Next]_vars => Handle \/ (newFlashJson /\ Reboot) \/ state' = state
  /\ [Next]_vars /\ At(Wiping) => Handle \/ pc' = pc
<1>1. UpdateHeader \/ CheckFatal \/ NoPacket \/ TftpComplete \/ CopyWord \/ FinishPacket
        \/ (\E p \in Packet : Arrive(p)) \/ ServoTick \/ UNCHANGED vars => state' = state
  BY DEF UpdateHeader, CheckFatal, NoPacket, TftpComplete, CopyWord, FinishPacket, Arrive,
      ServoTick, vars, machine
<1>2. CheckConfig => (newFlashJson /\ Reboot) \/ state' = state
  BY DEF CheckConfig, machine
<1>3. At(Wiping) => ~(UpdateHeader \/ CheckFatal \/ NoPacket \/ TftpComplete \/ CopyWord
        \/ FinishPacket \/ (\E p \in Packet : Arrive(p)) \/ CheckConfig)
  BY DEF At, Wiping, Goto, UpdateHeader, CheckFatal, NoPacket, TftpComplete, CopyWord,
      FinishPacket, Arrive, CheckConfig
<1>4. ServoTick \/ UNCHANGED vars => pc' = pc
  BY DEF ServoTick, vars
<1> QED
  BY <1>1, <1>2, <1>3, <1>4 DEF Next, MainStep, Tasks

(* Without RUNNING and without uploads, every state leads to IDLE.         *)
LEMMA StateGraph ==
  ASSUME TypeInv, [Next]_vars, ~Up', ~newFlashJson
  PROVE  /\ In("SYSRESET") => In("SYSRESET")' \/ In("SETUP")'
         /\ In("SETUP") => In("SETUP")' \/ In("START")'
         /\ In("START") => In("START")' \/ In("IDLE")'
         /\ In("RESET") => In("RESET")' \/ In("IDLE")'
         /\ In("IDLE") => In("IDLE")'
         /\ ~In("RUNNING") => \/ In("SYSRESET") \/ In("SETUP") \/ In("START")
                              \/ In("RESET") \/ In("IDLE")
<1> USE DEF In, Up
<1>1. CASE Handle
  BY <1>1 DEF Handle, HandleSetup, HandleStart, HandleIdle, HandleRunning, HandleReset,
      HandleSysReset, Reboot, TypeInv, TypeOK, States
<1>2. CASE state' = state
  BY <1>2 DEF TypeInv, TypeOK, States
<1> QED
  BY <1>1, <1>2, StateSteps

LEMMA SwitchLeaves ==
  ASSUME NEW s \in {"SYSRESET", "SETUP", "START", "RESET"},
         [Next]_vars, In(s), In(s)', At(Wiping)
  PROVE  At(Wiping)'
<1>1. CASE Handle
  BY <1>1 DEF In, At, Wiping, Goto, Handle, HandleSetup, HandleStart, HandleIdle,
      HandleRunning, HandleReset, HandleSysReset, Reboot
<1>2. CASE pc' = pc
  BY <1>2 DEF At
<1> QED
  BY <1>1, <1>2, StateSteps

(* In IDLE with a live link the switch is left for RUNNING.                *)
LEMMA IdleLeaves ==
  ASSUME [Next]_vars, In("IDLE"), In("IDLE")', Fresh, At({"switch"})
  PROVE  At({"switch"})'
<1>0. At(Wiping)
  BY DEF At, Wiping
<1>1. CASE Handle
  BY <1>1 DEF In, At, Fresh, Goto, Handle, HandleSetup, HandleStart, HandleIdle,
      HandleRunning, HandleReset, HandleSysReset, Reboot
<1>2. CASE pc' = pc
  BY <1>2 DEF At
<1> QED
  BY <1>0, <1>1, <1>2, StateSteps
(* In IDLE a packet is not forgotten: the next servo tick brings the link  *)
(* up, and it stays up until the main loop looks at it.                    *)
LEMMA HeardTick ==
  ASSUME TypeInv, CountInv, ServoTick, Heard
  PROVE  Fresh'
<1> USE DEF Heard, Fresh
<1>t. /\ noDataCount \in 0..DataErrMax /\ ticks \in 0..MaxTicksPerPass
      /\ MaxTicksPerPass \in Nat /\ DataErrMax \in Nat
      /\ 2 * MaxTicksPerPass <= DataErrMax + 1
  BY CountAssumption, PollAssumption DEF TypeInv, TypeOK, CountInv
<1>1. (noDataCount + 1) % CounterSize = noDataCount + 1
  BY CountAssumption DEF CountInv
<1>2. ticks < MaxTicksPerPass /\ ticks' = ticks + 1 /\ pc' = pc
  BY DEF ServoTick
<1>3. CASE data
  <2>1. ~(0 > DataErrMax)
    BY <1>t
  <2>2. status' /\ noDataCount' = 0
    BY <1>3, <2>1 DEF ServoTick, CommsUpdate
  <2> QED
    BY <1>t, <1>2, <2>2
<1>4. CASE ~data
  <2>1. ~(noDataCount + 1 > DataErrMax)
    BY <1>t, <1>2, <1>4
  <2>2. status' /\ noDataCount' = noDataCount + 1
    BY <1>1, <1>4, <2>1 DEF ServoTick, CommsUpdate
  <2> QED
    BY <1>t, <1>2, <1>4, <2>2
<1> QED
  BY <1>3, <1>4

LEMMA HeardPacket ==
  ASSUME Iface = "w5500", Kinds \subseteq {"read", "write"}, TypeInv, At({"reply"}), MainStep
  PROVE  Heard'
<1>1. FinishPacket
  BY DEF At, Goto, MainStep, Handle, Tasks, UpdateHeader, CheckFatal, HandleSetup,
      HandleStart, HandleIdle, HandleRunning, HandleReset, HandleSysReset, CheckConfig,
      NoPacket, TftpComplete, Arrive, CopyWord
<1>2. pkt.kind \in {"read", "write"}
  BY DEF At, TypeInv, CopyBounded, Packet
<1> QED
  BY <1>1, <1>2 DEF FinishPacket, Notify, Heard

LEMMA HeardStep ==
  ASSUME TypeInv, CountInv, [Next]_vars, In("IDLE"), In("IDLE")', ~Up'
  PROVE  (Heard => Heard') /\ (Fresh => Fresh')
<1> USE DEF Heard
<1>t. /\ noDataCount \in 0..DataErrMax /\ ticks \in 0..MaxTicksPerPass
      /\ MaxTicksPerPass \in Nat
  BY CountAssumption DEF TypeInv, TypeOK, CountInv
<1>1. CASE UpdateHeader
  BY <1>t, <1>1 DEF UpdateHeader, Fresh, Goto, watchdog
<1>2. CASE CheckFatal
  BY <1>2 DEF CheckFatal, Fresh, Up, watchdog
<1>3. CASE Handle
  BY <1>3 DEF Handle, HandleSetup, HandleStart, HandleIdle, HandleRunning, HandleReset,
      HandleSysReset, Reboot, In, Fresh, Goto, watchdog
<1>4. CASE CheckConfig
  BY <1>4 DEF CheckConfig, Reboot, In, Fresh, watchdog
<1>5. CASE NoPacket \/ TftpComplete \/ CopyWord
  BY <1>5 DEF NoPacket, TftpComplete, CopyWord, Fresh, Goto, watchdog
<1>6. ASSUME NEW p \in Packet, Arrive(p) PROVE (Heard => Heard') /\ (Fresh => Fresh')
  BY <1>6 DEF Arrive, Fresh, watchdog
<1>7. CASE FinishPacket
  BY <1>7 DEF FinishPacket, Notify, Fresh, Goto
<1>8. CASE ServoTick
  BY <1>8, HeardTick
<1>9. CASE UNCHANGED vars
  BY <1>9 DEF vars, Fresh, watchdog
<1> QED
  BY <1>1, <1>2, <1>3, <1>4, <1>5, <1>6, <1>7, <1>8, <1>9 DEF Next, MainStep, Tasks
RunInv == state \notin {"SETUP", "START"} => threadsRunning

LEMMA ThreadsRun == Spec => []RunInv
<1>1. Init => RunInv
  BY DEF Init, InitExceptStatus, RunInv
<1>2. RunInv /\ [Next]_vars => RunInv'
  <2> SUFFICES ASSUME RunInv, [Next]_vars PROVE RunInv'
    OBVIOUS
  <2>1. CASE Handle
    BY <2>1 DEF RunInv, Handle, HandleSetup, HandleStart, HandleIdle, HandleRunning,
        HandleReset, HandleSysReset, Reboot
  <2>2. CASE Reboot
    BY <2>2 DEF RunInv, Reboot
  <2>3. ~Handle /\ ~Reboot => UNCHANGED <<state, threadsRunning>>
    BY DEF Next, MainStep, Tasks, UpdateHeader, CheckFatal, CheckConfig, NoPacket,
        TftpComplete, CopyWord, FinishPacket, Arrive, ServoTick, vars, machine
  <2> QED
    BY <2>1, <2>2, <2>3 DEF RunInv
<1> QED
  BY <1>1, <1>2, PTL DEF Spec

(* While packets are handled, the loop comes by its switch.                *)
LEMMA SwitchComes ==
  Spec /\ []<><<MainStep>>_vars /\ []<>At({"reply"}) /\ <>[]~Up => []<>At({"switch"})
<1>1. ~Up => ~halted
  BY DEF Up
<1>2. ~At({"reply"}) \/ ~At({"top", "check"})
  BY DEF At
<1>3. At({"top"}) => At({"top", "check"})
  BY DEF At
<1> QED
  BY <1>1, <1>2, <1>3, Around, PTL DEF Spec

(* ... and leaves it, so that without RUNNING the machine ends up in IDLE. *)
LEMMA IdleComes ==
  /\ Spec /\ []<><<MainStep>>_vars /\ []<>At({"reply"})
  /\ <>[]~newFlashJson /\ <>[]~Up
  => <>[]In("IDLE")
<1>1. TypeInv /\ [Next]_vars /\ ~Up' /\ ~newFlashJson =>
         /\ In("SYSRESET") => In("SYSRESET")' \/ In("SETUP")'
         /\ In("SETUP") => In("SETUP")' \/ In("START")'
         /\ In("START") => In("START")' \/ In("IDLE")'
         /\ In("RESET") => In("RESET")' \/ In("IDLE")'
         /\ In("IDLE") => In("IDLE")'
         /\ ~In("RUNNING") => \/ In("SYSRESET") \/ In("SETUP") \/ In("START")
                              \/ In("RESET") \/ In("IDLE")
  BY StateGraph
<1>2. [Next]_vars /\ At(Wiping) =>
         /\ In("SYSRESET") /\ In("SYSRESET")' => At(Wiping)'
         /\ In("SETUP") /\ In("SETUP")' => At(Wiping)'
         /\ In("START") /\ In("START")' => At(Wiping)'
         /\ In("RESET") /\ In("RESET")' => At(Wiping)'
  BY SwitchLeaves
<1>3. At({"switch"}) => At(Wiping)
  BY DEF At, Wiping
<1>4. ~At({"reply"}) \/ ~At(Wiping)
  BY DEF At, Wiping
<1>5. In("RUNNING") => Up
  BY DEF Up
<1> QED
  BY <1>1, <1>2, <1>3, <1>4, <1>5, SwitchComes, TypeInvariant, PTL DEF Spec

(* With the W5500 interface, a host whose READs and WRITEs keep arriving   *)
(* gets the machine into RUNNING again and again, given that the main loop *)
(* and the servo interrupt keep running: for every dataErrMax and every    *)
(* number of ticks per pass that lets the loop look at the link in time.   *)
THEOREM LinkDoesComeUp ==
  ASSUME Iface = "w5500", Kinds \subseteq {"read", "write"}
  PROVE  Spec /\ BothRun => LinkComesUp
<1>1. TypeInv /\ CountInv /\ [Next]_vars /\ In("IDLE") /\ In("IDLE")' /\ ~Up' =>
         (Heard => Heard') /\ (Fresh => Fresh')
  BY HeardStep
<1>2. TypeInv /\ CountInv /\ ServoTick /\ Heard => Fresh'
  BY HeardTick
<1>3. TypeInv /\ At({"reply"}) /\ MainStep => Heard'
  BY HeardPacket
<1>4. [Next]_vars /\ In("IDLE") /\ In("IDLE")' /\ Fresh /\ At({"switch"}) => At({"switch"})'
  BY IdleLeaves
<1>5. RunInv /\ In("IDLE") => threadsRunning
  BY DEF RunInv, In
<1>6. ~At({"reply"}) \/ ~At({"switch"})
  BY DEF At
<1>7. ~At({"reply"}) \/ ~At({"top"})
  BY DEF At
<1>8. /\ At({"reply"}) <=> pc = "reply"
      /\ Up <=> state = "RUNNING" \/ halted
  BY DEF At, Up, In
<1>9. /\ [Next]_vars /\ At({"reply"}) => At({"reply"})' \/ At({"top"})'
      /\ [Next]_vars /\ At({"reply"}) /\ MainStep => At({"top"})'
  BY Around
<1>10. [Next]_vars /\ At({"reply"}) => At({"reply"})' \/ MainStep
  BY DEF Next, ServoTick, vars, At
<1> QED
  BY <1>1, <1>2, <1>3, <1>4, <1>5, <1>6, <1>7, <1>8, <1>9, <1>10, SwitchComes, IdleComes,
     TypeInvariant, CountInvariant, ThreadsRun, PTL DEF Spec, BothRun, LinkComesUp

-----------------------------------------------------------------------------
(* The native interfaces never tell the watchdog.                          *)

NeverHeard == ~data /\ ~status /\ state \in {"SETUP", "START", "IDLE"}

(* With a native Ethernet interface, UDP as well as TCP, the machine never *)
(* leaves IDLE for RUNNING, whatever packets arrive: both flag_new_data    *)
(* are empty, so CommsHandler never hears of a packet.                     *)
THEOREM NativeNeverRuns ==
  ASSUME Iface # "w5500"
  PROVE  Spec => [](state # "RUNNING")
<1>1. Init => NeverHeard
  BY DEF Init, InitExceptStatus, NeverHeard
<1>2. NeverHeard /\ [Next]_vars => NeverHeard'
  <2> SUFFICES ASSUME NeverHeard, [Next]_vars PROVE NeverHeard'
    OBVIOUS
  <2> USE DEF NeverHeard, machine, watchdog, Goto
  <2>1. CASE UpdateHeader \/ CheckFatal \/ (CheckConfig /\ ~Reboot)
    BY <2>1 DEF UpdateHeader, CheckFatal, CheckConfig
  <2>2. CASE HandleSetup \/ HandleStart \/ HandleIdle \/ HandleRunning \/ HandleReset
    BY <2>2 DEF HandleSetup, HandleStart, HandleIdle, HandleRunning, HandleReset
  <2>3. CASE Reboot
    BY <2>3 DEF Reboot
  <2>4. CASE NoPacket \/ TftpComplete \/ CopyWord \/ \E p \in Packet : Arrive(p)
    BY <2>4 DEF NoPacket, TftpComplete, CopyWord, Arrive
  <2>5. CASE FinishPacket
    BY <2>5 DEF FinishPacket, Notify
  <2>6. CASE ServoTick
    BY <2>6 DEF ServoTick, CommsUpdate
  <2>7. CASE UNCHANGED vars
    BY <2>7 DEF vars
  <2> QED
    BY <2>1, <2>2, <2>3, <2>4, <2>5, <2>6, <2>7
    DEF Next, MainStep, Handle, Tasks, HandleSysReset, CheckConfig
<1>3. NeverHeard => state # "RUNNING"
  BY DEF NeverHeard
<1> QED
  BY <1>1, <1>2, <1>3, PTL DEF Spec
=============================================================================
