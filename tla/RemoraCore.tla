----------------------------- MODULE RemoraCore -----------------------------
(***************************************************************************)
(* The firmware's main loop (Remora::run), the communication watchdog      *)
(* (CommsHandler, ticked by the servo interrupt) and the receive buffer    *)
(* rxData that the main loop fills and the base interrupt reads.           *)
(* A definition named XMut is X with a plausible slip, kept beside X: some *)
(* property checked by the runs rejects it.                                *)
(*                                                                         *)
(* Three contexts run: the main loop, one step of pc at a time; the servo  *)
(* interrupt (ServoTick), which may come between any two of those steps    *)
(* and is never interrupted by them; and the base interrupt, which only    *)
(* reads rx here, at any moment, so that every reachable value of rx is a  *)
(* value the step generators may act on.                                   *)
(***************************************************************************)
EXTENDS Naturals, FiniteSets

CONSTANTS
  Iface,           (* "udp": STM32F4_NativeEthUDPComms, the default       *)
                   (* build; "tcp": STM32F4_NativeEthComms; "w5500":      *)
                   (* STM32F4_EthComms with W5500_Networking              *)
  Kinds,           (* headers the host sends: "read", "write", "other"    *)
  Cmd,             (* motion commands a packet may carry                  *)
  Zero,            (* the cleared command                                 *)
  NWords,          (* command words in rxData                             *)
  MaxLen,          (* command words in the longest datagram that arrives  *)
  DataErrMax,      (* Config::dataErrMax                                  *)
  CounterSize,     (* noDataCount is a uint8_t: 2^8 values                *)
  MaxTicksPerPass  (* servo ticks during one pass of the main loop: a     *)
                   (* pass is much shorter than the dataErrMax ms timeout *)

ASSUME IfaceAssumption == Iface \in {"udp", "tcp", "w5500"} /\ Kinds \subseteq {"read", "write", "other"}
ASSUME CmdAssumption   == Zero \notin Cmd /\ NWords \in Nat \ {0}
(* network::udp_data_callback copies p->len bytes over rxData, whatever    *)
(* p->len is; what lies behind rxData is not in this model, so a W5500     *)
(* host is assumed to keep to the length of the protocol.  The native      *)
(* interfaces test the length and take datagrams of any size.              *)
ASSUME LenAssumption   == MaxLen \in Nat /\ (Iface = "w5500" => MaxLen <= NWords)
ASSUME CountAssumption ==
  /\ DataErrMax \in Nat \ {0} /\ CounterSize \in Nat /\ MaxTicksPerPass \in Nat
  /\ DataErrMax + 1 < CounterSize
(* Between two looks at the link the main loop is preempted by fewer ticks *)
(* than the watchdog takes to trip: two passes fit in dataErrMax + 1 ms.   *)
ASSUME PollAssumption == 2 * MaxTicksPerPass <= DataErrMax + 1

VARIABLES
  pc,              (* the step of Remora::run the main loop is at         *)
  state,           (* Remora::currentState                                *)
  remoraStatus,    (* the status byte, by meaning                         *)
  modules,         (* loadModules created modules from a parsed config    *)
  threadsRunning,  (* the servo and base timers are started               *)
  reset,           (* Remora::reset, written by the ResetPin module       *)
  header,          (* txData.header: its code and its status bits         *)
  sent,            (* header of the last datagram sent to the host        *)
  data, noDataCount, status,      (* CommsHandler                         *)
  rx,              (* the command words of rxData                         *)
  pkt, next,       (* the packet being handled, the next word to write    *)
  newFlashJson,    (* JsonConfigHandler::new_flash_json                   *)
  ticks,           (* servo ticks in this pass (bounds the scheduling)    *)
  halted,          (* history: the loop has seen a fatal status           *)
  stale            (* history: servo ticks that a command has been in     *)
                   (* rxData since a packet was last in the loop's hands  *)

watchdog == <<data, noDataCount, status>>
transmit == <<header, sent>>
receive  == <<rx, pkt, next>>
machine  == <<state, modules, threadsRunning>>
shared   == <<remoraStatus, reset>>
history  == <<halted, stale>>
vars == <<pc, machine, shared, transmit, watchdog, receive, newFlashJson, ticks, history>>

Words  == 1..NWords
Packet == [kind: Kinds, cmd: Cmd, len: 0..MaxLen]
NoPkt  == [kind |-> "none", cmd |-> Zero, len |-> 0]

(* Remora::State; ST_STOP is declared and never entered. *)
States == {"SETUP", "START", "IDLE", "RUNNING", "RESET", "SYSRESET"}

(* 0x00; 0x07 CONFIG_LOADED_DEFAULT; 0x51 a position error; bit 7 set.    *)
BootStatus == {"ok", "default", "fatal"}
Statuses   == BootStatus \union {"error"}
Fatal      == remoraStatus = "fatal"

Header == [code: {"data", "ack"}, status: Statuses]
NoneSent == [code |-> "none", status |-> "ok"]

Goto(from, to) == pc = from /\ pc' = to

Cleared == \A w \in Words : rx[w] = Zero

(* dataErrMax + 1 servo ticks and three passes of the main loop; stale is  *)
(* counted no further than one tick beyond.                                *)
Expiry == DataErrMax + 1 + 3 * MaxTicksPerPass

-----------------------------------------------------------------------------
(* Start-up and reset.                                                     *)

(* Every static and member as the constructors leave it; the configuration *)
(* handler has set remoraStatus and updateHeader has published it.         *)
InitExceptStatus ==
  /\ pc = "top" /\ state = "SETUP"
  /\ modules = FALSE /\ threadsRunning = FALSE /\ reset = FALSE
  /\ sent = NoneSent
  /\ data = FALSE /\ noDataCount = 0 /\ status = FALSE
  /\ rx = [w \in Words |-> Zero] /\ pkt = NoPkt /\ next = 1
  /\ newFlashJson = FALSE /\ ticks = 0 /\ halted = FALSE /\ stale = 0

Init ==
  /\ InitExceptStatus
  /\ remoraStatus \in BootStatus
  /\ header = [code |-> "data", status |-> remoraStatus]

(* HAL_NVIC_SystemReset and pru_reboot: the next boot may find another     *)
(* configuration in flash.                                                 *)
Reboot ==
  /\ pc' = "top" /\ state' = "SETUP"
  /\ modules' = FALSE /\ threadsRunning' = FALSE /\ reset' = FALSE
  /\ sent' = NoneSent
  /\ data' = FALSE /\ noDataCount' = 0 /\ status' = FALSE
  /\ rx' = [w \in Words |-> Zero] /\ pkt' = NoPkt /\ next' = 1
  /\ newFlashJson' = FALSE /\ ticks' = 0 /\ halted' = FALSE /\ stale' = 0
  /\ remoraStatus' \in BootStatus
  /\ header' = [code |-> "data", status |-> remoraStatus']

-----------------------------------------------------------------------------
(* The main loop.                                                          *)

(* updateHeader, at the head of every pass. *)
UpdateHeader ==
  /\ Goto("top", "check")
  /\ header' = [code |-> "data", status |-> remoraStatus]
  /\ ticks' = 0
  /\ UNCHANGED <<machine, shared, sent, watchdog, receive, newFlashJson, history>>

(* A fatal status skips the state machine and only runs comms->tasks.      *)
CheckFatal ==
  /\ pc = "check"
  /\ pc' = IF Fatal THEN "tasks" ELSE "switch"
  /\ halted' = (halted \/ Fatal)
  /\ UNCHANGED <<machine, shared, transmit, watchdog, receive, newFlashJson, ticks, stale>>

(* loadModules creates what the parsed configuration lists: nothing when   *)
(* loadConfiguration returned before parseJson.                            *)
HandleSetup ==
  /\ state = "SETUP" /\ Goto("switch", "config")
  /\ modules' = (remoraStatus = "ok")
  /\ state' = "START"
  /\ UNCHANGED <<threadsRunning, shared, transmit, watchdog, receive, newFlashJson, ticks, history>>

HandleStart ==
  /\ state = "START" /\ Goto("switch", "config")
  /\ threadsRunning' = TRUE
  /\ state' = "IDLE"
  /\ UNCHANGED <<modules, shared, transmit, watchdog, receive, newFlashJson, ticks, history>>

HandleIdle ==
  /\ state = "IDLE" /\ Goto("switch", "config")
  /\ state' = IF status THEN "RUNNING" ELSE "IDLE"
  /\ UNCHANGED <<modules, threadsRunning, shared, transmit, watchdog, receive, newFlashJson, ticks, history>>

(* A lost link asks for RESET; a reset request, tested second, wins.       *)
HandleRunningMut ==
  /\ state = "RUNNING" /\ Goto("switch", "config")
  /\ state' = IF reset THEN "SYSRESET" ELSE IF ~status THEN "IDLE" ELSE "RUNNING"
  /\ UNCHANGED <<modules, threadsRunning, shared, transmit, watchdog, receive, newFlashJson, ticks, history>>

HandleRunning ==
  /\ state = "RUNNING" /\ Goto("switch", "config")
  /\ state' = IF reset THEN "SYSRESET"
              ELSE IF ~status THEN "RESET" ELSE "RUNNING"
  /\ UNCHANGED <<modules, threadsRunning, shared, transmit, watchdog, receive, newFlashJson, ticks, history>>

(* resetBuffer is a memset that the interrupts see word by word, and the   *)
(* transition to IDLE follows it.                                          *)
HandleResetMut ==
  /\ state = "RESET" /\ pc \in {"switch", "wipe"}
  /\ rx' = IF next < NWords THEN [rx EXCEPT ![next] = Zero] ELSE rx
  /\ IF next < NWords
     THEN next' = next + 1 /\ pc' = "wipe" /\ UNCHANGED state
     ELSE next' = 1 /\ pc' = "config" /\ state' = "IDLE"
  /\ UNCHANGED <<modules, threadsRunning, shared, transmit, watchdog, pkt, newFlashJson, ticks, history>>

HandleReset ==
  /\ state = "RESET" /\ pc \in {"switch", "wipe"}
  /\ rx' = [rx EXCEPT ![next] = Zero]
  /\ IF next < NWords
     THEN next' = next + 1 /\ pc' = "wipe" /\ UNCHANGED state
     ELSE next' = 1 /\ pc' = "config" /\ state' = "IDLE"
  /\ UNCHANGED <<modules, threadsRunning, shared, transmit, watchdog, pkt, newFlashJson, ticks, history>>

HandleSysReset ==
  /\ state = "SYSRESET" /\ pc = "switch"
  /\ Reboot

(* A configuration uploaded over TFTP is checked once; if its length and   *)
(* CRC are right it is stored and the processor reboots.                   *)
CheckConfig ==
  /\ pc = "config"
  /\ \/ /\ pc' = "tasks"
        /\ newFlashJson' = FALSE
        /\ UNCHANGED <<machine, shared, transmit, watchdog, receive, ticks, history>>
     \/ /\ newFlashJson
        /\ Reboot

-----------------------------------------------------------------------------
(* comms->tasks: at most one packet is taken per pass.  Which packet comes *)
(* is up to the host and the network, so any packet may be lost, repeated  *)
(* or delayed.                                                             *)

NoPacket ==
  /\ Goto("tasks", "top")
  /\ UNCHANGED <<machine, shared, transmit, watchdog, receive, newFlashJson, ticks, history>>

(* W5500: the last block of a TFTP transfer arrived. *)
TftpComplete ==
  /\ Iface = "w5500" /\ Goto("tasks", "top")
  /\ newFlashJson' = TRUE
  /\ UNCHANGED <<machine, shared, transmit, watchdog, receive, ticks, history>>

(* Words of p that go into rxData.  The W5500 handler copies the payload,  *)
(* all of it, before it looks at the header.  The TCP one never looks at   *)
(* it and skips what is longer than rxData; the native UDP one copies only *)
(* a WRITE that fills the buffer, and no more of it than that.             *)
CopyLenMut(p) == IF Iface # "udp" \/ p.kind = "write" THEN p.len ELSE 0

CopyLen(p) ==
  IF Iface = "w5500" THEN p.len
  ELSE IF Iface = "tcp" THEN (IF p.len <= NWords THEN p.len ELSE 0)
  ELSE IF p.kind = "write" /\ p.len >= NWords THEN NWords ELSE 0

Arrive(p) ==
  /\ pc = "tasks"
  /\ pkt' = p /\ next' = 1
  /\ pc' = IF CopyLen(p) = 0 THEN "reply" ELSE "copy"
  /\ stale' = 0
  /\ UNCHANGED <<machine, shared, transmit, watchdog, rx, newFlashJson, ticks, halted>>

(* memcpy / pbuf_copy_partial, one word at a time. *)
CopyWord ==
  /\ pc = "copy"
  /\ rx' = [rx EXCEPT ![next] = pkt.cmd]
  /\ next' = next + 1
  /\ pc' = IF next < CopyLen(pkt) THEN "copy" ELSE "reply"
  /\ UNCHANGED <<machine, shared, transmit, watchdog, pkt, newFlashJson, ticks, history>>

(* A READ is answered with txData, a WRITE with an acknowledgement.  The   *)
(* reply's header replaces the one updateHeader wrote; the native handler  *)
(* acknowledges from a word of its own.  A pbuf may not be available.      *)
(* The TCP interface answers nothing.                                      *)
Reply ==
  LET plain(c) == [code |-> c, status |-> "ok"]
      delivered == sent' = plain(IF pkt.kind = "read" THEN "data" ELSE "ack")
  IN /\ header' = CASE pkt.kind = "read" /\ Iface # "tcp" -> plain("data")
                    [] pkt.kind = "write" /\ Iface = "w5500" -> plain("ack")
                    [] OTHER -> header
     /\ IF pkt.kind \in {"read", "write"} /\ Iface # "tcp"
        THEN delivered \/ (Iface = "udp" /\ UNCHANGED sent)
        ELSE UNCHANGED sent

(* Who tells the watchdog.  STM32F4_EthComms::tasks calls dataCallback for *)
(* a READ or WRITE; both native flag_new_data are empty and nothing calls  *)
(* dataCallback.                                                           *)
NotifyMut == UNCHANGED data

Notify ==
  IF Iface = "w5500" /\ pkt.kind \in {"read", "write"}
  THEN data' = TRUE ELSE UNCHANGED data

FinishPacket ==
  /\ Goto("reply", "top")
  /\ Reply
  /\ Notify
  /\ pkt' = NoPkt /\ next' = 1
  /\ stale' = 0
  /\ UNCHANGED <<machine, shared, noDataCount, status, rx, newFlashJson, ticks, halted>>

-----------------------------------------------------------------------------
(* The servo interrupt.                                                    *)

(* CommsHandler::update *)
CommsUpdateMut ==
  LET count == IF data THEN 0 ELSE (noDataCount + 1) % CounterSize
      lost  == count >= DataErrMax
  IN /\ noDataCount' = IF lost THEN 0 ELSE count
     /\ status' = (IF lost THEN FALSE ELSE data \/ status)
     /\ data' = FALSE

CommsUpdateMutLate ==
  LET count == IF data THEN 0 ELSE (noDataCount + 1) % CounterSize
      lost  == ~data /\ noDataCount > DataErrMax
  IN /\ noDataCount' = IF lost THEN 0 ELSE count
     /\ status' = (IF lost THEN FALSE ELSE data \/ status)
     /\ data' = FALSE

CommsUpdate ==
  LET count == IF data THEN 0 ELSE (noDataCount + 1) % CounterSize
      lost  == count > DataErrMax
  IN /\ noDataCount' = IF lost THEN 0 ELSE count
     /\ status' = (IF lost THEN FALSE ELSE data \/ status)
     /\ data' = FALSE

(* The modules after it: position monitors call setStatus, ResetPin copies *)
(* its pin.                                                                *)
ServoModules ==
  IF modules
  THEN /\ reset' \in BOOLEAN
       /\ remoraStatus' \in {remoraStatus, "error", "fatal"}
  ELSE UNCHANGED shared

ServoTick ==
  /\ threadsRunning /\ ticks < MaxTicksPerPass
  /\ CommsUpdate
  /\ ServoModules
  /\ ticks' = ticks + 1
  /\ stale' = IF Cleared \/ halted THEN 0
              ELSE IF stale <= Expiry THEN stale + 1 ELSE stale
  /\ UNCHANGED <<pc, machine, transmit, receive, newFlashJson, halted>>

-----------------------------------------------------------------------------
Handle ==
  \/ HandleSetup \/ HandleStart \/ HandleIdle
  \/ HandleRunning \/ HandleReset \/ HandleSysReset

Tasks ==
  \/ NoPacket \/ TftpComplete \/ CopyWord \/ FinishPacket
  \/ \E p \in Packet : Arrive(p)

MainStep == UpdateHeader \/ CheckFatal \/ Handle \/ CheckConfig \/ Tasks

Next == MainStep \/ ServoTick

Spec == Init /\ [][Next]_vars

(* The timer keeps interrupting and the processor keeps running.           *)
FairSpec == Spec /\ WF_vars(MainStep) /\ WF_vars(ServoTick)
-----------------------------------------------------------------------------
TypeOK ==
  /\ pc \in {"top", "check", "switch", "wipe", "config", "tasks", "copy", "reply"}
  /\ state \in States /\ remoraStatus \in Statuses
  /\ modules \in BOOLEAN /\ threadsRunning \in BOOLEAN /\ reset \in BOOLEAN
  /\ data \in BOOLEAN /\ status \in BOOLEAN
  /\ newFlashJson \in BOOLEAN /\ halted \in BOOLEAN
  /\ header \in Header /\ sent \in Header \union {NoneSent}
  /\ noDataCount \in 0..(CounterSize - 1)
  /\ rx \in [Words -> Cmd \union {Zero}]
  /\ pkt \in Packet \union {NoPkt}
  /\ next \in 1..(NWords + 1)
  /\ ticks \in 0..MaxTicksPerPass /\ stale \in 0..(Expiry + 1)

(* No word is written behind rxData: a copy in progress is at one of its   *)
(* words, whatever length the native interfaces are sent.                  *)
CopyInBounds == pc = "copy" => next \in Words

-----------------------------------------------------------------------------
(* The three fields of CommsHandler implement the abstract watchdog: the   *)
(* link is alive exactly while a valid packet was heard within the last    *)
(* dataErrMax + 1 ticks, although noDataCount is cleared when it trips and *)
(* keeps running, modulo 2^8, while the link is down.                      *)
Watch == INSTANCE LinkWatchdog WITH
           Limit   <- DataErrMax + 1,
           started <- threadsRunning,
           heard   <- data,
           silence <- IF status THEN noDataCount ELSE DataErrMax + 1

WatchdogRefines == Watch!WatchSpec

(* What the base interrupt can read of rxData: whatever moment it comes,   *)
(* the words written so far belong to the packet (or the memset) in        *)
(* progress and the others all to one earlier packet; outside that window  *)
(* all words belong to one packet.  Partial WRITEs must not reach rxData.  *)
UniformBuffer ==
  /\ pc \notin {"copy", "wipe"} => \A v, w \in Words : rx[v] = rx[w]
  /\ pc = "copy" => \A w \in Words : w < next => rx[w] = pkt.cmd
  /\ pc = "wipe" => \A w \in Words : w < next => rx[w] = Zero
  /\ \A v, w \in Words : (v < next /\ w < next) \/ (v >= next /\ w >= next) => rx[v] = rx[w]

(* No command outlives its link unnoticed: a nonzero command is in rxData  *)
(* only while its packet is still to be seen by the watchdog, the link is  *)
(* alive, or the state machine is on its way to clear the buffer.  A halt  *)
(* on a fatal status voids it.                                             *)
CommandsWatched ==
  (\E w \in Words : rx[w] # Zero) =>
    \/ data \/ status \/ halted
    \/ state \in {"RUNNING", "RESET", "SYSRESET"}
    \/ pc \in {"copy", "reply"}

(* How long that takes: a host's last command is acted on for at most      *)
(* dataErrMax + 1 servo ticks more and three passes of the main loop, one  *)
(* that misses the loss, one that sees it and one that clears the buffer,  *)
(* whatever the packet met on its way.                                     *)
CommandsExpire == stale <= Expiry

(* When the host falls silent, the receive buffer is cleared and stays so. *)
Silent == pc \notin {"copy", "reply"}
StaleCommandsCleared == <>[]Silent => <>[](Cleared \/ halted)

(* A host whose packets keep arriving gets the machine into RUNNING again  *)
(* and again, whatever resets happen meanwhile, once it has stopped        *)
(* uploading configurations.                                               *)
LinkComesUp ==
  ([]<>(pc = "reply") /\ <>[]~newFlashJson) => []<>(state = "RUNNING" \/ halted)
=============================================================================
