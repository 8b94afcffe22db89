# Verification of the WPA900 base-board firmware

TLA+ models of the firmware in `src/BASE_test(V1.01I2C)_ver1.3.0_3/`, checked by TLC on small
instances, and theorems about them for every value of their constants, checked by TLAPS. Paths
below are relative to that directory. `PROJECT.json` lists the components, runs, mutants, theorems,
findings and hazards, and maps every definition to the lines it models.

## 1. The system

The firmware runs on an STM32F107 without an operating system. It is the base board of a power
transformer monitor: it filters sixteen digital inputs, executes trips on the output board, asks the
measuring board for values over I2C, stores settings and event records in a flash page, and serves
telnet, UART, Modbus TCP and UDP clients.

What makes it hard is preemption. There is one main loop (`user/main.c`), and everything else runs in
interrupts (`NVIC_Configuration`, `BSP/bsp.c:150-192`):

| level | code | in the models |
|---|---|---|
| highest | `SysTick_Handler`: millisecond tick, `DiScanning` | an atomic action |
| 1 | `ETH_IRQHandler`: the whole of lwIP, the telnet shell, Modbus and UDP time | level 2 |
| 2, 3 | I2C error and event interrupts; CAN | left out |
| 4 | `USART1_IRQHandler`: the UART shell | level 1 |
| none | the main loop | level 0 |

So a shell command runs to its end inside an interrupt, in the middle of whatever the main loop was
doing, and a telnet command can do the same to a UART command. Nothing is locked: the semaphores of the
I2C code were taken out (`BSP/BaseBus_Protocol.c:111`). In the modules a level takes a step only when
all higher ones are idle, and a function whose state others share is cut into one action per access
that matters.

### Components

| component | state | operations | interacts through |
|---|---|---|---|
| Digital-input filter (`BSP/bsp.c:880-902`, `:1030-1050`) | `DiStatus_DI[]` | `DiScanning`, `GPIO_DealInputData` | `Value`, read by the main loop |
| Trips and SOE (`BSP/bsp.c:904-950`) | `turnned[]`, `Trip_turnned[]` | `Di_PostWork` | `DoExecute`, `soe_engine` |
| Settings page and queues (`user/Realtimedb.c`, `user/soe.c`) | `SetCurrent`, one flash page, the address in use | `DataBase_Init`, `DataBase_Write`, `Soe_enqueue`, `error_enqueue`, settings commands | called from all three levels |
| Ethernet supervision (`bsp.c:1234-1431`, `main.c:253-277`) | `eth_link_count`, `eth_recv_count`, `eth_reset_flag`, `EthInitState`, the listening sockets | `EthStateCheck`, `Ethernet_SWRST/HWRST`, `CommunicationInit`, `CloseEth` | receive interrupt, reset command |
| Base bus (`BSP/BaseBus_Protocol.c`, `BSP/I2CRoutines.c`) | `TxBuffer`, `RxBuffer`, `I2C_MeasureTab`, `error_count`, `BusBusyCounter`, the peripheral | `DoExecute`, `AiQuerry`, `AiCoefSet`, `Calibration`, `Time_Calib`, `I2CHW_Maintain` | called from all three levels |
| Shell sessions (`BSP/shellcmd.c`, `lwip-1.3.1/port/helloworld.c`) | `Shell_State`, `Shell_Msg`, `isCom`: one dialogue for both consoles and all connections | `UartProcess`, `HelloWorld_recv`, `ShellCmdMatch`, `CmdQNA`, `CmdPwdAsserted`, the `ShellEtr` functions, `CmdnShellInit` | settings, bus, Ethernet reset, clock |
| TCP connections (`lwip-1.3.1/src/core/tcp.c`, `tcp_in.c`, changed by this project) | `tcp_active_pcbs`, the pool, `callback_arg`, `Termpcb` | `tcp_input`, `tcp_listen_input`, `tcp_slowtmr`, `tcp_kill_prio`, `tcp_close_all_active` | callbacks of the telnet and Modbus servers |
| Modbus TCP, UDP time (`BSP/tcp_modbus.c`, `BSP/modbus.c`) | `RxBuffer` of each connection | `TcpModbus_accept`, `TcpModbus_recv`, `process_rx_data` | `DoExecute`, clock |
| CAN (`BSP/CanBus.c`, `main.c:66-73`) | `Can_OnlineCnt`, `Can_Online`, the 8-bit copy | receive interrupt, on-line check, `Can_Ticalib` | main loop, shell |
| Real-time clock (`bsp.c:338-499`, `user/RTC_Time.c`, `user/soe.c:36-46`) | backup registers, clock source, counter and divider | `RTC_Configuration`, `RTC_Init`, `Time_SetUnixTime`, `Get_Msec`, `soe_engine` | resets, battery, all who stamp records |
| Network glue (`user/netconf.c`, `lwip-1.3.1/src/core/netif.c`, `lwip-1.3.1/port/ethernetif.c`) | `netif_list`, `netifnum`, the DMA's descriptors, lwIP timers | `LwIP_Init`, `LwIP_Close`, `low_level_output`, `low_level_input`, `ETH_IRQHandler`, `LwIP_Periodic_Handle` | Ethernet supervision, DMA, lwIP |

All of these are modelled, in whole or in part. The parts that are not compiled, never started or
third-party are in `PROJECT.json` with the reason.

### What makes each component correct, and what makes that hard

* Filter: a steady input is reported in bounded time, noise is not, and no evidence survives a change.
  Hard because two counters clear each other, with a guard and two thresholds.
* Trips and SOE: one SOE per change in alternation, a held trip input is executed even if the bus fails.
  Hard because the tick changes the inputs between any two steps, and trip slots and inputs share an index.
* Settings: with no save under way the page is worth the RAM; a power failure never brings back half an
  address of the settings; the queue keeps the last records in order. Hard because an address is entered and copied octet
  by octet, saves of three levels interrupt one another, and power fails between two half-words.
* Ethernet supervision: requests are served once, sockets are opened and closed in turn, minutes count
  once, the interface comes back. Hard because a reset may interrupt a reset, and the clock is a calendar.
* Base bus: transfers never overlap; a trip is sent as it was asked for; measured values are those of a
  checked frame; requests and resets never dry up. Hard because buffers are shared by all levels and a
  trip resets the bus under whatever it interrupted.
* Shell: whoever answers a question is answered for what was asked; an output is only executed with the
  number that the password was asked for; only what was asked for is stored. Hard because two consoles at two levels
  share the dialogue and a command writes the shared message before anybody asks whether it may be used.
* TCP connections: the list holds the connections there are, and each server learns of the end of a connection
  once. Hard because a segment in the interrupt reorders the list that a timer in the main loop is walking.
* Modbus: an output moves only for a whole request. Hard because completeness is seen in the segment and the
  request is read from the buffer.
* CAN: silence is noticed, and a module that talks is on line. Hard because the check has three steps, an
  interrupt in between, and counters of different widths.
* Network glue: walks along the list of interfaces end, an interface that counts as up has its DMA running, frames are
  sent whole and in order, no frame waits unnoticed. Hard because the supervision opens and closes in orders that resets
  decide, and because two levels send over the same descriptors.
* Clock: a note never names another clock than the one in use, and stamps are in order. Hard because any step
  may be the last before a reset, and a stamp is three reads.

## 2. Modules

| module | models | proofs |
|---|---|---|
| `DiDebounce` | the filter; one action per tick, all pins | `DiDebounceProofs` |
| `DiPostWork` | `Di_PostWork`, with the filter's output as its environment | `DiPostWorkProofs` |
| `SettingStore` | the settings page, its writers at three levels, power failure and boot | `SettingStoreProofs` |
| `AddressStore` | abstract: what a power failure may do to the station's address; `SettingStore` implements it | `SettingStoreProofs` |
| `EthSupervisor` | the supervision, its resets from three levels, frames, link and clock | `EthSupervisorProofs` |
| `NetInterface` | the same, with lwIP's list of interfaces and the start of the DMA | `EthSupervisorProofs` |
| `BaseBus` | the bus operations of three levels, failing and sticking boards | `BaseBusProofs` |
| `ShellSession` | the dialogue of the two consoles, one action per access to the shared state | `ShellSessionProofs` |
| `ConnLife` | abstract: what TCP promises the servers about callbacks | |
| `TcpPcbs` | the list of active connections, segments against `tcp_slowtmr`; implements `ConnLife` | `TcpPcbsProofs` |
| `EthFrames` | sending and receiving over the descriptors shared with the DMA | `ServiceProofs` |
| `ModbusServer` | a connection's buffer and the request that is read from it | `ServiceProofs` |
| `CanLink` | the on-line supervision of the measuring module | `ServiceProofs` |
| `RtcClock` | the clock's set-up across resets, and time stamps | `ServiceProofs` |
| `Station` | the six of these that share no state (the shell, the connections, frames, Modbus, CAN, the clock), one at a time, for one run | `ServiceProofs` |

An `MC` module with `.cfg` files instantiates each for TLC. The modules meet at narrow interfaces:
`DiPostWork` sees of the filter only that `Value` may change at any moment; it sees of the bus only that
`DoExecute` fails or succeeds; `BaseBus` contains `DoExecute` and what happens to it. Comments in each
module give the correspondence; in brief:

* **DiDebounce.** `Sample` is `GPIO_DealInputData`. Nothing else writes `DiStatus_DI` and the handler runs at
  the highest level, so a tick is one atomic action. `obs` is history, read by no guard.
* **DiPostWork.** The main loop's place is `at`; one action per iteration of either loop. In the build of
  this repository (`SPECIALDITRIP`) the trip loop tests `Trip_turnned[i]` and sets `turnned[i]`, and so does the model.
* **SettingStore.** A cell is what is programmed in one go. `pc[w]` and `next[w]` say what level w's handler or
  `DataBase_Write` does next; programming reads `SetCurrent` as it is at that moment, and programming a
  cell that is not erased leaves it as it is, as the flash does. `PowerCycle` loses the RAM and runs `DataBase_Init`.
  `EnterOctet` is one turn of `ShellEtrAddr`'s loop: an octet up to 255 is in use at once, one above 255 ends the entry with those
  before it in use and nothing saved. `CmdSetting` looks at the message the two shells share (`m_type`), which the other console may have
  overwritten since (`Ask`), and `Settle` is one octet of its `memcpy` from `DevIPAddressTab`, loaded at its start or only then. A name is one
  value, entered in one step. `unsaved` is history: an octet was entered that no `CmdSetting` has copied since.
  The trip-SOE queue and the error queue have the same code; one queue stands for either.
* **AddressStore.** The address in use, that of the settings, and the one that a power failure would bring back. The first two change
  octet by octet and may be mixtures; the last is the default from the erasing of the page to its last cell, and the settings' as a whole
  from then on, if no octet of it is 255. The refinement mapping reads it from the page.
* **EthSupervisor.** The pass of the main loop is a chain of places; `eth_recv_count.count++` is a load and a store, since the receive
  interrupt clears it. So is `eth_link_count.count++`, which a console's reset clears: `LinkMissed` reads the clock, `LinkCompare` compares,
  `LinkAdd` adds to the count as it was loaded or as it is now, `LinkMark` sets `t_begin`. A reset is three actions at any level.
  The clock is an hour and a minute and may also be set. A `struct tm` is copied and compared in one step each.
* **NetInterface.** Extends `EthSupervisor` by superposition: each of its actions is an action of the supervision with what
  that does to `netif_list`, the next number and the DMA, so it implements `EthSupervisor` (`NetImplements`), and frames only come
  through a DMA that has been started. There is one `struct netif`; added twice it is its own successor ("ring").
* **EthFrames.** `low_level_output` is six actions at either level: the current buffer, two halves of the copy, the test of OWN,
  the handing over, the next descriptor. `DMATxDescToSet` is not volatile: wherever the code reads it again within a function,
  the model takes the value read before or the present one (`ReadAgain`). `spoilt` is history: buffers written while the DMA owned
  them, which happens when a frame is dropped because both descriptors wait, or handed over by a frame of the main loop's that the interrupt
  came into. `inside` and `crossed` are history: the interrupt has sent in the middle of the main loop's present frame, or of any since the descriptors
  were linked. The model goes on after a crossing; `queue` is kept up to the first one.
  `low_level_init` is a step of the main loop between two frames.
* **BaseBus.** `live` are the levels whose transfer the peripheral is carrying on; the BUSY bit is
  `live # {} \/ stuck`. Two of the command's eight bytes vary and are filled and sent one by one.
  A frame is "cleared", "partial", "good" or "bad". `error_count++` of a failed or skipped query is a load and a store.
  A preempted CRC computation may reject a good frame, since the CRC unit is shared.
  `preempted` is history: the levels that a bus operation above has interrupted since their operation began.
* **ShellSession.** `shell_pc[w]` is the place in the handler of console w (1: UART, 2: telnet, which preempts
  it), `line[w]` the line it handles, `from[w]` the state that its switch has read. `Finish` and `Clear` are the
  two writes of `CmdnShellInit`, and of the end of a command in `CmdPwdAsserted`. A line is a row of `CmdTable`, the password, "Y" or another text;
  texts, and the places that depend on nothing but them, are left out. `mixed` is history: telnet has preempted
  the serial line's handler, and the dialogue begun then has not ended.
* **TcpPcbs.** `next` and `tcp_active_pcbs` are the code's pointers; `Reached` is what a search from the head meets.
  A segment (interrupt) is one action that moves its block to the front, and calls back; `SlowTimer`, `Keep`,
  `Expire`, `LoadNext`, `Remove` are the steps of `tcp_slowtmr` with its local `prev` and `pcb`, and `pcb->next` between its load and its store. `CloseBegins` and `CloseOne` are
  `tcp_close_all_active` in the main loop or the serial console's interrupt (one of them at a time), with its local `pcb` in `closing`;
  `TelnetResets` is telnet's reset command, which nothing interrupts. `damaged` records that `Remove`
  unlinked a block from a place it was no longer in or stored a `pcb->next` that had changed, or that a block was given back twice; the model ends there.
  One step each, though the code takes several: a `memp_malloc` or `memp_free`, what `tcp_slowtmr` does from the store of `prev->next` to the next
  block, and `TCP_RMV` in a reset. The servers only close passively and send no data that could be refused; a FIN before the handshake ends is left out.
* **ModbusServer.** `Taken` is the loop over the segment, `Done` the flag it leaves, `Request` the six bytes that
  `process_rx_data` reads at offset 6 of the buffer. A segment is one pbuf. `answered` is what `tcp_write` has taken; it may refuse (`unwritten`), and the code does
  not look. The loop's index is a `uint8_t`: a segment of 256 bytes or more without a request in front never ends it (`Endless`), and only
  the watchdog, in the build that has it, helps.
* **CanLink.** `Check`, `Copy` and `Gone` are the two reads and the two writes of `main.c:69-72`; frames come between them.
* **RtcClock.** `rtc_pc` walks through `RTC_Configuration` and `RTC_Init` with one action per register that outlives a reset;
  `BoardReset` and `BatteryLost` may come at any place. `ReadLow`, `ReadHigh`, `Record` are the reads of a stamp.

## 3. Runs

| run | result | shows |
|---|---|---|
| `didebounce` | pass | with the firmware's thresholds (16, 10, guard 3): a steady input is reported after 17 or 11 samples; a change needs a threshold of contrary samples since the last one |
| `dipostwork` | pass | SOE streams alternate and follow a steady level; a held trip input is executed although the bus fails at first |
| `trip` | violation | a trip is executed again in every pass while its input stays on |
| `settingstore` | pass | idle means durable; the page implements `AddressStore`; the queue keeps the last records, through interrupted saves and power failures |
| `settingsblank` | violation | the first record on a page never written is copied to slot 255 |
| `ethsupervisor` | pass | requests served once, sockets alternate, minutes count once, the interface comes back, walks along `netif_list` end, an interface that is up has its DMA running |
| `ethsoft` | violation | software resets follow one another without bound |
| `ethtwice` | violation | a shell's reset inside the main loop's own closes freed sockets |
| `ethmidnight` | violation | a link lost in the last minute of the day is never followed by a reset |
| `basebus` | pass | transfers never overlap, only outputs abort them, data is wrong only after a preemption, requests and resets go on |
| `basebussuccess` | violation | `DoExecute` reports success for a command it did not send |
| `station` | pass | the shell's dialogue, the connections (against `ConnLife`), frames, Modbus, CAN and the clock: fourteen properties of six parts |

`station` is a sum, not a product: the six parts share no variable, `part` says which one runs, and each explores all
of its own interleavings. What the shells do to settings, bus and Ethernet is in those components' runs. `Modbus` and the
shells drive outputs through `DoExecute`, which `BaseBus` models for all its callers.

`IdleMeansDurable`, `StoredAsAsked`, `DialogueSound`, `TextsReachSession`, `ListSound`, `TxSound`, `RxNoticed`, `ModbusAnswers`, `UpMeansRunning`, `WalksEnd`, `CanOnlineTrue` and `RecordsInOrder` name what
the code does not achieve as exceptions in their premises, and the comments beside them say in which line each exception
comes from; without them they are violated.

Each violation is a finding in `PROJECT.json`, which quotes the comment, assertion or code of the
repository that says otherwise.

### Bounds and why they are enough

* `didebounce`: the firmware's own numbers; one channel, as channels share nothing.
* `dipostwork`: four inputs, two trip slots, the trip inputs distinct from the inputs numbered like
  the slots, as on the board. That makes the three kinds of input there are: trip, clobbered and plain.
* `settingstore`: three levels, a queue of 2 and at most 3 records (`MaxRecords`), so the queue fills and wraps. The shells enter the default
  address, one that ends in 255, and one that is refused at its third octet. A behaviour has either records and the serial
  shell, whose address command nobody overwrites, or both shells without records (`crossed` in `MCSettingStore`): the two ways to cut into an
  entry and into a save, without their product. The proofs have no such bound.
* `ethsupervisor`: three levels, a day of 2 x 2 minutes, times of one minute so that both counters
  overrun, at most one reset command of a shell (`MaxConsoleResets`), which may come at any step of the pass, between the load and the store of a count too; `changes` and `soft` are capped counters.
  `Quiet` stands for: nobody sets the clock or drives input 1, and a pass takes less than a minute. The
  interface's number counts modulo 2 with '0' as 1, for 2^8 and 48: it takes that value, the others, and wraps.
* `basebus`: two levels, one output and one other command with a different number, requests skipped from
  the third failure, `error_count` wrapping at 6, a bus reset at the second busy look. The wrap and the back-off
  are reached. The inductive invariant also covers the third level.
* `station`: eleven lines (every kind of dialogue: at once, with password, with an entry after it, two entries, a question
  without a password, a restart), two outputs so that the number can be wrong; three interchangeable blocks (a block can move from behind, from between
  and from before the timer's place, and the pool can be empty: symmetric, the properties being safety properties); segments of 12 and 24 bytes and
  fragments of 1, 4, 5 and 8, so that the buffer of 16 is shifted by every amount that fits a request and filled; segments of 256 and 262 bytes, for the loop that
  does not end; CAN counters of 4 and
  16 for 2^8 and 2^32, so that both wrap; two frames, so that one can
  be taken for the other, the firmware's two transmit descriptors and two for reception instead of four, so that a frame of two fits and is cut off; dividers of 3 and 6, halves of 2 and an arithmetic of 2^20 for 32767, 195312, 2^16 and 2^32, so
  that the low half carries and HSE's divider exceeds the crystal's.

### Fairness

* `DiPostWork`: the main loop keeps running (it is an endless loop), and a trip that is tried again and
  again succeeds at last: the bus is not broken for ever. Without the latter no retry can help.
* `EthSupervisor`: weak fairness of the main loop, of each level's reset and of the clock's tick; strong
  fairness of a successful negotiation (`Configure(1)`): the PHY does not fail for ever.
* `BaseBus`: strong fairness of each level's steps and of the main loop's query and maintenance (interrupts leave the main loop
  some of the processor, and `QRY_TMR_INTERVAL` comes round again and again); a board that
  is reset again and again lets go of the bus at last. `BusReleased` therefore says that the resets go on,
  not that a broken board recovers.

## 4. Proofs

TLAPS proves, for every value of the constants under the named assumption of each module (which TLC
evaluates in the runs):

* **DiDebounceProofs**: types, `CountersExclude` (proved only, no run needs it), `NoStaleEvidence`, `SteadyInputReported`, `ChangeNeedsEvidence`.
  `SteadyInputReported` is not inductive: `IInv` adds `RunCounted`, that a run of equal samples is in the counter
  or already reported.
* **DiPostWorkProofs**: types, `SoeAlternates`, which with the types is inductive, and `TripsNeverMarked` (no trip is ever
  marked as done: the loop marks the input numbered like the slot). Liveness: `SteadyLevels` and `HeldTrips` show `SteadyLevelReported`
  and `HeldTripExecuted` for tables of any size if the pass comes to every iteration again and again (`ComesRound`) and retries succeed at last
  (`RetriesSucceed`); `BoardComesRound` shows both premises from the fairness for up to 16 inputs, the board's number, and `OnBoard` concludes.
* **SettingStoreProofs**: types, `IdleMeansDurable`, `QueueHoldsLast`, and the refinement `Spec => AddressKept`. While saves are under way
  only the level that has the processor knows how far the page agrees with the RAM, and only if no level above it has touched the settings
  since: `Progress` says so for that level. A level that finishes leaves a page worth the RAM (`PageWorth`), which is progress for whichever
  level it interrupted. `AddressCopied` says that what has not been entered since the last `CmdSetting` is in the settings once no copy is under way;
  `AddressesMarked` that an address without a usable mark is never used, from which each step is one of `AddressStore` or none.
  `QueueHoldsLast` needs more (`QInv`): a record
  is in its slot before the position moves on, a complete page holds the records that the last finished save had seen, and a
  save that goes on over a complete page does not change it.
* **EthSupervisorProofs**: types, `FlagServed`, `CountsMinutes`, `SocketsAlternate`. `IInv` adds where in its
  pass the loop may be when a count is over its time, what the loop has read of the clock and of the count while it looks at the link (`LookUnderWay`,
  `CountedTo`): a reset that comes between its load and its store leaves a count that is too high by what had been counted, never by more than the minutes there were, where a reset returns to, how the count relates to the last
  minute counted, and where `EthInitState` and the sockets may disagree. `SilenceResetsSoftly`: a silence alone never
  leads to a hardware reset (what `ethsoft` shows one behaviour of). `CountStopsAtMidnight`: a count whose
  minute is the last of the day never goes on, through any number of days, until a reset or a negotiation starts it anew (the cause of `ethmidnight`). Liveness: `Recovery` shows `RecoversWhileLinked`. The
  resets end, level by level from the highest; then each step of the loop is nearer to the next negotiation (`Distances`, `StepNearer`),
  and one that succeeds is followed by the opening. Its premise `CommandsEnd` stands for the bound on reset commands (`FewCommands`).
  `NetInterface`: `NetImplements` carries all of that over; `NetWalksEnd` and `NetUpMeansRunning` add at which places of the loop the list
  may be what it is: a list that is not empty before an opening comes from a reset between the negotiation and that opening.
* **BaseBusProofs**: types, `OneTransfer`, `OnlyOutputsAbort`, `ExactUnlessPreempted`, `GenuineUnlessPreempted`.
  `IInv` adds `Precedence` (no level below one that is in a transfer or about to start one has a transfer),
  `Preemptions` (of two levels in an operation the lower one is in `preempted`), `Exactness` and `Genuineness`
  (what a level that is not preempted left in the shared buffers is still there). The argument is that
  a step of level w leaves every other level's entries alone (`Others`), and that any other level that is not preempted is
  idle (`Alone`), so that only w's own entries need a case per action (`OnBus`, `Filling`, `Copying`). `FailuresCounted`: a failure is missing from
  `error_count` only after a preemption between its load and its store. `SuccessWithoutShells`: with the main loop alone on the
  bus, the property that `basebussuccess` violates holds. Liveness: `ResetsGoOn` (`BusReleased`) and `AsksGoOn` (`RequestsGoOn`). Each
  step of an operation leaves fewer before it (`Left`, `Courses`), so that levels that may run again and again come to rest again and
  again, the highest first (`OperationsEnd`, `AllRest`); each look of the main loop at a busy bus is one nearer to the next reset, and
  each skipped request one nearer to a request that is sent (`ToGoFalls`), also where `error_count` wraps.

* **ShellSessionProofs**: types, `DialogueSound`, `OutputAsAsked`, `StoredAsAsked`. `ShellInv` says for each place
  of a handler that telnet has not preempted what `Shell_Msg`, `Shell_State` and `request` have to do with each other.
* **TcpPcbsProofs**: types, `ListSound`, `TextsReachSession`, and the refinement `TcpSpec => CallbacksAsPromised`: every
  step of the list and the timer is a step of `ConnLife` or none. That the list ends is a statement about finite paths, which would
  need induction; instead the invariant says that the blocks in use are a `Chain`: the pointers stay among them, no two point to the
  same block and none to the head, and every set that is closed under the pointers holds all of them and Null. Each list operation is shown
  to make a chain from a chain. `Reached`, the smallest set closed
  under the pointers, is then the chain.
* **ServiceProofs**: `TxSound` (`TxInv`: the interrupt's own frame, and the main loop's until the interrupt comes into it, lies in the descriptor it
  has read, which is the one it will hand over (`SenderAt`), so whatever is handed over without a crossing is whole, also when the descriptors are out of step; until
  the first crossing at most one level is in `low_level_output` and the queue's frames lie in the descriptors from `tx_dma` on), `RxNoticed`, `RtcSourceKnown` and `RecordsInOrder` (while a stamp is being read whole, what has been read
  is the counter's; the last record is no later than the clock, because the milliseconds grow as the divider falls), `CanOnlineTrue`
  (after one quiet check the copy equals the count), `ModbusOutputs` and `ModbusAnswers` (a request behind one to four left-over bytes has a byte of the
  header, 0, 1 or 6, for its function, and never 5; and the answer is never for function 0). `StationParts`: a behaviour of `Station` is one of each of its six
  parts; `StationTypes` and `StationSafe` carry the parts' types and safety properties over.

### What the liveness theorems rest on

* *Unblocked.* Fairness speaks of enabled actions, and TLAPS cannot decide `ENABLED`. The three modules with liveness state
  where the fair actions are enabled, as one state predicate read off the guards (`Unblocked`), and the theorems have `[]Unblocked`
  among their premises. TLC can evaluate it: checked as an invariant, it holds in every reachable state of the instances that
  the runs `dipostwork`, `ethsupervisor` (without the interface) and `basebus` explore. For other constants it stays a premise.
* *The code's limits.* TLAPS has no induction inside temporal logic, so a countdown has to be written out step by step, which is possible
  for a given length. `BusyLimit` and `BackOff` go up to the code's 7 and `NDi` to the board's 16; `Byte`, the levels, commands, channels
  and the tables are arbitrary. The distances in `EthSupervisor`'s loop do not depend on a constant.
* *Fairness* itself, as in section 3.

### Only model-checked

Liveness beyond these limits, the truth of `Unblocked`, and the violations: that the code does not do something is shown by
TLC's counterexample alone.

## 5. What is not modelled

* Timing: time-outs may strike at any step; durations are not modelled. The watchdog (4 s; `WATCHDOG`, in the Keil project) is not either, but where a handler never
  returns (`ModbusServer`), so the models show behaviour between two watchdog resets; `SettingStore` models any reset as a power failure.
* In `SettingStore` an address line has four numbers; what `ShellEtrAddr` makes of a line without three dots depends on what lies behind it.
  Which console may give which command is in `ShellSession`. A name is entered and copied whole.
* The error record that a failed query writes is not an action of `BaseBus` (`SettingStore` has it), nor are
  the I2C error interrupt, LEDs and the builds with DMA or interrupts.
* `CMD_TIMEP`'s completion time, the serial number, the `BKP_METHOD` variant, `FRONTDITRIP` and `REARDITRIP`.
* In the shell the texts and the assembling of lines (`bsp.c:1189-1232`, `helloworld.c:145-182`); of TCP its data, windows,
  retransmissions, active opens and TIME_WAIT; the UDP time telegram, the values in Modbus answers.
* The free lists of lwIP's memory pools, which `LwIP_Init` links anew: also while ARP has frames queued, and, in a doubled opening, under
  sockets and connections in use. `SocketsAlternate` shows that only a shell's reset leads to a doubled opening.
* Everything `PROJECT.json` lists as `not_modelled`. Of the some 129 000 lines of C in the repository, most are third-party: lwIP with
  PPP and SNMP, CMSIS, ST's peripheral, Ethernet and CPAL drivers, web pages as arrays, an EFSL file system, and
  old copies of files. The firmware's own compiled code is some 6000 lines, and the map stands for the parts of it that keep state.

### Observations that no run checks

* `MEMCHECK` compares half-words with 0xFF; an erased half-word reads 0xFFFF, so an erased name is taken for a
  stored one (`Realtimedb.c:125`). `SettingStore` models it as it is.
* A save whose words were programmed by the save that interrupted it reports a failure although the page is right.
* An address that is refused at its third octet leaves the first two in use, and nothing saved, until the next entry or reset
  (`shellcmd.c:414-431`); a telnet line within an entry of the serial console can turn `CmdSetting` to another command, and the entry is in use unsaved.
* 255 is accepted in an address (`shellcmd.c:417` refuses what is greater) and fails `IPCHECK` at the next start: the default is back. 65535
  for both Ethernet times comes back as 10, an erased word being what it is.
* A reset command between the load and the store of `eth_link_count.count++` or `eth_recv_count.count++` (`bsp.c:1320`, `:1347`) loses its clear: counting goes
  on from before the reset.
* The page is erased before it is programmed, without a second copy: a power failure in between restores the defaults.
* `AiQuerry` backs off from the eighth failure (the comment says seven) and, `error_count` being a `uint8_t`, asks at the full rate
  again after 256.
* `I2CRoutines.c:203` subtracts where it should assign, so one wait is either none or very long; `I2CRoutines.c:686-688`
  clears ARLO with the mask of another bit.
* `tcp_slowtmr` can be at block B with prev = A when a segment for B moves it to the front; it then writes
  `A.next = B.next`, which is A if A was the head: the ring of one that the changes in `tcp.c:849-856` and `tcp_in.c:186-193` repair after the fact.
* `tcp_slowtmr` reads `pcb->next` and stores it in `prev->next` or `tcp_active_pcbs` (`tcp.c:769`, `:773`); a segment for the following block in between makes a ring or
  brings a freed block back into the list.
* A Modbus segment of 256 bytes or more without a request in front, or on a connection with five or more bytes left over, never ends the loop of
  `TcpModbus_recv` (`tcp_modbus.c:59`, `:81`), which runs in the Ethernet interrupt.
* `tcp_close` without memory for its FIN returns `ERR_MEM` (`tcp.c:163`); neither server tries again or keeps the argument.
* A segment without an argument is freed and then refused with `ERR_ARG` (`tcp_modbus.c:72-76`, `helloworld.c:138-142`): lwIP keeps the freed
  pbuf as `refused_data` and hands it out again.
* A frame that the interrupt sends in the middle of one of the main loop's can end in both using one descriptor and the next being
  skipped; the main loop's frame then goes out with parts or the length of the other. The DMA may from then on wait at one descriptor while it owns
  the other, at which `DMATxDescToSet` points: nothing is sent any more until the next reset, and since frames still arrive the supervision sees no
  reason for one. The last window is between OWN and the advance of `DMATxDescToSet` (`ethernetif.c:445-459`).
* Telnet's reset command with a FIN in the same segment: `tcp_close` finds the state CLOSED and gives the freed block back once more
  (`tcp.c:131-132`), so that the pool hands it out twice. A segment that ends a connection between the two statements of
  `tcp_close_all_active`, run by the main loop or the serial console, does the same.
* `netif_list` as a ring of one, after a reset command between a negotiation and the opening: `ip_input` (`ip.c:320`) walks it for ever at
  the first packet for another address.
* A frame longer than one receive buffer fills two descriptors; `ETH_GetRxPktSize` answers 0 for it as for none, so the handler never takes it
  out and reception stops until the supervision's reset.
* `memp_free` and `mem_free` run in the main loop and in the interrupt without protection.
* Backspaces make telnet's line length negative (`helloworld.c:156`); Modbus scales register n with the property of register 0 (`modbus.c:70`).
* `ShellEtrDate` refuses December, because the months have become 1 to 12 when they are compared with 11.
* `Time_Calib` copies the new time from the transmit buffer instead of into it (`BaseBus_Protocol.c:194`).
* The UDP time telegram's header is checked with `&&` where one wrong byte should do (`tcp_modbus.c:225`).
* `SET_PARA` and `CMD_PARA` are reachable from no command.

## 6. Plan: what is left

1. **Composition**: what a trip promises, as `DiPostWork` with `BaseBus`'s `DoExecute` instead of a call that fails or
   succeeds; the bytes that `BaseBus` sends as the output `ShellSession` was asked for.
2. **Pools**: the free lists of `memp` with `LwIP_Init` and what ARP has queued; received data that is refused.
3. **UDP time telegram**, and the line assembly of the two consoles.
4. **Proofs**: what is left to TLC above would need a prover for `ENABLED` and for induction inside temporal logic. Within reach are the
   theorems of whatever 1 to 3 add: that the detailed `DoExecute` implements the call that `DiPostWork` makes, first of all.
