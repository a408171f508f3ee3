# Verification of the IoT risk data logger firmware

TLA+ models, model-checking runs and machine-checked proofs for the firmware of
the NFC / SAMD21 data logger (`src/firmware/src`). The firmware is bare-metal C on
Microchip Harmony: one super loop, interrupts, and actors (a queue of events and a
state machine each) that talk to the hardware through Harmony drivers. The
questions asked here are the ones a unit test would hardly reach: what happens when
an interrupt comes between two lines, a client closes in the middle of a request, a
transfer fails half-way, or a cable is pulled at the wrong moment.

## 1. The system

`main` calls `SYS_Initialize`, then for ever `SYS_Tasks` (which polls the drivers),
`INIT_Tasks` and `APP_Tasks`. `APP_Tasks` runs the tasks of the actors its mode
allows. Interrupts (SPI, I2C, external pins, USB) end transfers, append events to the
actors' queues and run the callbacks of the USB functions.

| Component | Code | State | Operations | Talks to |
|---|---|---|---|---|
| MEMORY driver | `config/default/driver/memory` | clients, one request object on a free list or in a queue, four nested state machines | Open, Close, AsyncRead / Write / Erase / EraseWrite, Tasks | calls the AT25DF driver, calls back its client |
| AT25DF driver | `config/default/driver/spi_flash/at25df` | status, current transfer | Open, Read, PageWrite, SectorErase, GeometryGet, TransferStatusGet, SPI interrupt | SPI, the flash part |
| Storage actor | `storage/` | state, queue, page buffer, current page | Initialize, Deinitialize, Tasks, transfer handler | client of the MEMORY driver |
| App manager | `app_manager/` | mode, queue | Initialize, Tasks | asks the init actor to start and stop storage |
| Init manager | `init_manager/` | queue, list of actors | Initialize, Tasks | creates and stops the actors |
| USB manager, EIC | `usb_manager/`, `plib_eic.c` | interrupt flag, callback | VBUS interrupt, USB_Tasks | sends cable events to the app manager |
| NFC actor | `nfc/` | state, preparation step, retries, transfer buffer, queue | Initialize, Tasks, I2C handler, GPO callback | I2C driver, ST25DV tag |
| I2C driver | `config/default/driver/i2c` | clients, pool and list of transfer objects, token | Open, Close, TransferAdd, QueuePurge, TransferStatusGet, peripheral callback | I2C peripheral library; the NFC actor is its only client |
| SPI and I2C peripheral libraries | `config/default/peripheral/sercom` | the transfer under way, byte counters | WriteRead, XferSetup, interrupt handlers | the AT25DF and I2C drivers |
| USB mass storage function | `config/default/usb/src/usb_device_msd.c` | state of the bulk-only transport, sector buffer, two IRPs | Tasks, control requests, initialization and deinitialization by the device layer | a second client of the MEMORY driver, the bulk endpoints |
| USB device layer, USBFSV1 driver | `usb_device.c`, `drv_usbfsv1_device.c` | device state, endpoint objects, IRP queues | Attach, configuration, endpoint stalls, IRPs, interrupt | calls the functions from the USB interrupt |
| Console | `config/default/system/console` | ring buffers of a CDC instance | SYS_CONSOLE_Tasks | opens the USB device layer and attaches it |
| SHT3x actor | `sensors/` | never started in this version | | |
| active-object-fsm | submodule, not in the tree | queues, transitions | | |

How USB comes up: `USB_Tasks`, which runs in the mode `APP_ST_USB_ONLY` only, calls
`SYS_CONSOLE_Tasks`; the console's task (`sys_console_usb_cdc.c:829`) opens the device
layer, sets its event handler, and on POWER_DETECTED attaches. From then on the USB interrupt
works whatever the mode, but the functions' tasks run in USB mode only: when the
cable is pulled the loop leaves that mode, and the removal of power is worked off the
next time it enters it.

Hard behaviours: the request and buffer bookkeeping of the MEMORY driver when clients
close; one flash request spread over many calls and interrupts (erase-write is
read, erase, write of a whole sector with neighbours in RAM); chains of SPI transfers
that continue in the interrupt; reports and events
without identity; interrupts between any two steps; queues with a limit; retries; a USB host
that stalls, gives up and resets while the function is inside a call.
The list with source lines is `hazards` in `PROJECT.json`.

What makes each component correct:

* MEMORY driver: a request is reported once, to its client, after it was carried out
  as a whole; nothing outside its sectors changes; no request object is lost.
* AT25DF driver: a request that is accepted ends, and has then done to the part exactly what
  it says; the part gets no command it ignores.
* I2C driver: first come, first served; every end is told once, to the client that submitted
  the transfer and to nobody who came after it; statuses are true.
* USB mass storage: host and function are in the same phase of the same command; what was
  reported as read or written is what the medium holds, also beside what was written, where
  sectors are erased and written back with it; every command is answered.
* Storage: a valid boot sector before anything else; gives up only on failures.
* Managers: storage is open exactly when the mode is not USB, USB does not run on an
  open flash, the mode follows the cable.
* NFC: the tag is set up before it is used; one message at a time; bounded retries.

## 2. Modules

| Module | Models | Correspondence |
|---|---|---|
| `FlashDevice` | what `drv_at25df.c` promises, the flash part | operators on a record `dev`; `Submit` / `Finish` are the start and the last interrupt of a chain of SPI transfers; a submission over a running chain *hijacks* it |
| `BlockRequests` | geometry, footprint and effect of a request | `mediaGeometryTable` (read block 1 byte, write block a page, erase block a sector) |
| `MemoryDriver` | `drv_memory.c` | variables are the fields of the driver object; one operator per `Handle*` function and per `ew` state; `Tasks` = `TasksIdle`, `TasksStart` (falls through into the transfer, as the `switch` does), `TasksTransfer`; `DeviceDone` is the interrupt |
| `BlockStore` | the abstract store: a request is accepted, then completed as a whole | what `drv_memory.h` promises |
| `MemoryStore` | refinement mapping `MemoryDriver` => `BlockStore` | `INSTANCE ... WITH` |
| `FlashSpec` | `FlashDevice` as a specification: a request is made, and ends in one step | the operators `MemoryDriver` calls |
| `SpiMaster` | `plib_sercom1_spi_master.c` | operators on a record `spi`: `WriteRead`, the byte that shifts, the interrupt handler with DRE, RXC and TXC raised in any combination |
| `At25df` | `drv_at25df.c` on `SpiMaster`, with the flash part | one action per call of the driver; `ShiftByte` is a byte on the wire; `Interrupt` is the handler with the callback and the next transfer of the chain; `ChipReady` ends what the part does. `ImplementsFlash` maps it to `FlashSpec` |
| `I2cBus` | what the I2C driver promises: a queue of transfers, each told once | `drv_i2c.h` in terms of what the clients see |
| `I2cDriver` | `drv_i2c.c` on `plib_sercom0_i2c_master.c` | one action per call (`DRV_I2C_Close` is two, as it enables the interrupt in between); `Byte` and `TransferEnd` are the interrupt, the latter with the client's handler. `ImplementsBus` maps it to `I2cBus` |
| `UsbMsd` | `usb_device_msd.c`, what it meets of the device layer and USBFSV1, and the host | `Enter`, one action per `USB_DEVICE_MSD_STATE`, and `Store` (the assignment of msdMainState) are a call of the function; `ReadCompletes`, `WriteCompletes`, `ReadFails` and `WriteFails` are the MEMORY driver's end of a request; `Host*`, `BotReset`, `BusReset`, `Configure` the host and the interrupt |
| `StorageManager` | `storage_manager.c`, `storage_manager_fsm.c` | one action per handler of the transition table; `Driver` is the MEMORY driver as `BlockStore` and `EveryRequestReported` promise it |
| `Managers` | app, init and USB managers, EIC handler, super loop | one action per `*_Tasks` call; `Interrupt` and `EndOfInterrupt` are the two halves of `EIC_InterruptHandler` |
| `Nfc` | NFC actor with its preparation sub state machine, I2C and GPO interrupts | one action per handler; `SendRegister` / `VerifyRetries` are the two halves of a preparation step, between which the interrupt may come |
| `Positions` | what is left of a list when the transfers at some places are taken out | operators of `I2cDriver` and `I2cBus`, in place of `SelectSeq`, which recursion puts beyond the prover |
| `MCMemory`, `MCAt25df`, `MCI2c`, `MCUsbMsd`, `MCStorage`, `MCManagers`, `MCNfc` | the instances for TLC | |
| `MemoryDriverProofs`, `At25dfProofs`, `StorageProofs`, `ManagersProofs`, `NfcProofs`, `I2cProofs`, `UsbMsdProofs`, `MemoryStoreProofs` | theorems | section 5 |

The stack of the flash is checked in two halves that meet at `FlashDevice`: `At25df` implements
it (`ImplementsFlash`), and `MemoryDriver` is built on it and implements `BlockStore`
(`ImplementsStore`), which is what `StorageManager` and `UsbMsd` take the MEMORY driver for.
What a request that fails may cost is `DamageConfined`: `UsbMsd` lets a failed write, which is an
erase-write (`usb_device_init_data.c:98`), leave every sector of its erase sectors old, new or
`Damaged`.
In the same way `I2cDriver` implements `I2cBus`, and `Nfc` uses a queue of that kind.

Operators whose comment begins with "Mutant" are plausible faults of the code (a lost
reset, a swapped order, a missing wrap). They are used nowhere; put in place of the definition that
follows them they make the run that is listed under `mutants` fail, which shows that
the property can see the fault.

### Abstractions

* Data: a flash cell is erased, a known datum `<<writer, cell>>`, or junk. Pages of the
  storage actor are one of five contents, since it compares whole pages only. NFC
  messages are the register they are for.
* A step of the super loop (one call of a `*_Tasks` function, one API call) is atomic,
  apart from the places where an interrupt changes something the step still reads:
  `Managers` splits the EIC handler and runs it between any two calls, `Nfc` splits
  the preparation step. `ActiveObject_Dispatch` is atomic; its library is not in the
  tree. Full queues keep what they have.
* `At25df`: a call of the driver is atomic. While a chain runs, a further call may hijack it as
  `FlashDevice` allows, once in a behaviour; a page write made then is of a whole page, as the MEMORY driver's are.
  Addresses are one byte long. `DRV_AT25DF_BlockErase`, `ChipErase`, `Close` and
  `EventHandlerSet` are not used by the MEMORY driver and are left out. The part never fails a program or
  erase operation: the driver does not read the error bit EPE, so nothing of it would notice.
* `I2cDriver`: a client sets its handler right after it opens, or never; clock speeds
  (`TransferSetup`) and `ErrorGet` are left out; no interrupt is taken for an aborted transfer.
  `DRV_I2C_TransferStatusGet` answers COMPLETE for a transfer that was purged
  (`drv_i2c.c:338`): `StatusTruthful` leaves purged transfers out. No part of this program
  purges or closes; the driver is checked for clients that do.
* `UsbMsd`: an IRP is one step, and a bulk transfer and the interrupt that completes it are one.
  `PerErase` sectors are erased together (8 in this program); a request of the medium is one step of
  `Next`, at its end. READ and WRITE may move no sector. The test of write protection is
  left out, since `DRV_MEMORY_IsWriteProtected` always answers false (`drv_memory.c:1322`).
  One logical unit; a sector is written as whole pages, so the function never reads before it writes. Commands are
  READ and WRITE, one kind answered with data ("capacity") and one without ("ready"), and a CBW
  without its signature; sense data, the contents of the replies, GET_MAX_LUN and SET_INTERFACE are left
  out, and so are enumeration, control transfers and suspend. `SET_CONFIGURATION` comes between
  two calls of the function, since an enumeration lies before it. The host follows the bulk-only
  specification. A request of a client that a bus reset has closed may still take
  effect, or not.
* `HooksOnSelf` (does a transition to the same state run the hooks?) is a constant of
  `StorageManager` and `Nfc` for the same reason. The safety properties and the proofs
  of the storage actor hold for both values. In `Nfc` running the hooks means retries that never run out:
  the safety runs cover it as a longer sequence of retries, and `TransfersAnswered` does not hold then.
* The actors' declaration of `systemActorsList` in `app_manager.c` and
  `usb_manager.c` does not match its definition, so where their events go is undefined.
  `Delivered` says which outcomes are considered: they arrive, or they vanish.

## 3. Runs

| Run | Shows | Bounds |
|---|---|---|
| `memory_driver` | request object, tokens and reports, confinement at every moment, and progress, with 2 clients, clients that reopen, and requests during identification, which fail | 1 sector of 2 one-cell pages, tokens 1..2 so that they wrap, 2 requests |
| `memory_store` | refinement of the block store, confinement | 2 sectors x 3 pages x 2 cells, every request that fits, two in a row: partial first and last sector, whole sector in between, page offset different from cell offset |
| `memory_close` | *violation*: close in flight, COMPLETE for work not done | 1 client, 2 requests |
| `flash_driver` | the AT25DF driver byte by byte refines `FlashSpec`; the part takes its commands; chains end | 2 sectors of 2 two-cell pages, buffer of 3 cells, so that a page write is split at a page's end; addresses 0 (first of a page), 3 (last of a page) and 6 (last page); 2 calls, the second also over the first |
| `i2c` | the I2C driver refines `I2cBus`; list, statuses, progress | 2 clients, 2 transfer objects (so the pool is empty at times), tokens 1..2 so that they wrap, a write of one byte and a read of two |
| `usb_msd` | host and function in step, data and disk agree, every command answered | 3 sectors, 2 of them erased together (so that a write has a neighbour that it erases, a sector it does not touch, or two erase sectors), buffer of 1 sector and commands of up to 2 (so that a command needs several rounds), 2 commands (the second is where what the first left behind shows), 1 give-up or bus reset |
| `storage` | boot sector check from every flash content, failures, close | boot area 2 pages in an erase sector of 3, page counter modulo 2 so that it wraps |
| `storage_search` | *violation*: the search does not end | 3 log pages |
| `managers` | modes and storage agree, if events arrive; slots and backlog also when they vanish | 5 cable changes, app queue of 4: more than the loop absorbs in the start-up turns |
| `managers_cable` | *violation*: USB mode missed | 2 changes |
| `managers_release` | *violation*: USB runs on an open driver | 2 changes |
| `nfc` | preparation, retries, pulses | 6 retries, queue of 3 that pulses fill, retry counter modulo 16 so that its wrap is reached soon |

Why the bounds are enough: the driver's behaviour depends on an offset and a length
only through the position of their ends in a sector, and 2 x 3 pages have each of them;
more requests in sequence meet the driver in a state that already occurs between the
first and the second one; the counters are given small moduli so that they wrap. A transfer on a bus is made of a first
byte, bytes in between and a last one, and a USB command of one round or several: both kinds
occur.

The four violations are findings in `PROJECT.json`, each against the line of the
sources it contradicts. In short: closing with a request in flight corrupts the next
request; the search of the log compares with the memory at address 0xFF and never ends;
a cable that is connected at power-up or inside the interrupt handler is not noticed;
USB runs before storage is released when the cable comes during start-up.

### Fairness

* `MemoryDriver`: weak fairness of `Tasks` (the super loop calls it for ever) and of
  `DeviceDone` (a transfer the SPI has accepted ends in an interrupt; `TransferEnds` shows it).
* `At25df`: weak fairness of `ShiftByte \/ Interrupt` (the SPI clocks what it was given and
  a raised interrupt is served) and of `ChipReady` (the part ends what it does). The calls of the
  clients are not fair.
* `I2cDriver`: weak fairness of `Interrupt`: the bus answers as long as a transfer is under way.
* `UsbMsd`: weak fairness of `Task` (the loop calls the function for ever), weak fairness of
  `HostStep` (the host goes on with the protocol), and strong fairness of `MediaStep`. The
  last is strong because the function's poll takes turns with the MEMORY driver: a request
  is enabled again and again, and the super loop runs `DRV_MEMORY_Tasks` between any two calls of
  the function. Giving up and resetting the bus are never forced.
* `StorageManager`: weak fairness of `Tasks` and of `Driver`, which is what
  `EveryRequestReported` says of the MEMORY driver. Closing is never forced.
* `Managers`: weak fairness of the program, the interrupt and its end; the cable may
  stop or go on.
* `Nfc`: weak fairness of `Tasks` - in USB mode `NFC_Tasks` is not called, so
  `TransfersAnswered` is about a mode that stays - and of the I2C interrupt, which
  `EveryTransferEnds` shows of the I2C driver.

`CHECK_DEADLOCK FALSE` is set where the system may stop: for storage and NFC, whose actors rest
when their queue is empty and nothing is in flight (closed, idle or in ERROR), for
`flash_driver`, when all calls are made and have ended, and for `usb_msd`, when the host has
sent its commands.

## 4. Properties

Each property is stated in a comment in front of it. The ones that carry the project:
`BufferAccounted`, `ReportsMatch`, `ImplementsStore`, `DamageConfined`,
`EveryRequestReported` (MEMORY driver); `ImplementsFlash`, `CommandsTaken`, `TransferEnds`
(AT25DF driver and SPI); `ListMatchesBus`, `StatusTruthful`, `CompleteMeansWhole`,
`ImplementsBus`, `EveryTransferEnds` (I2C driver); `InStep`, `ReadsTrue`, `DiskAgrees`,
`NoWorkLeftBehind`, `EveryCommandServed` (USB mass storage); `BootSectorValid`, `ErrorMeansFailure`,
`BootCheckEnds` (storage); `ModesAgree`, `StorageFollowsMode`, `InitBacklog` (managers);
`MailboxReady`, `OneTransfer`, `GivesUpLate`, `TransfersAnswered` (NFC).

The properties of `UsbMsd` are conditional. Two history variables record that something
happened after which the code really goes wrong, and the properties speak of the
behaviours without it:

* `overtaken`: a mass storage reset or a bus reset came, in the USB interrupt, inside a call of the
  function, which then overwrites the msdMainState the reset has set (`usb_device_msd.c:603-640`);
  or while a request was in the MEMORY driver, whose report is then
  taken for that of a later request (mediaState is reset at line 864). The function then
  answers a command that is gone, or reports about the wrong request.
* `haltKept`: a configuration began with an endpoint that `drv_usbfsv1_device.c:589` still
  marks as stalled after the bus reset that cleared the hardware's stall. The function waits
  in WAIT_FOR_CBW for a halt to be cleared that the host does not see (the comment before `usb_device_msd.c:138` takes
  the enabled endpoint for one that can receive the CBW).

`DiskAgrees` relies on what the host can: from the moment it sends a WRITE, it takes every sector
of the erase sectors concerned for doubtful; a CSW that says PASSED makes the sectors written
certain and those beside them what they were before; any other outcome leaves them all doubtful,
because the erase-write may have stopped between the erase and the last page (`drv_memory.c:611`,
`:623`). The property then says that what is beyond doubt is on the medium. A host that took a
failed WRITE to have cost its own sectors only would be wrong.

Hazards of this code without a property: a refused read in the search of the log
(`storage_manager_fsm.c:112`), after which the storage actor waits for ever; a bus reset that
meets a request, a call or the driver's mutex, after which the properties of `UsbMsd` say nothing
(what the close does to the request is the run `memory_close`). Their entries in `PROJECT.json` say why.

Seen while modelling and not stated as a property: a bus reset inside a call can
forget an open MEMORY handle, and one that meets the driver's mutex closes nothing, so that a client slot is
lost; a WRITE that fails on its last sector leaves the OUT endpoint stalled after its CSW, which a
conforming host clears before it goes on; flushing an IRP does not disarm the hardware's bank.

## 5. Proofs

`MemoryDriverProofs`, for every geometry, number of clients and token range:

* `TypeCorrect`: `TypeOK`.
* `RequestAccounted` and `ReportsReachTheirClient`: `BufferAccounted` and
  `ReportsMatch`, under `CloseInFlight = FALSE` (clients wait for their requests before they
  close); the run `memory_close` shows what happens without.
* `DamageStaysInside`: `DamageConfined`, under the same assumption, whatever `EarlyRequests`.

`TypeOK` alone is not inductive: an end of a read writes `ram` from `flash[addr + ...]`,
so the invariant carries `ReadInFlash`, which says that a read in flight stays inside
the flash. For the accounting, `BufferAccounted` needs in addition that the
session of the client that waits is still the one it opened (`SessionOpen`). The inductive
invariant is `Inv == TypeInv /\ BufferAccounted /\ SessionOpen /\ ReportsMatch`. Lemmas about
the device and the sub state machines (what each leaves of the types and of the request object)
are stated once; each action then has one lemma.

The flash changes when a chain of the device ends, long after the call that chose the
address, so `DamageConfined` needs `ChainKnown`: a chain that may change the flash (`Alters`) runs only
while its machine waits for it (`DevFine`: BUSY, not hijacked), at the address the
machine holds, and that address is a block of the request with the blocks still to go behind it
(`At`); between two requests none runs. For an erase-write the part that is left
(`RewritesAt`) begins inside the request, and each state of `ewState` works in the sector of that
beginning. That a sector erase, which the AT25DF driver does not refuse while BUSY, never meets a chain
that has set the write enable latch is part of it: what it can hijack is the
identification. Counts need not fit in a word: `Minus` never gives more than there was (`MinusBound`).

`MemoryStoreProofs`, for every geometry and number of clients: `DriverImplementsStore`
(`ImplementsStore`) and `CompletionIsTrue` (`CompleteMeansDone`), under `CloseInFlight = FALSE`,
`EarlyRequests = FALSE` (clients wait for the identification of the flash before they ask) and
`FlashSize <= WordMax` (8 MB of flash, counts of 32 bits: `Minus` then never wraps). The store of `BlockStore`
changes in one step, the driver takes as many chains as the request has pages and sectors, so the
invariant `StoreKnown` says at every moment how far it is. `Underway` gives, per state of the machines, the
block that is next and the flash there is: what it was when the request was accepted, with the blocks before that
one written (`WrittenUpTo`), erased (`ErasedUpTo`) or, sector by sector, rewritten (`RewrittenUpTo`). An
erase-write holds in memory, from the moment it has overlaid the client's pages, what its sector is
to be (`Holds`); that the erased sector written from there is the sector of
`RewrittenUpTo` is the lemma `SectorRewritten`, and where the next chunk begins and ends `ChunkFacts`. Each state of
`ewState` and each `Handle*` function has a lemma that takes `Underway` from the call to its return
(`TransferDoes`), the interrupt has `FinishDoes`; when nothing is left, `AllDone` turns the flash
into `FlashAfter`. Both assumptions are needed: a close leaves a transfer behind that works for
the next client's request (`memory_close`), and an erase during the identification takes over its chain, so that
an erase is answered with an error, and what the chain then receives for a read refused the same way can
land in the buffer of a third request that is reported complete (TLC, `EarlyRequests = TRUE`, three requests).

`At25dfProofs`, for every geometry, buffer, set of addresses and number of requests:
`CommandsAreTaken` (`CommandsTaken`). What the chip thinks of a command is decided when it is
deselected, by all that was sent since it was selected, so the invariant keeps account of the bytes:
those in the chip, in the SPI's two registers and still to be sent add up to what the
state of the driver stands for (`Counted`), and the first of them is that state's command
(`Led`). `Prepared` says that the latch is set, the chip is ready and the sectors are unprotected when that
command needs it. While the status is polled (`Polled`) the next byte goes out only after the
one before was taken in; so none is lost in the receive FIFO and `cmd[3]`, which the handler looks at, is
what the chip said last. The interrupt is taken apart as in the code: the byte taken in, the byte sent,
the wait or the end, and one case per state of `lDRV_AT25DF_Handler`. A chain that was hijacked stays
so, and nothing is claimed about it.

`StorageProofs`, for every layout and both values of `HooksOnSelf`: `StorageTypeCorrect`,
`BootSectorChecked`, `ErrorsComeFromBelow`, `QueueNeverOverflows`, and
`SearchNeverSucceeds`: if no page of the flash equals the program's bytes at 0xFF, the actor never
reaches IDLE. The last one is what justifies leaving the store path out. The invariant
says, per state, which events can be in the queue together with a request in the
driver: a request and its report never coexist, `verified` is only queued when the checked
page is the image, and a page read for the check matches the flash until it is compared.

`ManagersProofs`, for every number of MEMORY clients, size of the app actor's queue, bound on the cable's changes and
both outcomes of a mistyped declaration: `ManagersTypeCorrect`, `BacklogBounded`
(`InitBacklog`) and `ModesAgreeAlways` (`ModesAgree`). None is inductive. `Backlog` gives the init actor's
queue a bound per place of the loop: INIT_Tasks takes an event before APP_Tasks adds one, so
a turn adds no more than it takes. `Agreement` is about the events that still wait: the last one
that is about storage is what the app actor's mode wants, and if there is none, storage is as the mode
wants it. It needs `MainFirst` (MAIN_APP, which sets the mode back, is only ever the first event of
all) and `Slots`; it is kept by the argument that an event about storage is appended exactly when the
mode changes.

`NfcProofs`, for every number of retries, sizes of the queues and both values of
`HooksOnSelf`: `NfcTypeCorrect`, `MailboxReadyAlways` (`MailboxReady`),
`OneTransferAlways` (`OneTransfer`), `GivesUpLateAlways` (`GivesUpLate`). Reports carry no
handle, so the proof is about what is on its way to the actor: `OneOnItsWay` says that a transfer
and its report are never there together, and never two of either; `SessionInv` says, state by
state, what the transfer or the report is about, so that a success means that the register of the
current step was written; `RetriesInv` counts: every transfer of the preparation has used a
retry, and has failed, or has led to the next step, or is on its way. The queue must hold the
events of the initialization (`NfcAssumption`).

`I2cProofs`, for every number of clients, transfer objects and tokens and every set of
transfers: `I2cTypeCorrect`, `ListMatchesBusAlways` (`ListMatchesBus`), `StatusTruthfulAlways`
(`StatusTruthful`), `CompleteMeansWholeAlways` (`CompleteMeansWhole`) and the whole refinement,
`DriverImplementsBus` (`ImplementsBus`). The invariant has two parts. `Busy` is about the driver: the
list holds the objects in use, each once, the first of them is on the bus and the others wait,
and the master's counters fit its state. Every call passes through states that are not `Busy` (the
first transfer is gone and the next not yet started), so the operators have lemmas that lead from
`Busy` to `Resting` and back. `Remembered` is about the clients: a client waits for a transfer exactly
as long as its object still carries the handle and is in use; it stays true when the
object is given to another transfer because `FreshTransfer` keeps tokens apart.
For the refinement, `Without` (`Positions`) is shown to keep order and to move along when the
first element goes, by ranks in finite sets instead of induction: `DRV_I2C_QueuePurge` takes the head
off first and the rest after, the abstract bus takes both at once.

`UsbMsdProofs`, for every medium of at least two sectors, every size of erase sector and of the
sector buffer and every number of commands and resets: `UsbTypeCorrect` (`TypeOK`), `HostInStep` (`InStep`), `ReadsAreTrue`
(`ReadsTrue`), `DiskIsAsTold` (`DiskAgrees`) and `NoRequestOutlivesItsCommand`
(`NoWorkLeftBehind`). Two sectors are needed because the commands whose two lengths differ name two.
The types need `Base`: which successors the call under way can store, which IRP the OUT
endpoint holds, and that the counters of a part are in order; it holds whatever resets do. The
others follow from `Protocol`, which holds as long as nothing is `overtaken`, so the invariant is
`Base /\ (~overtaken => Protocol)`. `Protocol` follows one command through the function: `Control`
(which endpoint is stalled or in transfer in which phase of the host and state of the function),
`Commanded` (the command block is the host's command, used as a cursor) and `Content` (each sector
of the command is on the medium, in the buffer, in flight or with the host, counted from the cursor).
For `DiskAgrees` it carries two more facts: during a write the host relies on no sector of
the erase sectors concerned (`Uncertain`), and while no request of it has failed the
medium holds, outside the sectors asked for, what the host relied on before (`Spared`). A
reset that is not `Busy` keeps it, since the function then waits for a CBW and the medium has no
request; after one that is, only `Base` remains, and the properties claim no more. Every step has an
operator that lists its effect on each part of the state, shared by the proofs of `Base` and of `Protocol`.

Only model-checked: the refinement `ImplementsFlash` (`FlashDevice` on the bytes);
`EveryCommandServed`, `EveryTransferEnds`, `StorageFollowsMode`, `BootCheckEnds`
and all other liveness: liveness under fairness and ENABLED are beyond the prover used.

## 6. Not modelled

Most of the lines under `src/firmware/src` are vendored and not the program's: cryptoauthlib
(38,000 lines, never called), CMSIS and device packs, headers of the USB stack, USB host files.
Of the rest:

* Storing data (`storage_manager_fsm.c:143`, `:161`): the state it starts from is never reached
  (`SearchNeverSucceeds`), and nothing sends its event.
* SHT3x actor (never started), SYS_TIME (called from commented-out code only), signals without a
  sender (`NFC_RF_FIELD_*`, `INIT_SIG_SENSORS`, `NFC_WRITE_MAILBOX`), reading the NFC mailbox (a
  TODO in the table).
* The console: messages that are lost change nothing else; that it opens and attaches USB is
  taken as given by `UsbMsd`.
* The USB device layer's control transfers and enumeration, and the banks and packets of the USBFSV1
  driver: `UsbMsd` takes stalls, IRPs, configuration and reset from them and nothing else.
* Exclusive and read-only clients of the MEMORY driver; the mutexes, which are never contended without
  a scheduler except as section 4 says.
* The peripheral libraries apart from the SPI and I2C masters, clocks, pins, start-up code.
* Corruption of memory by the mistyped declaration of `systemActorsList`.

## 7. Plan

Built so far, in this order: MEMORY driver with its device and the block store; storage
actor; managers; NFC actor; AT25DF driver on the SPI master; I2C driver on the I2C
master; USB mass storage function; proofs about the MEMORY driver, the AT25DF driver,
storage, managers, NFC, the I2C driver and the USB function. Left:

1. `Firmware`: managers, storage sessions, the USB function and the MEMORY driver composed: reopened
   storage, a leaked client slot, a close in flight as the program really causes it, two
   clients that meet when USB starts before storage is released.
2. Proofs: the refinement of `FlashSpec` (`ImplementsFlash`).
3. The store path, if the search of the log comes to an end: `_storeData`'s search of a free place
   and the page it writes.
