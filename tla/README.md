# STM32F1-DFU: specification and proofs

This directory holds TLA+ models of the bootloader in `src/Core`, the TLC
configurations that check them on small instances, and theorems about the DFU
driver, control transfers, the boot flow, the endpoint register, packet memory
and the heartbeat that TLAPS checks for every value of the constants.

    tlc -workers 2 -config dfu.cfg MCDfu       # one run: configuration, module
    tlapm DfuProofs.tla                        # the proofs of one module

## 1. The system

The bootloader occupies the first 8 KB of a 128 KB flash (0x08000000), the
application the 120 KB behind it. After a reset `main()` decides between
flashing an image it finds in an external SPI SRAM, starting the application,
and offering itself on USB as a DFU device. There is no operating system and no
interrupt but the tick: `main()` polls the USB peripheral (`do_usb_poll`), and
everything else is a call from there. What runs concurrently with it is the USB
peripheral, the host behind it, the reset pin and the power supply.

| Part | Source | State it keeps | Operations |
|---|---|---|---|
| DFU class driver | `usbdfu.c` | `usbdfu_state`, `prog` (block number, length, buffer, address pointer) | `usbdfu_control_request`, `usbdfu_getstatus`, `usbdfu_getstatus_complete` |
| Flash routines | `flash.c`, `flash.h` | flash, the lock, the static `erased` of `check_do_erase` | unlock, lock, erase page, erased check, program buffer, wipe |
| USB control endpoint | `usb.c`, `usb.h` | `usb_fsm_state`, `usb_req`, data size and offset, ZLP and NAK flags, `usb_complete_cb`, `usbd_control_buffer` | setup, in and out handlers, reset, standard and descriptor requests |
| USB peripheral (hardware) | used through `usb.h` | status and packet per direction, CTR flags, address | SETUP, IN and OUT transactions, bus reset |
| Boot decision, SPI SRAM update | `main.c`, `reboot.h` | the word of RAM that asks for DFU mode, locals of `main` | start, erase, clear header, copy, boot, enter DFU |
| SPI SRAM image | `spi_sram_image.c`, `sram_image_header.h` | header and image in the SRAM | `sram_has_valid_image` |
| SPI SRAM driver | `spi_sram.c` | none | `spi_sram_read`, `spi_sram_write` |
| Checksum | `checksum.c` | none | `validate_checksum`, `validate_checksum_stream` |
| Start-up, faults | `init.c` | tick | `reset_handler`, `null_handler` (loops for ever) |
| Heartbeat | `main.c`, `init.c` | the tick, the next change, two LEDs | the blinking in the main loop, the tick interrupt |
| Watchdog, reset causes | `watchdog.h`, `main.c` | flags of RCC_CSR that outlive a reset | start the watchdog; what the boot decision reads |
| Protection | `main.c`, `flash.c` | option bytes | options that are off, and do not build |
| GPIO, clocks, newlib stubs | `gpio.c`, `main.c`, `syscalls.c` | none | register writes, stubs |

How they interact: `main()` calls `do_usb_poll`, which calls the handler of the
event the peripheral flags; the handler of a complete request calls
`usbdfu_control_request`, which may arm `usb_complete_cb`; the handler that ends
the status stage calls it; and that callback, `usbdfu_getstatus_complete`, is
the only code of DFU mode that erases or programs flash or resets the device.
`usbd_control_buffer` is shared by every request. The application and `main()`
share the RAM word at `_stack`, the flash and the SPI SRAM across resets.

### What is hard

* A host may abandon a transfer at any packet and start another. What the old
  one left (callback, buffer, offsets, NAK and ZLP flags, `dfuDNBUSY`) must not
  act in the new one.
* A setup packet may be served before the end of the previous transfer was: the
  reception flag is looked at before the transmission flag (`usb.c:793`).
* A callback erases flash for tens of milliseconds with the receiver open.
* The endpoint register mixes bits that a store clears, sets and toggles, and
  the peripheral changes it between the read and the store of every macro.
  Acknowledgements get lost, so that packets are sent again.
* The reset causes outlive a reset until `main()` clears them, which not every
  path does.
* The tick wraps around after 49 days.
* No DFU request looks at the state it arrives in, and addresses are computed
  modulo 2^32 from values the host chooses.
* Power fails or the pin resets while a page is erased or programmed, in DFU
  mode or in the update from the SPI SRAM, whose steps must be ordered so that
  any restart finds an application that is whole or none.
* The only test of an application is the exclusive or of its words.

`PROJECT.json` lists these hazards one by one, each at its line and with the
properties that would catch it going wrong.

### What makes each part correct

* Flash and DFU driver: the bootloader is never overwritten; flash changes only
  for a block the host has sent and has been told about, at most once, and
  nothing else changes with it; an acknowledged page is really in flash (an
  acknowledged block need not be: see Findings);
  the device resets only after it said so; a polling host is never left with a
  block that is not executed.
* Control endpoint: what is read is exactly the answer; what is downloaded is
  dispatched whole; a callback runs once, for the transfer that armed it and
  after it ended; the address changes at its status stage; nothing stalls but
  what is refused; nobody waits for ever. In short: a transfer is one exchange.
* Endpoint register: no event is dropped, no packet is overwritten while it is
  copied, no packet is taken twice or skipped, the receiver is never left shut;
  the buffers are where the peripheral looks for them, and clear of each other.
* Boot: only whole images are started; what is flashed is, in the end, what was
  validated; an
  image is flashed once; a request for DFU mode is held, and so is an
  application that hung; DFU mode is entered for a reason; `main()` ends.
* Heartbeat: the LEDs change a period apart, and for ever.

## 2. The modules

| Module | What it models |
|---|---|
| `Flash` | flash and the routines of `flash.c` as operators on a function from addresses to bytes |
| `PageStore` | the abstract promise to a DFU host: one pending command, applied at most once |
| `Dfu` | `usbdfu.c` in the main loop, one control transfer at a time, with outages; extends `Flash`, implements `PageStore` |
| `DfuProofs` | theorems about `Dfu`: type, bootloader, announcements, acknowledgements, what makes the driver hang |
| `PageStoreProofs`, `SafeWriteProofs` | `Dfu` implements `PageStore`; `ENABLE_SAFEWRITE` keeps images apart |
| `ControlTransfer` | the abstract promise to a host and to the DFU driver: a transfer is one exchange |
| `UsbControl` | the state machine of `usb.c` packet by packet, with the peripheral's endpoint 0 and a host; implements `ControlTransfer` |
| `UsbControlProofs` | theorems about `UsbControl`, the refinement of `ControlTransfer` among them |
| `PacketMemory` | the copies to and from packet memory, as operators |
| `PacketBuffers`, `PacketBuffersProofs` | the buffers of endpoint 0 in packet memory: `usb_pm_top`, bus resets, configurations, and the packets; a theorem |
| `Endpoint` | the handlers of `usb.c` store by store on the endpoint register of `usb.h`, with data toggles and lost acknowledgements; extends `PacketMemory` |
| `EndpointProofs` | theorems about the register macros, `Endpoint` and `PacketMemory` |
| `Boot` | `main()` from a reset to the jump or to DFU mode, with the SPI SRAM, the application, a DFU host and outages |
| `BootProofs` | theorems about `Boot` |
| `Heartbeat`, `HeartbeatProofs` | the blinking loop of `main()` with the tick interrupt, and a theorem |
| `MainLoop` | the loop of `main()` in DFU mode: `Heartbeat` and the polling of `PacketBuffers` composed |
| `MCDfu`, `MCUsbControl`, `MCEndpoint`, `MCBoot` | small instances for TLC |

`UsbControl` takes a transfer packet by packet with handlers in one step;
`Endpoint` takes the handlers apart and leaves sizes out; `PacketBuffers` has
the sizes and where in packet memory they go; `MainLoop` is the loop that polls
it; `Dfu` starts from
whole transfers, which `UsbControl` implements; `Boot` has a DFU host of its own
that downloads an image page by page, as `Dfu` lets it.

`map` in `PROJECT.json` gives the lines of the source behind each definition.
An operator whose name begins with `Bug` is a definition with a mistake in it:
substituted for the definition after it, it makes a property fail, which shows
that the property depends on that line of the code. No specification uses them.

### Dfu

A transfer is three steps of the model: the request, handled where its setup
packet (or its last data packet) is; `DataStage`, in which the host reads the
answer; and the status stage, which runs the callback if it is armed. `stage`
is what is left of the transfer, `reply` is what the data stage will hand over.
Each request action may occur in any state the main loop polls in, and replaces
whatever transfer was going on, as a setup packet does (`_usbd_control_setup`
clears `usb_complete_cb`). The callback itself is cut into the steps between
which power may fail: `StartBlock` (unlock), `Wipe`, `ErasePage`, `StartWrite`
(the erase before a write), `Program`; `SetAddr` and `Ignore` are the blocks
that touch no flash. `BlockFault` and `UploadFault` are the accesses that leave
mapped memory or store a half-word at an odd address: the fault handler loops
until a reset (`power = "hung"`). `Outage` may occur everywhere; what was being
changed is left unchanged, done in part, or `Garbage`.

The data: a buffer is at once a command byte, the little-endian word behind it,
and a name for its content, since the code uses the same bytes as a command for
block 0 and as data for other blocks. A block shorter than a command keeps the
end of the last one in `prog.buf`, as the code does. Address arithmetic is
modulo `AddrSpace` (2^32). `seen` is a history variable: the last DFU state the
host has read since it sent its last block.

### UsbControl

`tx` and `rx` are the two directions of endpoint 0 with their status, and `ctr_tx`,
`ctr_rx`, `is_setup`, `bus_reset` are the flags that `do_usb_poll` looks at. Host
actions are transactions on the wire, and do what the hardware does by itself: a
completed transaction turns the status to NAK and raises the flag, a SETUP is
discarded while a reception is still flagged. Driver actions are the handlers:
`Refused`, `Answered`, `Done` and `SetupOut` for a setup packet, `DataOut`,
`LastDataOut`, `DataOutFails`, `StatusOut`, `UnexpectedOut` for `_usbd_control_out`,
`DataIn`, `LastDataIn`, `StatusIn`, `UnexpectedIn` for `_usbd_control_in`, and
`Reset`. A handler is one step, except that a callback in `StatusOut` takes until
`CallbackReturns`. Bytes are pairs of a request and a position, so that a byte of
another transfer or out of order is noticed. A request is what dispatching it does
(`Kinds`).

`Overtaking` says whether a setup packet or a bus reset may arrive before the
main loop has polled the previous event. The loop takes microseconds unless a
callback is running, a host waits much longer between transfers, and most
properties hold only without it: the runs show which need it and which do not.

`ImplementsControlTransfer` maps what `UsbControl` keeps on both sides to one
exchange (`ControlTransfer`). A transfer is *open* from its setup packet on,
*served* once the driver has read the setup packet and has an answer or the
status stage to send, *over* when the host has done the status stage; what a
download was served with is what the buffer holds from then on. `Dfu` has the
same stages: a request action is *serve*, its `StatusStage` is *finish* and *call*.

### Endpoint

`reg` is the register as the set of its bits that are one, and `Stored` is what
a store does to it: 0 clears a flag, 1 toggles a toggle and a status bit. The
macros of `usb.h` are operators from the value they read to the value they store
(`USB_SET_EP_RX_STAT`, ...). A handler is a list of steps in `todo`; a step that
is a macro is two actions, `Load` and `Store`, and host and peripheral act
in between. `Copy` takes a packet from packet memory in two halves. What a
handler does next depends on `usb_fsm_state` as in the source.

The host repeats a transaction whose acknowledgement is lost (`HostReads`,
`HostSends` with `acked = FALSE`), and drops a packet whose data toggle it does
not expect. It may abandon a transfer at any time; `overtaken` becomes true for good
when it sends a setup packet or resets the bus while the driver has an event yet
to look at or is in a handler: what needs a `Patient` host is stated with `~overtaken`, the
rest holds without.

Requests are known by what they do to the endpoint: read, write, neither, set or
clear the halt of either direction, or be refused; data is a number of packets.

### PacketBuffers

A byte of packet memory is known by its owner: free, of a buffer descriptor, of
a packet to be sent, of one received. `SetUpTx` and `SetUpRx` are the two halves of
`_usbd_ep_setup` for endpoint 0, each of which takes a buffer at `usb_pm_top` and moves
that on; `PollReset` sets it back, `ReadPacket` may be that of a SET_CONFIGURATION, which
moves it behind the buffers. A bus reset may come between any two of them, and again
before the last was served. The peripheral finds its buffers through
`btable`, and takes the receive count for more than `_set_ep_rx_bufsize` means by it
(`Allocated`). A packet received survives a bus reset, as its flag does.

### Boot

`pc` follows `main()`: `start` (read the size word, look at the SPI SRAM), `found`
(read the header again, this time without a check: `ReadHeader`), `erase`, `clear`,
`copy` (the update, `broken` when a read failed), `decide`, and the two ends `app`
and `dfu`. Sizes and addresses are modulo `AddrWords` (2^32 bytes), and the SPI SRAM
answers at each of them. Memory is in words, and a word is the set of its bits that
are one, so that the exclusive or is computed and not assumed. The application may
ask for DFU mode, leave something in the SPI SRAM or reset; a DFU host downloads an
image page by page and may stop and reset anywhere; `PinReset` keeps RAM,
`PowerLoss` makes the RAM word noise and may lose the header. Both may tear what is
being written, the header included (`TornHeader`: its bytes are cleared in order,
the magic first). With `SramFails` a read or a write of the SPI SRAM may fail:
`spi_sram_read` and `spi_sram_write` are weak, and a board may replace them. A
failed write of the header goes unnoticed (`main.c:323`), a failed read of the
header means that there is no image, a failed read of a chunk ends the copy
(`CopyBreaks`, `main.c:333`).

`options` is the set of build options that add a reason for DFU mode, chosen from
`Builds` at the start and constant. `causes` are the flags of RCC_CSR: a reset
adds its cause and that of the pin, which every reset pulls; a loss of power
clears the others; `main()` clears them on its way to the application or
to DFU mode, but not on the way through an update. `AppHangs` is the watchdog
that `main()` started before the jump. `last` and `hung` are history variables.

### Heartbeat

The loop looks at the tick, changes the LEDs if it is due, and polls; the
interrupt comes between any two of these. `lag` counts the ticks since the loop
looked, and is at most `MaxLag`: the code has no other guard against a loop that
takes longer than a wrap-around, and neither has the model. `age` is a history variable.

### MainLoop

A step of the loop is one of `Heartbeat`, or the poll, which takes a step of
`PacketBuffers` or finds nothing there to do. `do_usb_poll` serves one event, and
returns when it is through (`at = "poll"`): a bus reset takes it four steps, with
the tick and the peripheral between any two. A handler that reads a packet and
answers it is two calls in this model. Every step of `MainLoop` is one of `Heartbeat` or
leaves its variables alone, and likewise for `PacketBuffers`, whose theorems are
about `Spec` and `BuffersSpec`.

### PageStore

At most one command is pending. It names cells to erase and bytes to put, the store
changes through it only, it takes effect at most once, and a new command replaces
it. An outage may leave the cells of the pending command in a mixture of old,
erased, new and garbage, and no others. `Dfu!ImplementsPageStore` maps the block in
`prog` to the pending command from the request that brings it to its execution or
withdrawal (`Owed`), takes it for the half-words that the driver programs (the last
byte of an odd length is not among them: see Findings), names its page only if the
driver would erase it (`MustErase`: `usbdfu.c:99` erases only what does not read as
erased), and maps a running or hung processor to a store that is `up`. In a build
with `ENABLE_SAFEWRITE` the wipe erases pages that no command names, so the promise
is made without it.

## 3. The runs

| Run | Instance | What it shows |
|---|---|---|
| `dfu` | 3 pages of 8 bytes, addresses of pages, odd, at the end of flash and wrapping around, blocks 0, 1, 3, 4, lengths 5 and 8 | the safety properties of the driver and the refinement of `PageStore`, with outages |
| `dfu_safewrite` | `ENABLE_SAFEWRITE`, no upload, blocks across pages and of one byte, fairness | old and new code never stand together in flash; each block is executed or withdrawn |
| `dfu_detach` | an orderly host | violated: see Findings |
| `dfu_acks` | addresses of pages, in the payload and outside, lengths 5 and 8 | violated: see Findings |
| `usb` | packets of 2 bytes, buffer of 4, 16 shapes of request, fairness | the properties of the control endpoint, for a host that abandons transfers at any packet, that every transfer ends, and that a transfer implements one exchange |
| `usb_overtaking` | the same with `Overtaking`, 6 shapes | a download is dispatched whole or not at all even then |
| `usb_address` | the same | violated: see Findings |
| `endpoint` | data stages of two packets, all seven kinds of request, fairness | the register is handled without losing an event, a packet or a toggle, and the receiver opens again |
| `boot` | 2 pages of 2 words of 4 bits, 2 images, 9 contents of the SPI SRAM, 3 sets of options, outages, failing reads and writes, fairness | the properties of the boot flow, safety and liveness |
| `boot_flag` | the same without options, outages and failures | violated: see Findings |
| `boot_xor` | an image with a zero-filled end, no SPI SRAM image | violated: see Findings |
| `main_loop` | packets of 8 and 64 bytes, lengths 0, 64 and 200; a counter of 16 values, a period of 4, a lag of 2, fairness | packets survive resets, configurations and each other; when the LEDs change, over every wrap-around and whatever the poll has to do |

The largest is `endpoint` with about a million states, `usb` has half as many;
each takes about two minutes at most on two cores.

### Properties

* `Dfu`: `BootloaderIntact`; `AckedPageIsDone` (a host that reads
  `dfuDNLOAD_IDLE` can rely on its page, if it named one of the payload: of
  other blocks, and of an odd last byte, `AckedBlockIsInFlash` shows that it
  cannot); `HangsOnlyOffPage` (the bootloader
  hangs only for addresses off a page); `WritesAreAnnounced` and
  `ResetIsAnnounced` (no flash write before the host has read `dfuDNBUSY` for
  this block, no reset before it has read `dfuMANIFEST`); `NoMixedImages`;
  `ImplementsPageStore`; `BlockIsExecuted`.
* `UsbControl`: `AnswersAreExact`, `DownloadsAreWhole`, `CallbackIsNotLost`,
  `OnlyRefusalsFail`, `AddressIsLatchedLate`, `TransfersEnd`,
  `ImplementsControlTransfer`.
* `Endpoint`: `PacketsAreWhole`; `DataIsWhole` (each packet arrives once, in
  order, whatever acknowledgement gets lost); `EventsAreNotDropped` (a flag
  raised while a macro runs is not lost); `NeverShut`; `NoStandoff`;
  `ReceptionsAreTaken`; `CopiesAreExact` of packet memory.
* `PacketBuffers`: `PacketsSurvive` (packets that wait are whole in the buffers the
  peripheral knows, and the descriptors untouched).
* `Boot`: `StartedImageIsWhole`, `RequestIsHeld`, `HungAppIsHeld`, `DfuIsDue`,
  `InstalledOnce`, `CopyIsExact` (what the copy loop leaves in flash is the image
  that was validated), `BootEnds`, `UpdateTakesEffect`.
* `Heartbeat`: `ChangesAreApart`, `BlinksOn`.
* A type invariant in each of the first four; in `UsbControl`, `Endpoint` and
  `Boot` it includes bounds that the code must maintain (`datasize` and `dataoff`
  within the buffer while a transfer is under way, `chunk` within the request,
  `img_size` within the payload). That of `Heartbeat` is part of its proof.

### Bounds, and why they are enough

* `Dfu`: one page of bootloader and two of payload make all the borders there
  are: bootloader and payload, page and page, end of flash. Addresses below 64
  leave room below and above the flash, so that the range checks meet both
  sides and the wrap-around. Two different contents tell old from new. Each
  buffer is also a command, so a data block may become a command and the other
  way round. No counter is bounded artificially: the state space is finite
  because `prog` and the flash are.
  Blocks at an even address off a page are in `dfu_safewrite`, at an address that
  does not hang the driver; the theorems have every address and length.
* `UsbControl`: two full packets fill the buffer, so there is a first, a
  last and a short packet, an answer of exactly the buffer with and without an
  empty packet, a download one byte too long, and data behind a request that has
  no use for it. The counters are bounded by the length of a transfer.
* `Endpoint`: two packets are a first and a last one, of either direction, with
  both values of the data toggle; a third would repeat the second. No counter is
  bounded: `chunk` and `moved` end with the request. `CopiesReturn` takes
  lengths to 13: three rounds of the loop and every remainder.
* `PacketBuffers` in `MainLoop`: all of packet memory, the smallest and the largest
  packet size USB allows for endpoint 0, and packets that are empty, full and longer
  than the buffer; the theorem has every size and length. No counter is bounded,
  `usb_pm_top` has its 16 bits.
* `Boot`: two pages, so that a page of one image can stand beside a page of another;
  images of three and four words, so that one ends within a page; four bits, enough
  to tell sizes from 0 to 15 and to choose images whose parts and mixtures have
  another exclusive or (`Strong`) or the same (`Weak`). `installs` is capped at 2,
  one more than the property allows. `AddrWords` is 16: there is room for an image
  past the place where an image may be, and one of the deposits ends past the end of
  the address space, where the sum of offset and size is small. The sets of options
  are none, those that look at reset causes, and all.
* `Heartbeat`: the counter wraps around within the run, so that every place of a
  change relative to the wrap-around occurs; the period is larger than the lag.

Deadlock is checked in every run: the system never stops for good, since an
outage or another request is always possible.

### Fairness

* `Dfu`: weak fairness of `Block`: the processor runs the callback to its end.
  Strong fairness of `GetStatus` and of the stages of a transfer with an armed
  callback: a host that keeps asking and does not abandon every single transfer.
  A DFU host polls GETSTATUS until the device leaves `dfuDNBUSY`. Nothing is
  assumed about outages but that they do not forbid this.
  `dfu_detach` needs only weak fairness of the callback and the transfer.
* `UsbControl`: weak fairness of `Driver` (the main loop polls for ever) and of
  `Orderly` (a host takes the transactions it can take). `TransfersEnd` assumes
  in addition that abandoned transfers and bus resets come to an end.
* `Endpoint`: weak fairness of `Driver` alone: the main loop polls for ever and a
  handler ends. Nothing is assumed of the host.
* `MainLoop`: weak fairness of the loop and of the tick; nothing is assumed of the host.
* `Boot`: weak fairness of `Main`: the processor runs. `BootEnds` assumes that
  outages and failing SRAM writes come to an end, `UpdateTakesEffect`
  excepts an update that one of them, or a failing read, disturbs.

## 4. What is proved

The theorems about `Dfu` hold for every layout of the flash, every set of buffers,
block numbers and lengths, and both build options where nothing else is said;
those about `UsbControl` for every packet size, buffer size and set of requests;
those about `Boot` for every layout, word size, set of images, set of deposits and
set of builds; those about `Endpoint` for every set of requests; that about
`PacketBuffers` for every set of USB's packet sizes and every packet length; that about
`Heartbeat` for every width, period and lag.

| Theorem | Property | Argument |
|---|---|---|
| `TypeCorrect` | `[]TypeOK` | inductive, one step per action |
| `BootloaderSafe` | `[]BootloaderIntact` | `BootInv` adds that a block about to be programmed was accepted by the range check |
| `AllWritesAnnounced` | `WritesAreAnnounced` | `Told` adds that an armed callback in `dfuDNBUSY` or `dfuMANIFEST` in a status stage means that the host has read that state, and that code in the callback runs with it read |
| `AllResetsAnnounced` | `ResetIsAnnounced` | the same invariant |
| `AckedPagesAreDone` | `[]AckedPageIsDone` | `AckInv` adds that the page is erased when programming begins, and that a reply of `dfuDNLOAD_IDLE` on its way means the page is done |
| `DriverImplementsPageStore` | `ImplementsPageStore` | under `StoreInv`, each action is an action of `PageStore`: erasing a page or programming is `Perform`, the erase before programming is `Clear`, power failure and the reset are `Outage`, everything else is `Accept` or `Recover` |
| `ImagesNeverMix` | `[]NoMixedImages` | `MixInv` adds that once `erased` is set nothing of the old application is left, and that no page is erased or programmed before it is |
| `OnlyOffPageHangs` | `[]HangsOnlyOffPage` | `HangInv` adds that the block is one a host may send and was accepted before it is programmed; at the start of a page every word the driver reads is in flash |
| `UsbTypeCorrect` | `[]TypeOK` | `IInv` of `UsbControlProofs` adds that what is left of an answer is in the buffer (`Sizes`), what a setup packet that waits finds (`SetupPending`), and how far a download has come (`Progress`) |
| `NoDownloadMixes` | `DownloadsAreWhole` | `Progress`: what the driver has of a download is its beginning, and a packet that waits is what follows; a host that overtakes the driver does not break it |
| `AnswersExact`, `CallbackRuns`, `OnlyRefused`, `AddressLatched` | `[]AnswersAreExact`, `[]CallbackIsNotLost`, `[]OnlyRefusalsFail`, `AddressIsLatchedLate` | `Place`: host, peripheral and driver are together at one of twelve places of the transfer (below) |
| `TransfersAreExchanges` | `ImplementsControlTransfer` | a place determines what `ControlTransfer` sees (`View`); a step from place to place is an action of it or leaves it alone |
| `BootTypeCorrect`, `InstallsOnce`, `HungIsHeld` | `[]TypeOK`, `[]InstalledOnce`, `[]HungAppIsHeld` | `IInv` of `BootProofs` adds that a header in use is still marked and a consumed one is not (`Consumed`), and that between a reset and the end of `main()` the last cause is flagged, and that of the watchdog exactly while an application that hung is held back (`Flagged`) |
| `RequestsAreHeld`, `DfuOnlyWhenDue` | `RequestIsHeld`, `DfuIsDue` | the same invariant; `Heard`: in DFU mode no request is pending |
| `PayloadIsPatchwork`, `PatchworksStart` | `[]Patchwork(payload)`, `[]OnlyPatchworksStart` | `PieceInv`: each page of the payload is the beginning of one image or deposit, or garbage; with it goes which deposit is in use, and how far the erased and the copied pages reach (`EraseStage`, `CopyStage`), and that the size word read at the start is still the one in flash when it is used |
| `CopiesAreExact` | `[]CopyIsExact` | the same stages: from the checks on, through the second read of the header, the erase and the header's clearing, the locals are those of the deposit that was checked, no address in it wraps around, and what is copied so far is equal to it |
| `PacketsStayWhole` | `[]PacketsAreWhole` | `Shape` says what `todo` may look like; while a copy is under way the reception is flagged, so the peripheral takes no packet |
| `TypeCorrect` (of `EndpointProofs`) | `[]TypeOK` | `IInv` of `EndpointProofs`: types, `Shape`, and `Counts`: the state of the driver tells the kind of request and how many of its packets have been moved |
| `ReceiverIsNotShut` | `[]NeverShut` | `CInv` adds `Closed` (a bus reset closes endpoint and transfer; what the last steps of a handler tell), `Differs` (what a macro that sets the receiver's status has read differs from the register only by a packet taken since) and `Recovers` (with the receiver disabled, the status has yet to be set, or a reception is flagged whose handler will set it) |
| `NobodyWaits`, `DataArrivesWhole` | `[]NoStandoff`, `DataIsWhole` | `TransferIsPlaced`: a transfer with a patient host is at one of twenty places (below) |
| `FlagsAreNotLost` | `EventsAreNotDropped` | the macros that store flags as they read them run with the register as read, but for the exception the property states |
| `CopiesExact` | `[]CopiesAreExact` | `PacketsSurviveCopying`: for every packet, length and content of the memory, by induction over the turns of the copy loops |
| `PacketsDoSurvive` | `[]PacketsSurvive` | `IInv` of `PacketBuffersProofs`: where `usb_pm_top` stands at each step of the set-up, and that packets move only in buffers that are laid out (`LaidOut`), so that a reset lays them out as they were; `Room`: what the peripheral makes of the receive count of each size |
| `StatusIsSetExactly`, `FlagsAreClearedExactly`, `RacesAreHarmless` | (lemmas on `usb.h`) | for every value of the register read and every value it has when the macro stores |
| `BlinksNotTooSoon` | `ChangesAreApart` | `CntFollows` relates the next change to the tick and the age |

The assumptions are `FlashAssumption` (a page is a multiple of four bytes and at
least eight, the bootloader and the payload are not empty, the flash and one
page more lie within the address space: on the part 128 KB at 0x08000000 of
2^32), `DfuAssumption` (buffers are buffers, `wValue` has 16 bits, a length
is at most a page; the driver refuses more) and `OldAppAssumption` (the byte that
stands for the old application is no other). TLC evaluates them in every run of
`MCDfu`. `BootAssumption` says that an image is one to as many words as the
payload has, that a deposit fills the SPI SRAM, and that a word nobody can tell
is not a word; `EndpointAssumption` gives the requests their type;
`HeartbeatAssumption` that a period and a lag are less than the counter's width.
`UsbAssumption` gives requests the form USB 2.0 and DFU 1.1 give them: a request for
data is an IN request, and one that sets or clears a halt has no data.
Some theorems have hypotheses of their own:

* `DriverImplementsPageStore`: `ENABLE_SAFEWRITE` is off, and `HalfWordsFit`: flash
  begins at an even address and the names of downloaded bytes are not the erased
  byte. The controller programs a half-word only if both bytes are erased, while
  `PageStore` speaks of bytes; `StoreInv` therefore contains that the two bytes of
  a half-word are erased together (`Paired`), which would fail for data
  with a single 0xFF in a half-word, programmed twice without an erase.
* `ImagesNeverMix`: `ENABLE_SAFEWRITE` is on.
* `OnlyOffPageHangs`: `BlocksFit`: flash begins at an even address with a page
  below it, and no block number counts from the end of flash to the end of the
  address space. On the part the last block number reaches 64 MB further.
* The theorems about `UsbControl` but the first two: no `Overtaking`. Run
  `usb_address` shows that `AddressIsLatchedLate` needs it.

The twelve places of a transfer (`Idle`, `Asked`, `Posted`, `Fetched`, `Opened`,
`Closed`, `Offered`, `Acked`, `Ready`, `Arrived`, `Over`, `Stalled`) say of each side
what it has done and of the peripheral what it has waiting: at `Posted`, for example, a
packet of the answer waits to be read and the driver counts it as sent, at `Fetched`
the host has it and the driver does not know yet. No property of `usb` is
inductive by itself, since what the host may do next depends on what the driver
has opened, and what the driver does on what it believes the host has done. There
is one lemma for each step of host or driver (`HostReadsMoves`, `SetupOutMoves`, ...),
which says from which place it leads to which; `PlaceStep` puts them together.

`Endpoint` shows the same transfers store by store, so its places are finer: twenty
of them (`Over`, `Asked`, `Fetched`, `Known`, then `Posting` to `Repeating` for a
request that reads, `Opening` to `Arrived` for one that writes, `Halts`, `Unhalts`,
`Replying` to `ReplyTaken`, `Stuck`, `Refusing`). Each ties together what the handler
has yet to do, statuses, flags and toggles in the register, the packets in packet
memory, and the stages the host still waits for. `Level` and `Synced` say that
toggles agree, or that the host repeats the last packet because its acknowledgement
got lost. There is a lemma for each step of the host (`SetupPlace`, `ReadPlace`,
`SendPlace`, `ResetPlace`, `StalledPlace`) and one for the driver at each place
(`AskedGoes`, `PostingGoes`, ...); `PlaceStep` joins them. Places say nothing of a
host that has overtaken the driver (`overtaken`): `NoStandoff` and `DataIsWhole` do
not either, while `TypeCorrect`, `PacketsStayWhole`, `ReceiverIsNotShut` and
`FlagsAreNotLost` hold with it as well.

The payload of `Boot` is written by three parties: the loop over pages of an
update, a DFU host, and an outage in the middle of either. Each of them erases a page before
programming it and programs it from its first word on. So a page never mixes two
images, while a payload may: that is what the checksum has to find out, and what
`PatchworksStart` leaves to it. `StartedImageIsWhole` is model-checked only, for images
whose pieces the checksum tells apart (`Strong`). No theorem could make that an
assumption about real images: among more than 32 pages there are always some
whose exclusive or is 0, so that they may be missing unnoticed. Run `boot_xor` has the
simplest case.

The page of an address in the payload lies in the payload
(`PageBehindBootloader`) and an accepted target is in the payload whatever
wrapped around (`AcceptedTarget`): these lemmas carry the
range check of `usbdfu.c:97` from arithmetic to cells.

The invariants were found with TLC first, and strengthened where a step could
not be shown: `BootloaderIntact` alone is not inductive, because `Program` writes
where the block points and only the step before it has checked where that is.

The copy loops of `PacketMemory` are recursive functions. The induction theorems of
the library, which have an operator as a parameter, are not applied; instead
`Counted` derives from the well-foundedness of the numbers (`WFMin`) that a set with 0,
and n + 1 with n, contains every number, and the proofs give that set.

Every safety property and action property that a passing run checks is proved, and
the refinements `ImplementsPageStore` and `ImplementsControlTransfer`, but for
`StartedImageIsWhole`, which is true of images with a good checksum only (above).
Only model-checked is also everything temporal beyond that: liveness under fairness
(`BlockIsExecuted`, `TransfersEnd`, `ReceptionsAreTaken`, `BootEnds`,
`UpdateTakesEffect`, `BlinksOn`), which is outside what TLAPS proves.

## 5. Findings

* `DetachResets` (`dfu_detach`): `README.md:70-72` of the repository says that
  DETACH makes the bootloader reset into the new application. DETACH only moves
  to `dfuMANIFEST_SYNC`; the reset is in a callback that needs a GETSTATUS whose
  status stage completes.
* `AckedBlockIsInFlash` (`dfu_acks`): a block that the range check refuses is not
  written, and the driver goes to `dfuDNLOAD_IDLE` with status OK all the same
  (`usbdfu.c:97-104`); the error statuses of `usb.h:26-40` are never reported.
  Of a block of odd length the last byte is not written (`flash.c:74`), and the host
  is told it is. `README.md:193` says that the firmware is written, `README.md:266`
  that an upload is verified. `checksum.py` pads images to whole words, other tools
  need not.
* `AddressIsLatchedLate` (`usb_address`): a SET_ADDRESS served before the end of
  the last transfer was polled takes that end for its own status stage, and
  changes the address before it.
* `DfuRequestIsHonoured` (`boot_flag`): `README.md:56` says that the DFU flag
  leads to DFU mode. An image in the SPI SRAM is looked for first, and its path
  clears the flag. What does hold is `RequestIsHeld`.
* `StartedImageIsWhole` (`boot_xor`): an image that ends with an even number of
  words whose exclusive or is 0, as a zero-filled table does, is started with
  those words missing, because erased words cancel as well.
  `StartedImageIsWhole` holds in run `boot`, for images none of whose parts
  passes the checksum.

What the properties of `Endpoint`, `Heartbeat` and `Boot` except, because the code does it:

* A setup packet or bus reset that overtakes the driver may leave a reception
  flagged for ever, with the receiver deaf: an OUT packet nobody expects
  (`usb.c:689`) and a reception found with the receiver open (`usb.c:267` after
  `usb.c:783`) are not cleared (`ReceptionsAreTaken`).
* `USB_CLR_EP_RX_DTOG` and `USB_CLR_EP_TX_DTOG` (`usb.h:470-478`) store the flags as
  they read them. A setup packet that overtakes CLEAR_FEATURE(ENDPOINT_HALT) may
  lose its flag (`EventsAreNotDropped`).
* CLEAR_FEATURE(ENDPOINT_HALT) of endpoint 0x80 resets the data toggle of its own status
  stage, which the host then takes for a repetition (`NoStandoff`). Hosts do not
  send it; every one of USB 2.0 may.
* When the acknowledgement of the last packet of an answer gets lost, device
  and host wait for each other until the host times out: the driver opens
  the receiver only when that packet was acknowledged (`usb.c:701-704`).
* An application that deposits an image and then hangs gets its image installed,
  and then DFU mode: the update does not clear the reset causes (`main.c:344-346`
  before `main.c:361`; `UpdateTakesEffect`).
* With an SPI SRAM whose header can be read but never written, `main()` flashes the
  same image and resets for ever (`main.c:323`; `BootEnds`).
* If the LEDs are set to change at the very end of the tick's range they may never change
  again: 500 ticks before the wrap-around, `cnt` near 2^32 (`main.c:418-420`; `BlinksOn`).

Noticed on the way, without a run: `README.md` places four
reserved bytes at the end of RAM where the linker script keeps eight
(`stm32f103.ld:25-27`); the comment at `sram_image_header.h:37` spells the magic
"SRAM", the number spells "SBAM"; a failed read of the SPI SRAM is commented "abort
and continue bootloader" (`main.c:335-337`) but ends in a reset; GETSTATUS
reports a DFU state number where the specification wants a status; the code of
`ENABLE_WRITEPROT` and `ENABLE_PROTECTIONS` does not compile, since it calls static
functions of another file.

## 6. Not modelled, or only in part

* Requests that are not in the form DFU 1.1 and USB 2.0 give them (another
  direction, a GETSTATUS that asks for no data): `Dfu` takes hosts to keep to the
  form of a request, not to any order of requests.
* Endpoint 0 is the only endpoint: the driver sets up no other. The contents
  of descriptors.
* The set-up of endpoint 0 at a bus reset is one list of stores in `Endpoint`;
  a second bus reset during it is left out (the bus stays in reset for milliseconds).
* The contents of the GETSTATUS answer besides the state.
* The transfer of a byte to the SPI SRAM (`spi_sram.c`): waiting for flags of the
  SPI peripheral that nothing else uses. `spi_sram_self_test` is not called.
* The chunks in which `validate_checksum_stream` reads; `Boot` has the checksum of
  the whole, which is the same however the words are grouped.
* Half-words 0x0000, which the controller writes over anything.
* A DFU host in `Boot` is the page-by-page download only; `Dfu` has the rest.
* The set-up of the watchdog, register writes in a fixed order; a timeout of 26 s
  or more does not fit the 12-bit register.
* Write and readout protection (`ENABLE_WRITEPROT`, `ENABLE_PROTECTIONS`): options that
  are off, and do not build, since `flash.c` defines the option byte routines
  static while `flash.h:16-18` declares them otherwise.
* Clock and GPIO set-up: register writes in a fixed order. Newlib stubs: nothing
  calls them. `checksum.py`: a host tool.

## 7. Plan

Done, in this order:

1. `Flash`, `PageStore`, `Dfu`, `MCDfu`, with every safety property of `Dfu` that
   holds and the refinement of `PageStore` proved.
2. `UsbControl`, `MCUsbControl`: control transfers packet by packet;
   `ControlTransfer` and its refinement, which justifies the level `Dfu` starts from.
3. `Boot`, `MCBoot`: the boot flow, with reset causes, options and a failing
   SPI SRAM; `BootProofs`.
4. `PacketMemory`, `Endpoint`, `MCEndpoint`: the endpoint register with the peripheral
   changing it between read and store; `EndpointProofs`.
5. `Heartbeat`, `HeartbeatProofs`.
6. `UsbControlProofs`: every safety property of `UsbControl`, and the refinement of
   `ControlTransfer`.
7. `EndpointProofs`: every property of `Endpoint` but liveness; the copies of
   `PacketMemory`.
8. `BootProofs`: what the payload is made of, what is copied to it and what is started
   therefore.
9. `PacketBuffers`, `PacketBuffersProofs`: the buffers behind `Endpoint`;
   `MainLoop`, the loop that polls them.

Left:

10. `Boot` and `Dfu` over one flash, in place of the small DFU host of `Boot`.
