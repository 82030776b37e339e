# A TLA+ verification of harp.core.rp2040

The Harp core is firmware for an RP2040 microcontroller.  It speaks the Harp protocol with a
PC over USB (CDC, TinyUSB), keeps the *Harp time*, which an external clock may set over a
UART, and holds the device's registers.  Everything runs on one core: a main loop,
`HarpCore::run()`, that calls its parts in turn, and one interrupt handler,
`HarpSynchronizer::uart_rx_callback()`, that may preempt the loop between any two
instructions.  TinyUSB is polled by the loop (`tud_task()`).

This directory models the program's own logic in TLA+, checks it with TLC on small
instances, and proves the main safety properties with TLAPS for all values of the constants.

    tlc -config OpModeMoved.cfg MCOpMode.tla     (a run; section 3 lists them)
    tlapm OpModeProofs.tla                       (a proof module)

Contents: [1 Inventory](#1-inventory) · [2 Modules](#2-modules-and-their-correspondence-to-the-code) ·
[3 Runs](#3-runs) · [4 Fairness](#4-fairness) · [5 Disagreements](#5-disagreements-with-the-documentation) ·
[6 Proofs](#6-proofs) · [7 Model-checked only](#7-what-is-only-model-checked) ·
[8 Not modelled](#8-what-is-not-modelled) · [9 Plan](#9-plan)

Paths below are relative to the repository's `firmware/`; `core` stands for
`src/harp_core.cpp`, `core.h` for `inc/harp_core.h`, `sync` for
`src/harp_synchronizer.cpp` and `sync.h` for `inc/harp_synchronizer.h`.

---

## 1. Inventory

| Component | State | Operations |
|---|---|---|
| Operation modes (`update_state`, `force_state`, `write_operation_ctrl`, `write_reset_dev`) | `OP_MODE`, `ALIVE_EN`, `MUTE_RPL` of `R_OPERATION_CTRL`; `connect_handled_`, `disconnect_handled_`, `sync_handled_`; heartbeat interval and next time, start of the disconnection, all 32-bit Harp times | one `update_state()` per turn of the loop, another inside a write of a new mode |
| Serial input (`process_cdc_input`) | 255-byte `rx_buffer_`, 8-bit `rx_buffer_index_`, `new_msg_` | take in bytes, recognise a complete message, clear it |
| Synchronizer (`uart_rx_callback`) | `state_`, `packet_index_`, `sync_data_`, `new_timestamp_`, `has_synced_` | decode a byte, apply a timestamp |
| Harp time | `HarpSynchronizer::offset_us_64_` (written by the interrupt and by the loop), `HarpCore::offset_us_64_` | convert, set, refresh the timestamp registers |
| Registers and replies | `RegValues`, `reg_func_table_` | dispatch of reads and writes, errors, muting, the dump, stamping |
| C-style application (`HarpCApp`) | the application's registers, two callbacks | dispatch, dump, update, reset |
| Transmission (`tud_cdc_write_char`) | TinyUSB's 256-byte transmit FIFO | push a reply, flush, poll |

**Interactions.**  `run()` (core:63-102) is: `tud_task()`, `update_state()`,
`update_app_state()`, `process_cdc_input()`, and, when a message is complete, the core's
handler, the application's handler, or neither; the message is then cleared.  Handlers call
`send_harp_reply()`, which refreshes the timestamp registers and ends with another
`tud_task()`: a reply may therefore change the connection or bring in bytes in the middle of
a handler, and the PC may have the reply before the message it answers is cleared.  The
loop and the interrupt share the synchronizer's offset and `has_synced_`.
Writing `R_OPERATION_CTRL` re-enters `update_state()`; writing a timestamp register moves
the clock that `update_state()` measures heartbeats and disconnections with.

**What is hard.**

* The *interleaving* of loop and interrupt: `update_state()` reads the clock and then asks
  `is_synced()`; 64-bit offsets are moved in two 32-bit halves.
* *Time*: 32-bit times that wrap every 71 minutes are compared by signed and by unsigned
  differences; the clock jumps when a packet comes in or the PC writes it; 2^32 is no whole
  number of seconds.
* *Flags over several calls*: connection, disconnection and synchronization are "handled
  once" by flags that different branches maintain.
* *Bytes*: messages are cut anywhere by USB, and for good when the PC closes the port in the
  middle of one; `msg_size()` is a sum in a `uint8_t`.
* *Dumps*: one message makes dozens of replies, while the time goes on, into a FIFO of 256
  bytes that drops what it has no room for and a PC that may be slow.

**What makes each part correct.**

| Component | Properties |
|---|---|
| Operation modes | the interval fits the mode (`ActiveInterval`); ACTIVE is entered by itself once per connection (`SelfOnOnce`), dropped only after three seconds without the PC (`NoSpuriousDrop`), and then as soon as a turn of the loop allows (`DropsInTime`, `DropsEventually`); the next heartbeat is ahead and near (`HeartbeatAhead`), and heartbeats keep coming (`HeartbeatsKeepComing`) |
| Serial input | messages are delivered whole, once, in order (`DeliversMessages`, a refinement), and at last (`HandlesAll`); reads fit in the buffer (`ReadsFit`) and in the message whose header is in (`CompletesExactly`); nothing stops the receiver (`NeverLocksUp`) |
| Synchronizer | each packet, and nothing else, sets the clock, to the time it announces (`FollowsClock`, a refinement, and `AppliesOn`); after losses it is back in step with the first packet whose timestamp does not look like a header (`RecoversInTime`, `Recovers`, `KeepsSyncing`) |
| Harp time | a time written is the time shown (`WriteShows`); conversions follow the last packet, but for one it cuts in two (`FollowsPackets`); a torn offset heals with the next packet (`WholeAfterPacket`, `Heals`) |
| Registers | read-only registers never change (`ReadOnlyKept`); a reply agrees with its own timestamp (`TimestampAgrees`); the dump shows every register once, in order (`DumpInOrder`); a muted device answers only what does not ask (`MutedIsQuiet`); every message is done with in a bounded number of steps (`HandlersEnd`) and cleared (`AlwaysCleared`) |
| Transmission | a PC that keeps up loses nothing (`NoneCut`) and makes of the bytes the replies, whole, once, in order, with their checksums (`RepliesWhole`), none of them waiting for another (`NothingLeftBehind`, `RepliesArrive`); what another PC loses of a reply is its end (`LossesAreTails`) |

`PROJECT.json` has the full list of hazards, each at its line with the properties that cover it.

---

## 2. Modules and their correspondence to the code

    HarpTime ----+-- OpMode ---- OpModeHistory ---- MCOpMode, OpModeProofs, OpModeTimingProofs
                 |       \------ MCOpModeLive
                 +-- HarpClock ---- MCHarpClock, HarpClockProofs
                 +-- HarpSynchronizer ---- MCHarpSynchronizer, HarpSynchronizerProofs
                 |        \ implements SyncClock
                 +-- HarpTimeProofs (lemmas of 32- and 64-bit arithmetic)
    CdcInput ---- MCCdcInput, CdcInputProofs
          \ implements MessageChannel
    Registers ---- MCRegisters, RegistersProofs
    Transmit ---- MCTransmit, TransmitProofs

An `MC` module only gives values to constants for TLC.  Some modules have, before the
definitions they belong to, *mutated forms* of them (`MsgSizeNoChecksum`, `StampedLate`, ...):
plausible bugs, used to show that the properties can fail.  No specification uses them.

### HarpTime
Unsigned arithmetic at two widths.  `Word` stands for 2^32, `Long = Wraps * Word` for 2^64 and
`Second` for 1'000'000 us.  `IsDue` is the signed comparison of core:241, `HeartbeatAfter` the
rounding of core:196-202 (and of the constructor), which rounds the *truncated* time.

### OpMode, OpModeHistory
One turn of the loop is `BeginUpdate` (`tud_task()`, and line 172, which reads the clock),
`UpdateState` (the rest of `update_state()`), and one of `NothingToDispatch`,
`WriteSameMode`, `BeginForce` + `ForceState`, `WriteResetDev`, `WriteTimestamp`.  The split
of `update_state()` is where the interrupt matters: it reads the clock before `is_synced()`.
`Tick`, `SyncInterrupt`, `PcTogglesPort` and `PcSends` may come between any two steps.
`Update(next_state)` is everything in `update_state()` but the assignment of the mode; it is
shared by the unforced call (`NextState`, with its fall-through from STANDBY to ACTIVE) and
by a forced one.  A heartbeat that is dispatched runs `tud_task()` and so may change
`connected`.  `Restart` is the boot ROM's return from DFU mode.  `harp_us` is the Harp time itself; how
it is kept is HarpClock's matter.  `OpModeHistory` adds history variables and the
properties that need them: how long `update_state()` has not seen the PC (`away`), whether
it has entered ACTIVE by itself on this connection, whether the mode is the PC's, and how
long the device has been left in ACTIVE without the PC and with a clock that only ticks
(`alone`).  A clock that packets or the PC may *move* gives every duration measured with it
another value, so that the properties about durations say what it may do to them: `moved`
records that the clock was moved since the PC was last seen, `on_time` that it was not since
the next heartbeat was put on its time.  Without `moved`, `NoSpuriousDrop` is false (section
5).

### CdcInput, MessageChannel
The bytes written by the PC are on the `wire`, in TinyUSB's `fifo`, or in `rx_buffer_`.
`UsbDelivers(n)` is a USB packet taken in by any `tud_task()`; `process_cdc_input` is the
function as a whole, its first read bounded by the buffer and a later one by the header;
`HandleMessage` stands for the dispatch, all of whose paths clear the message.  `Reply` is the
end of a handler's `send_harp_reply()`: its `tud_task()` lets the PC have the reply, and its
next message come in, while `rx_buffer_` still holds the message.  With `PcCloses` the PC
goes away in the middle of a message: the bytes on the wire are lost, those in the FIFO are
lost too if the bus is reset, and nobody tells the receiver.  Of a message's content only its
second byte, `raw_length`, matters.  `MessageChannel` is the abstract promise (messages
pending, messages handled); CdcInput implements it under
`pending <- SubSeq(sent, Len(handled) + 1, Len(sent))` as long as the PC waits for each reply
and does not go away.  If it does not wait, the receiver may lose messages, see
`ReadsOneMessage`.

### HarpSynchronizer, SyncClock
A byte arrives in the UART's data register (its FIFO is off) or is lost when the register is
full; `ReceiveByte` is a pass of the callback's loop and `ApplyTimestamp` what follows it.
Between two passes the callback keeps nothing of its own, which is why a pass is a step.
Timestamps are four bytes, little-endian; the sum of line 89 is 32 bits wide, the rest 64.
The packet's format is the Harp clock protocol's, as the decoder reads it.  The external clock
does not wait for the handler: a packet may begin while the last byte of the one before is in
the register, or its timestamp is not applied.  `SyncClock` is the promise: a packet becomes
`due` when its last byte has come in, and is applied before the next is in.  What time that is,
`Announced(s)`, is the promise's own definition, of whole numbers: the second after the one the
packet counts, or 0 after the last, less the offset; `TimeOf` is the code's, with its sum of
32 bits.  `due` is a history variable, set by the line and not by the decoder.

What a decoder that has lost its place makes of the line depends on the timestamps: one
with the first header byte in it may be taken for a packet, again and again.  `Clean(s)` says
that `s` has no such byte.  `clean` counts the packets that have begun since the last loss,
from a clean one on.  While the second of them is on the line (`clean = 2`) the decoder is back
in step, but a time that was due before the clean packet may never have been applied; from the
third on (`clean = 3`) each is applied before the next is in, whatever they hold.

### HarpClock
The two offsets behind `harp_time_us_64()`.  The synchronizer's is a pair of 32-bit words:
the main loop moves it word by word, in the order the compiler chose (`StoreHalf`,
`LoadHalf` in any order), and `Packet` - the interrupt, which nothing divides - may come in
between.  The core's own offset is not shared with an interrupt and moves whole.  A handler
is the sequence `todo` of accesses it makes: reading a timestamp register is two loads
(`update_timestamp_regs()` and the reply's), writing the seconds stores both offsets and
loads, writing the microseconds stores them twice (`write_timestamp_microsecond()` repeats
what `set_harp_time_us_64()` has done).  Whether a synchronizer was attached (`sync_`) is
decided at start-up and never again.  `by_packet` records that a packet was the last to
write the synchronizer's offset and that no store was under way then; `ahead`, by how much the
external clock was ahead of the timer in that packet; `cut`, that a packet came in between the
two halves of the load under way.

### Registers
The registers of core and application as a function from addresses to contents, and the
handlers of `reg_func_table_` as actions.  A payload is a sequence of parts, one for each
register it would fill, and has none if it is too short; then the copy takes in what is left
over in the receive buffer (`Leftover`).  For writes to the timestamp, control and reset
registers the PC is taken to send at least the register's size.  `SendReply` is a step of
its own, because the Harp time moves between a handler and its reply and between two
replies of a dump; the dump (`DumpCore`, `DumpApp`) is a loop over an 8-bit `address`.  The
application is one with the generic handlers and the read-only error, like the
repository's example; its update function stores in its read-only registers.  `AddressCount` is
where the 8-bit addresses end, 256: a dump ends if the last register is not at the last
address.  `at =
"stopped"` is a device that has gone to the boot loader, or on which there is no telling
what follows (a call past the end of the function table, a register read outside the
application's table).  The visual-indicator callback is left out.

### Transmit
`send_harp_reply()` byte by byte.  A step pushes a byte of the header or of the timestamp; a
byte of the payload takes two, `SumPayloadByte` and `PushPayloadByte`, because the code reads
the register, which is volatile, once for the checksum and once for the packet, and
`AppInterrupt` may write it in between.  `PushChecksum` ends with the flush, `EndReply` with
`tud_task()`.  TinyUSB is a FIFO of `FifoSize` bytes, which drops what it has no room for,
and an endpoint that is free, armed with a packet of up to `PacketSize` bytes, or taken;
`tud_task()` sees the last and hands over the next packet.  The PC takes packets at its own
pace (`PcPolls`) and cuts the stream into messages by their `raw_length`
(`PcTakesMessage`).  Which replies are sent is Registers' matter: here any reply may follow
any other.  What a reply should look like, `Expected`, is defined apart from the code, from
the register as it was when the reply began.

`patience` is what the PC promises.  With 0 it causes the next reply only when it has read
everything, as a PC does that sends one request at a time.  With p > 0 it lets fewer than p
replies end between two packets it takes.  `KeepsUp` adds that the replies are short
enough: in the first case they fit in the FIFO, in the second p of them fit in a packet.

In the device a packet has 64 bytes and the FIFO 256.  The longest reply of the core is that
of `R_DEVICE_NAME`, 37 bytes, so a PC that takes a packet per reply loses nothing of a dump.
A core's dump is 18 replies, 286 bytes in all, after a WRITE reply of 13, which leaves as
the first packet: a PC that takes nothing else until the end has lost bytes to a FIFO of 256
(`TransmitDump`, section 5).  The comment at core:269 doubts that a reply of more than 64
bytes can be sent; `NoneCut` and `RepliesWhole` hold for one to a PC that waits for it, up
to the size of the FIFO.

---

## 3. Runs

| Run | Shows | Bounds |
|---|---|---|
| `OpModeMoved` | `HTypeOK`, `ActiveInterval`, `SelfOnOnce`, `HeartbeatAhead`, `NoSpuriousDrop`, `DropsInTime` on every path through the modes, with resets and restarts, through wraps, with packets that move the clock forward and back between any two steps | word 8, second 1, lag 1; writes of ACTIVE and SPEED, packets that set the time to 5 |
| `OpModeLive` | `DropsEventually`, `HeartbeatsKeepComing` after the clock has jumped for a while | word 8, second 1 |
| `CdcLockStep` | `DeliversMessages`, `HandlesAll`: the refinement of MessageChannel, safety and liveness, for a PC that sends on as soon as it has the reply | 3 messages of 3 lengths, every division into USB packets |
| `CdcPipelined` | `TypeOK`, `ReadsFit`, `NeverLocksUp`, `CompletesExactly` when the PC sends ahead and closes the port in the middle of messages | 3 messages in flight, the port closed twice |
| `SyncTimely` | `TypeOK`, `FollowsClock`: the refinement of SyncClock, and `AppliesOn`, with timestamps that contain the header and packets that begin before the last one is applied | 5 second counts, the last one among them, no byte lost |
| `SyncRecovery` | `RecoversInTime`, `Recovers`, `KeepsSyncing` from the middle of a packet and after losses | 2 bytes lost; 4 second counts, two of them with header bytes |
| `ClockWrites` | `TypeOK`, `WriteShows`, `WholeAfterPacket`, `Heals`, `FollowsPackets` with and without a synchronizer, the PC writing both registers | timer to 6, handlers of at most 2 ticks, leads of 52 and 53 |
| `RegistersAll` | `TypeOK`, `ReadOnlyKept`, `TimestampAgrees`, `DumpInOrder`, `HandlersEnd`, `AlwaysCleared`, `MutedIsQuiet` | 2 application registers and one address beyond, every kind of request |
| `TransmitReplies` | `TypeOK`, `NoneCut`, `RepliesWhole`, `NothingLeftBehind`, `RepliesArrive`, `LossesAreTails` | 3 replies of 3 sizes in a row, 3 kinds of PC, one write under way |

Runs that are expected to find a violation are in section 5.

**Why the bounds are enough.**

* *Widths.*  The code's constants meet in a few relations: three seconds fit in half of a
  word, a second does not divide a word, a 64-bit time is several words.  The scaled values
  keep those that a run depends on.  The configurations of section 5 about time have words of
  20 ticks with seconds of 3: several wraps of the word, and of the 64-bit time, lie within
  the state space because it closes on itself (times are taken modulo `Long`).  `OpModeMoved`
  and `OpModeLive`, where the clock is set as well, only need that times wrap and that three
  seconds fit in half a word: a word is 8 and a second 1.  In `OpModeMoved` the clock is set by
  packets, in `OpModeLive` by the PC's writes too; the theorems make no assumption about who
  moves it.  `OpModeSteady.cfg`, to be run by hand, checks the same properties with a longer
  second (2 of a word of 14, two words to the 64-bit time) and a clock nobody sets.
  `OpModeMoved` has a `VIEW`, `LiveState` of `MCOpMode`: states that differ only in a value that
  is overwritten before any step or property of the run reads it (the start of a disconnection
  that is over, `alone` outside ACTIVE) count as one.
* *Lag.*  `MaxLag` bounds how far the loop falls behind.  One tick of lag is a third of a
  second or more, far longer than a turn takes.
* *Receiver.*  With 8 byte values, a 7-byte buffer and a 3-byte header there are messages of
  the shortest and the longest length, one that fills the buffer, and raw lengths that make
  `msg_size()` wrap (6 and 7).  Three messages suffice for an over-long read to take the
  second for part of the first and to mistake the tail for a header.
* *Decoder.*  4 byte values, two of them the header's, give timestamps with every
  combination of header bytes; the word is then 256, and 255 is the count whose increment
  wraps.  In `SyncRecovery` two of the four counts are not clean.
* *Clock.*  The word is 26, the 64-bit word four of them.  The clock jitters between leads of
  52 and 53: the offsets, -52 and -53, lie on either side of a word's boundary and differ in
  both words, from each other, from 0 and from those of the PC's write, so that any mixture is
  seen.  Loads and stores torn by a packet do happen in the run (`LoadsWhole` and
  `StoresWhole`, section 5, fail on it).
* *Registers.*  Two application registers are one that can be written and one that cannot.
  The requests are to registers of every kind of handler and to addresses on either side of
  the banks' ends: 16 and 18, 31 and 32, 33 and 34.  Addresses end at 34, so that the bank is
  the largest whose dump ends, as one of 223 registers is with 256 addresses: one that ends an
  address early or late would show.  `RegistersFullBank` has one register more, all 224.
* *Transmission.*  The FIFO has 13 bytes and the packet 12, replies have 6, 12 and 13: half a
  packet, a packet, and more than a packet that just fits in the FIFO.  The PC waits, or takes
  a packet after each reply or after two; three replies in a row are more than packet and
  FIFO hold.  Bytes have 16 values, so that checksums wrap.

`CHECK_DEADLOCK FALSE` is set where the system really may stop: a PC that has sent its
`MaxSent` messages (`Cdc*`), a device that has sent its `MaxReplies` (`Transmit*`), and a
device that has gone to the boot loader or called past its table (`RegistersAll`,
`RegistersPastTable`, and the configuration `RegistersFullBank`).

---

## 4. Fairness

* **OpMode**: weak fairness of the loop and of the timer.  `run()` never blocks - it polls -
  and the timer is hardware.  Nothing is asked of the PC or of the synchronizer.  The
  liveness properties are conditional on a clock that from some time on is not set any more
  (`ClockSettles`): it may be set arbitrarily often before.
* **CdcInput**: weak fairness of `process_cdc_input`, of the handling, and of USB delivering
  what the PC has written.  The first two are calls of the loop; USB retransmits.
* **HarpSynchronizer**: the external clock goes on sending, an enabled interrupt is served.
* **HarpClock** (for `Heals`): the handler goes on, and packets keep coming if there is a
  synchronizer.
* **Registers**: weak fairness of the handlers.  Nothing in them waits.
* **Transmit** (for `RepliesArrive`): weak fairness of the device, which never waits for the
  PC - it drops instead - and of a PC that polls as long as it holds the port open.

---

## 5. Disagreements with the documentation

Each of these configurations checks a statement of a comment, and TLC refutes it.  The first
three are runs of `PROJECT.json`, whose findings quote the comments; the others are kept
beside them, to be run by hand (`tlc -config <name>.cfg MC<module>.tla`).

| Configuration | Statement | What happens |
|---|---|---|
| `OpModePcOverride` | after connecting, the PC may override the mode at any point (core:178) | close and reopen the port while ACTIVE: no edge sets `connect_handled_`, and the STANDBY the PC writes next is undone by `update_state()` |
| `ClockKeepsMicros` | the microseconds are not altered (core:384) | they are replaced by those of the local timer |
| `RegistersPastTable` | out-of-range messages are ignored (core:153) | `>` where `>=` is meant: address 18 is dispatched |
| `CdcOverRead` | only read up to the full payload (core:112) | the read that brings the header takes the next message's first bytes, which are then discarded |
| `OpModeDropJump` | ACTIVE is left when the PC has been inactive "for this duration", three seconds (core.h:18) | a packet that moves the Harp time makes a short absence look long |
| `OpModeWholeSecond` | the heartbeat is put on a whole second (core:192) | past the first 2^32 us the truncated time has another remainder |
| `OpModeSyncRace` | ... based on synchronized time (core:192) | a packet between lines 172 and 174: handled, once and for all, with the time from before it |
| `ClockTornLoad` | t_Harp = t_local - t_offset (core.h:258) | the offset is loaded in two words and a packet comes in between |
| `ClockTornStore` | override the current Harp time with a specific time (sync.h:68) | the same for the store: half of one time, half of another, until the next packet |
| `ClockKeepsSeconds` | the microseconds are replaced (core:412) | the seconds are added as microseconds, and so lost |
| `RegistersMuted` | reads are answered unless muted (core.h:130) | `read_reg_generic()` does not ask |
| `RegistersLongWrite` | long payloads go on into the next register (core.h:122) | the copy takes the register's size |
| `RegistersReset` | `reset_fn` resets the application (harp_c_app.h:28) | the constructor stores `update_fn` in its place |
| `TransmitDump` | tud_task() handles the case of several replies in a row (core:324) | it hands over one packet if the PC has taken the last; to a slower PC the FIFO fills up and bytes are dropped |
| `RegistersFullBank` | one reply per application register (harp_c_app.h:87) | with 224 registers the 8-bit loop variable wraps to 0 and the dump goes on past the core's registers |

`RegistersFullBank` needs an application that uses the whole address range, `RegistersReset`
is met by any application; `OpModeWholeSecond` needs the device to be synchronized more than
71 minutes after the epoch, which every real clock is.

---

## 6. Proofs

Constants are arbitrary under the named assumptions of the modules: `TimeAssumption` (three
seconds fit in half of a word), `OpModeAssumption`, `CdcAssumption` and
`MessagesAssumption` (a PC means to send well-formed messages), `SyncAssumption` (a timestamp
is four bytes, the two header bytes differ, the offset is at most a second and all seconds fit
in 64 bits),
`ClockAssumption` (a second is a whole number of units; all seconds fit in 64 bits),
`RegistersAssumption` and `TransmitAssumption`.  Those of the real sizes satisfy them.  Where
a theorem needs more, its statement says so, and the table below.

| Theorem | Statement | Argument |
|---|---|---|
| `OpModeProofs!TypeCorrect`, `HTypeCorrect` | types, history included | inductive as they stand, with the ranges of modular arithmetic from HarpTimeProofs |
| `OpModeProofs!ActiveIntervalCorrect` | `ActiveInterval` | inductive with the type invariant: every edge into ACTIVE sets the interval, no step but an edge out of it changes it |
| `OpModeProofs!SelfOnOnceCorrect` | `SelfOnOnce` | the flag must remember what the history does: after ACTIVE was entered by itself, `connect_handled_` stays set as long as `update_state()` sees the PC (`FlagRemembers`) |
| `OpModeTimingProofs!NoSpuriousDropCorrect` | `NoSpuriousDrop` | `DatesAreRecent`: unless the clock was moved since, the recorded start is as long ago, modulo a word, as the history says; a difference of 32-bit times is then never more than what has passed |
| `OpModeTimingProofs!DropsInTimeCorrect` | `DropsInTime`, if three seconds and the lag fit in a word | `AloneDated`: while the device is left in ACTIVE without the PC, `disconnect_handled_` is set and the recorded start is, modulo a word, at most a lag younger than the history says; a call that leaves the device in ACTIVE has found less than three seconds, so that at the next one less than three seconds and a lag have passed, which is less than a word and is seen as it is |
| `OpModeTimingProofs!HeartbeatAheadCorrect` | `HeartbeatAhead`, if the lag is at most a second | `HeartbeatNear`: as long as the clock only ticks, the next heartbeat is, before every call, at most a lag behind and an interval ahead; adding one interval then suffices |
| `CdcInputProofs!TypeCorrect`, `ReadsFitCorrect` | the index is a byte, every read fits | inductive: an incomplete message whose header is in has a size above the index, and no size exceeds the buffer |
| `CdcInputProofs!CompletesExactlyCorrect` | `CompletesExactly` | with the above: a read that brings the index to the size of the message can only have been given the rest of it |
| `CdcInputProofs!LockStepDelivers` | with one message unanswered and the port held open, `DeliversMessages` | the invariant is that the message under way is the concatenation of what is in the buffer, in the FIFO and on the wire, and that behind an answered one there is nothing or all of the next (`LockStep`); each step maps to a step of the channel or to a stutter |
| `HarpSynchronizerProofs!TypeCorrect` | types | inductive |
| `HarpSynchronizerProofs!TimelyFollowsClock` | with no byte lost and joined between packets, `FollowsClock` | `Aligned`: the decoder's state is the one its position in the packet calls for, or in the packet before, if its last byte is still to be taken, and `sync_data_` holds the bytes so far; `Pending`: what is due is about to be applied; four bytes put together are the count they came from (`DecodesPacket`), and the 32-bit sum is the announced second (`TimeAnnounced`) |
| `HarpSynchronizerProofs!RecoversInTimeCorrect` | `RecoversInTime` | `RecoverInv`: in a clean packet, a decoder that is not in its place (`Joining`) is `Astray` in a way that the packet cannot prolong: what it takes for a timestamp ends within the packet's, after which no byte is taken for a header's first; the next packet finds it looking for a header, with at most one byte to pass over (`LeftOver`), and `Aligned` holds from there on, `Pending` from the end of that packet on, preserved by every step that loses no byte |
| `HarpClockProofs!RoundTrip` | `harp_to_system` undoes `system_to_harp` for every offset | modular arithmetic |
| `HarpClockProofs!TypeCorrect` | types | with `Moving`: a half-done access is the one at the head of `todo` |
| `HarpClockProofs!WriteShowsCorrect` | `WriteShows` | `Showing`: while undisturbed, an offset that is to be loaded is one stored at most `delay` ticks ago, or there is a store ahead of the load; and the words moved and not moved are those of one such offset |
| `HarpClockProofs!FollowsPacketsCorrect` | `FollowsPackets`, for every set of leads | `FollowInv`: while a packet was the last to set the offset, its words are those of the packet's offset, and if no packet cut the load in two, the half already loaded is the one that is there |
| `HarpClockProofs!WholeAfterPacketCorrect` | `WholeAfterPacket` | from `FollowInv` |
| `RegistersProofs!TypeCorrect` | types | with `HasMessage`: a handler under way has its message |
| `RegistersProofs!ReadOnlyKeptCorrect`, `TimestampAgreesCorrect` | the two invariants | inductive with the above: no handler of another register has a read-only one in its image, and the stamp precedes the payload |
| `RegistersProofs!MutedIsQuietCorrect` | `MutedIsQuiet` | `QuietInv`: while the device is muted, whatever is still to be sent answers the message in the buffer; muting itself happens with nothing left to send |
| `RegistersProofs!DumpInOrderCorrect` | if the registers leave an address free (at most 223 of the application's), `DumpInOrder` | `DumpInv`: between dumps the loop variable is 0; in one, the reply to be sent is of the register after the last one shown.  With no address left the 8-bit variable wraps before it reaches the bound |
| `RegistersProofs!HandlersEndCorrect` | if the registers leave an address free, `HandlersEnd` | `StepsLeft`, the most steps that are left from each place in the handlers and each register of a dump, goes down with every one; that the dump's variable is within its bank is `DumpInv` |
| `TransmitProofs!TypeCorrect` | types | `Shape`: a free endpoint has less than a packet behind it; a byte that was dropped leaves the FIFO full and the endpoint busy until `tud_task()` |
| `TransmitProofs!NoneCutCorrect` | `NoneCut` | `Room`: each reply that has ended since the PC last took a packet has left no more than its share of a packet in the FIFO, `patience * Len(fifo) <= unpolled * PacketSize + patience * bytes pushed`; so the next byte of a reply that fits finds less than a packet in front of it |
| `TransmitProofs!RepliesWholeCorrect` | `RepliesWhole` | `StreamInv`: what the PC has made messages of, what it has received, the packet and the FIFO are, laid end to end, the replies begun so far (`Laid`), the last up to the byte that is being sent (`Sending`), and `checksum` is the sum of that many bytes of its `Expected` form unless the data changed; a length that fits in a `raw_length` tells the PC where to cut (`GotWhole`) |
| `TransmitProofs!NothingLeftBehindCorrect` | `NothingLeftBehind` | `Drained`: between replies, an endpoint that is free has nothing behind it; and a stream without a complete message, if all that was sent is in it, is empty |
| `TransmitProofs!LossesAreTailsCorrect` | `LossesAreTails` | from `Shape`: a push after a loss changes nothing, `tud_task()` and the PC only take away |

HarpTimeProofs holds the lemmas on `%` and `\div` that the modules on time use.

That the sums of two sequences agree as far as the sequences do needs an induction over the
numbers, whose theorem takes a predicate as its parameter and cannot be used by the installed
provers.  The proof goes by a least counterexample instead, which the library's `WFMin` and
`NatLessThanWellFounded` give for a set.

What a device that loses bytes, or a clock that is moved, does to a property is part of the
property and not a hypothesis of its theorem: `RecoversInTime`, `NoSpuriousDrop`,
`DropsInTime` and `HeartbeatAhead` hold of all behaviours.  The hypotheses that are left are
bounds on numbers (the lag, the number of registers) and, for the two refinements, what the
other side promises.

---

## 7. What is only model-checked

Every invariant and every action property of the passing runs is a theorem.  What is left is
liveness, which TLAPS does not prove under fairness.  For each of these properties TLC
checks it on the instance of its run, and the part of it that is safety - what makes it come
true once the scheduler does its share - is proved for all instances:

| Liveness, by TLC | Safety it rests on, proved |
|---|---|
| `DropsEventually` | `DropsInTime` |
| `HeartbeatsKeepComing` | `HeartbeatAhead` |
| `HandlesAll` | `DeliversMessages` |
| `NeverLocksUp` | `ReadsFit`: there is always at least one byte to ask for |
| `AppliesOn`, `Recovers`, `KeepsSyncing` | `FollowsClock`, `RecoversInTime` |
| `Heals` | `WholeAfterPacket` |
| `AlwaysCleared` | `HandlersEnd` |
| `RepliesArrive` | `NothingLeftBehind` |

---

## 8. What is not modelled

* **USB descriptors, `tusb_config.h`, `stdio_usb.h`**: constant tables and configuration.
* **`arm_regs.h`, `reg_types.h`**: a macro and an enumeration.
* **The example application and the test scripts**: users of the library.  They were read
  for what states and messages are real.
* **Checksums of messages**: the core computes them for replies (module Transmit) and does
  not check those it receives.
* **What only an application calls**: `set_uuid()` and `set_visual_indicators_fn()` at
  set-up, `harp_time_s()`, a `force_state()` of its own.
* **Contents of strings and identifiers**, LED behaviour, `DEBUG` output.
* **A second handler of the same interrupt, or the second processor core**: the library uses
  neither.

---

## 9. Plan

The order followed the importance of the behaviour: modes and time first, then the input
that drives them, the clock, the registers and the replies' way out.  What is left:

1. **HarpDevice**: OpMode, CdcInput, HarpClock and Transmit composed, so that one
   `tud_task()` is shared by input and output and a write of a timestamp is the sequence of
   accesses it is.  The state spaces multiply, and most of what they would show together the
   modules show already with the others as their environment.
2. **Refinements**: HarpClock implements the clock OpMode sees (a value that ticks and is
   set), up to torn loads; Registers' `UpdateState` is OpMode's.
