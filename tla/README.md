# TLA+ models of soundtesterd

This directory holds formal models of the sound tester's daemon, `soundtesterd`
(`src/app/src`), of the boot scripts that keep its data (`src/yocto`), what TLC checks
of them on small instances, and what the TLA+ proof system proves of them for every
instance. `PROJECT.json` maps every definition that models code to the lines it stands
for.

## The system

`soundtesterd` is a C++17 daemon on a small board. One real-time **audio thread**
renders generators to a card, captures from it, and writes everything, block by block,
to one **ring**. Around it run a thread per network sender, per sink, per device input,
a Bluetooth thread, an analysis thread, and the HTTP workers of the web console. They
share little: lock-free rings, atomics (`Control`), and a few mutexes. What they do with
these is what this project is about.

| component | source | state it keeps | operations | talks to |
|---|---|---|---|---|
| Ring buffer | `ring_buffer.h` | frames, a frame counter | `write`, `write_at`; `read_channel`, `read_interleaved` | written by the audio thread (and a sink's ring by the engine), read by captures, streams, sinks, analysis |
| Network channels | `net_audio.cpp` 176-500, 1190-1240 | per channel a claim flag and a record of its last user; the list of displaced streams | `claim_channels`, `release_channels`, `forget_channel` | a session thread per socket, the Bluetooth input, the web API |
| Network audio path | `net_audio.cpp` `NetTimeline`, `Feed`, `Session` | a timeline per channel, the reader's position | `write`, `read_block`, `push`, `reset` | session threads write, the audio thread reads |
| Mixer runs | `net_audio.cpp` 1061-1188 | volumes and mutes per channel | `serve_ctl`, `set_mixer` | senders' mixers, the web API |
| Configuration store | `config.cpp` | `config.json`, the copy of the pairings | `save`, `reset`, `save_dir`, `load` | web API, `BtManager`, boot scripts |
| Saved settings | `webserver.cpp`, `config.cpp` | `d_.config`, `Control`, Bluetooth settings | PUTs, save, reset, start | HTTP workers, `BtManager` |
| Sinks | `sink_out.cpp`, `devices.cpp` | the switch, the thread, what it opened | `start`, `stop`, `bind`, `set_sample_rate`, `restart`; streaming with drift correction | PUTs, device scan, speaker buttons |
| Devices | `devices.cpp`, `alsa_devices.cpp` | slots, columns, saved sinks | `scan`, `start`, `stop`, `retarget` | sinks, device inputs |
| Engine | `engine_core.cpp`, `control.h` | generators, delay lines, generation, `TimeAnchor`, `PingLog` | `process_block`, `set_sink_ring` | audio thread, everyone who reads time |
| Audio thread | `audio_engine.cpp`, `audio_backend.cpp` | card, error, xruns | `start`, `stop`, `run_card`, `recover` | engine |
| Inputs | `device_input.cpp`, `bt_input.cpp` | a thread, a PCM | `start`, `stop`, `stream` | network channels, engine |
| Bluetooth | `bluetooth.cpp`, `bt_player.cpp` | the bus, devices, one pairing request, timers | `post`, `refresh`, `device_action`, `answer`, agent calls | BlueZ, web API, store |
| Capture | `capture.cpp` | a snapshot and its status | `freeze`, `resume`, `set_analyze_frames`, reads | ring, web API |
| Listening, WebSockets | `listen_stream.cpp`, `ws_hub.cpp` | stream slots, bounded queues | `pace`, `publish`, `wait`, `shutdown` | web API |
| Web API | `webserver.cpp` | none of its own but its locks | routes | everything |
| ALSA plugin | `src/alsa-plugin` | the sender's pointer and socket | open, transfer, poll, reconnect | network server |

What makes it hard: threads that never take a lock next to ones that do; two handlers of
one resource at once; descriptors that are reused; power that goes at any moment on a
device meant to be unplugged; a card, a bus and senders that come and go. `PROJECT.json`
lists these hazards line by line.

What each component has to get right: a ring's reader never believes a frame that was
replaced while it copied; a network channel has one owner, and a sender is only cut off
by its own stream; the configuration survives any power cut; settings that were accepted
are there after a save; a sink's thread runs exactly when its switch is on; a frame a
sender aimed at a sample is played at that sample or reported late; a frozen capture is
one continuous piece; a pairing request is answered once; and every thread ends when it
is told to.

## Modules

| module | models | checked by |
|---|---|---|
| `RingBuffer` | the ring, one writer, any number of readers | `MCRingBuffer`, proofs in `Sink_proofs` |
| `ChannelRuns` | what network channels promise: whole runs, one owner each | refined by `NetChannels` |
| `NetChannels` | the threads that claim, take over, release and forget channels | `MCNetChannels`, proofs in `Inputs_proofs` |
| `NetStream` | a sender's audio from the session to the card and the ring | `MCNetStream`, proofs in `NetStream_proofs` |
| `MixerLink` | a sender's mixer and the thread that serves it | `MCMixerLink`, proofs in `Plugin_proofs` |
| `PcmLink` | the ALSA plugin: its clock, its two threads, what a link is told | `MCPcmLink`, proofs in `Plugin_proofs` |
| `RingFeed` | what the engine promises those who read the capture ring | refined by `Engine` |
| `Engine` | the audio thread, the card, the delay line, pings, sinks' rings | `MCEngine`, proofs in `Engine_proofs` |
| `Capture` | freeze, resize, release, windows and correlations over the ring | `MCCapture`, proofs in `Capture_proofs` |
| `BtInput` | the Bluetooth input's thread, and the alignment delay | `MCInputs`, proofs in `Inputs_proofs` |
| `DeviceInput` | another capture device's thread, beside `BtInput` | `MCInputs`, proofs in `Inputs_proofs` |
| `BtManager` | the Bluetooth thread beside BlueZ, handlers and operator | `MCBtManager`, proofs in `BtManager_proofs` |
| `DataPartition` | the data partition, call by call, with failing calls and power cuts | `MCDataPartition`, proofs in `Saved_proofs` |
| `SinkSwitch` | a sink's life: PUTs, scan, buttons, its thread | `MCSinkSwitch`, proofs in `Sink_proofs` |
| `SavedConfig` | the settings and the saved file across handlers and restarts | `MCSavedConfig`, proofs in `Saved_proofs` |

Each module stands alone, with its neighbours reduced to what it relies on of them:
`NetStream` takes its run as `NetChannels` grants it, `Capture` a ring that is fed as
`RingFeed` says and read as `RingBuffer` does, `BtManager` the copies of
`DataPartition`. `DeviceInput` EXTENDS `BtInput`, as the two share the delay.

### RingBuffer

`n` is the frame counter the code publishes (`n_`), `buf` the slots, `first` the first
frame ever written. The block being copied runs from `base` to `head`, and `left` is
what of it is not in its slot yet. A write is `WriteBegin`, a `WriteFrame` per frame in
any order, as `memcpy` may, and `WriteEnd`, which moves the counter: a reader can look
between any two. A read (`rd`) is `ReadBegin` (the look before), a `ReadFrame` per
frame, and `ReadEnd` (the look after). A sample is the number of its frame, so what a
reader copied says which frame it was. The first `write_at` may begin beyond the
counter; the gap is the zeros the ring was made with. `read_interleaved` differs in
layout only. Memory is sequentially consistent: the order in which another core would
see the stores is not modelled.

### NetChannels and ChannelRuns

A slot of `Senders` is a socket and the session thread behind it; it is used again for
another connection once closed, as a descriptor is. `claimed` and `memory` are
`Channel::claimed` and the record under `Channel::m`. An action is one atomic access
(`Win` is one `compare_exchange`) or what is done under one lock (`Scan` is one turn of
the loop that shuts stale sockets down). The wait for the cut sessions is `Wait`, with
`Tries` looks; `Home`, `Spare` and `TrySpare` are the places a stream without a pin is
put. `forget_channel()` takes the same flag, wipes, and clears it. A sender without a
socket stands for the Bluetooth input.

`ChannelRuns` is the promise: a request is granted a whole run that nobody owns, at its
pin if it has one, or refused; channels go back one by one. In the refinement a sender
owns its channels from the last flag it wins, although the flags are won one at a time,
and until it clears each.

### NetStream

The unit is a block; a frame is known by the position it was aimed at and by its stream.
`buf` is the `NetTimeline` of each channel, `n` and `delay` the audio thread's position
and the delay in force there. `Feed::push()` is the look at the reader (`Audio`) and a
`Distribute` per channel (`Verdict` says what its timeline makes of it). The audio
thread's block (`read_block()`, live at `n` and into the ring at `n - delay`, clearing
as it goes) may fall between any of them, up to `Stall` times in one write. That these
are fewer than the guard is long (`StreamAssumption`) is not enforced by the code: it is
what two blocks of 1024 frames (`kNetGuardPeriod`) leave a thread of normal priority,
and a session held up for longer may have its frames skipped, or played a turn later. A
session has its HELLO, FORMAT, the packets a decoder holds back or refuses, jumps of the
sender's position, drift that makes the feed start over (`Resync`), and its release.
`live` and `ring` keep what was played, `due` what was accepted, `skipped` what a
shrinking delay jumped over.

### MixerLink

`record` and `holder` are the channels' records and streams, `level` and `bypass` the
inputs of `Control`; `mixer` is `ctl_soundtester.c`, `srv` the server's thread with the
run it resolved and what it last sent, `down` and `up` the two directions of the
connection. The server's steps are its `Look`, the `Ack`, what it remembers of it, and
per turn a `TakeSetMix` or a `Wait`, `Resolve` (`mixer_run()`) and `Compare`. Two ghosts
name, field by field, what the mixer is not told: `undone`, what a message asked that
was not so any more at the look that followed it, and `unseen`, what changed between the
ack and the first reads of what was sent, for good (below). A connection ends with BYE
only; one that breaks, and a send that blocks, are not modelled. The locks that
`mixer_run()` takes channel by channel are one step, and an unknown machine is given
channel 0.

### PcmLink

`want`, `handoff`, `wake` and `quit` are the two atomics, the eventfd and the flag the
threads share; `con` is the connector, `path` the audio path inside the program's calls,
`link` what it holds of the link, `clock` and `pcm` the pointer and alsa-lib's state,
`device` what each link's far end has been told. Every store of the hand-over is a step.
Time is in ticks and the remainder of a frame in `1/Den`, so the pointer is exact.
`Tick` falls between calls: a call looks at the clock once, and what passes in it has
passed when it ends. Frames sent while the link is down are not counted, as the count
starts over with the next link. A wake left in the eventfd may end one attempt to
connect. The handshake's two seconds, which may delay a close, are a step like any
other.

### Engine and RingFeed

`pc` goes through `run_card()`: the openings call by call, each of which can fail
(`GiveUp`), then a block's `Read`, `Sync` (the delay line follows the delay asked for),
`WriteRing`, `Render`, `Write`; xruns and the card's end come in between. A frame is
known by the instant it was captured at; `ring` has, for each index, the instant, the
delay, the generation, and where the other columns' frames were placed. The timer
backend is a card that never fails. Gains, routing, slots and wave forms are left out.
`RingFeed` is what a reader relies on: within a generation the frames are the card's,
one after the other, under one delay.

### Capture

`head` and `storing` are the audio thread, `snap`, `analyze`, `pending` and `status` the
store's fields, `lock` and `fft` its two locks. A caller's `job` goes through freeze
(aim, copy frame by frame, check, end), resume, config, windows (frozen or live),
correlations (take under one lock, compute under the other) and the genie. A load from a
slot that is being written finds either frame. `late` marks a copy that was checked
while a block was being stored over its start: that is the ring's own weakness (below),
and what such a copy holds is not claimed.

### BtInput and DeviceInput

`net` has the two switches, `delay_ms` and the delay they imply; a clerk is a web server
thread in one of the requests that move them, call by call under `delay_m_` (`delay_ms`
is stored before the lock is taken, and a body whose `enabled` is no Boolean is refused
after that). The ghost `from` is the `delay_ms` the delay was last derived from.
`thread` is the recording thread: `Look` at the latest phone, `Open`, `Claim`, `Ready`,
the loop, `Close`, `Release`, `Leaves`. The world is phones, a bus, a sender that holds
the channels, and calls that fail. `DeviceInput` is the thread of `device_input.cpp`:
`device` the driver, `reader` the thread and its anchor, `behind` the frames of time
since its last frame, the audio thread's end being the delay. Positions are relative to
the last frame read, so time is unbounded. The position of the device and the clock are
read together. The trim against drift, and the start over when it fails, are left out. A
device that overruns between a read and the look at its queue is misplaced for that one
read. A stuck device is assumed not to resume by itself without being reopened.

### BtManager

`bz` is BlueZ, the adapter and one device; `inbox` its signals and agent calls not yet
processed, `commands` what the web handlers posted, `calls` the methods out, the rest
the manager's fields. An action is one posted command, one message, one tick or one read
of the objects. The daemon starts beside a device that is paired, trusted and copied or
not. BlueZ may refuse each call, restart, pair on its own, give up a question; the bus
may go. Ghosts name what the code does not notice, and the properties except exactly
that: `untold` (keys the manager is not told of and does not copy: a new one for an
address already paired, and what an earlier run left uncopied), `distrust` (why a paired
device is not trusted: paired before the start, refused, or forgotten and paired again
between two reads), `gaveUp` (a question put away with a Pair that failed while BlueZ
went on: let go for its time, or refused since the device was pairing already),
`orphaned` (busy, with a call lost with the bus), `stale` (settings taken as done from
an old read) and `unstopped` (a scan whose end came while the last read had failed).
Names, volumes, audio links, texts and the media player are left out.

### DataPartition

`disk` is the directory as programs see it, `medium` the set of directories a power cut
may leave. Every call of `save()`, `reset()` and `save_dir()` that can fail has a
failing outcome. `PowerCut` is the boot after it too: `ConfigStore::load()` and the
script that restores the pairings, on the partition or on a tmpfs when it did not mount.
The journal keeps the order of directory changes, and data that was not synced may be
half there (the external `Left`). `ResetNothing` is the reset that finds no file, which
is answered ok wherever `/data` is. `told` is what the last save or reset has promised,
`acked` what a boot may bring back instead where that is not written out.

### SinkSwitch

`kind` says which sink it is: an HDMI sink, one that did not open at its first probe and
is bound by a later scan, or the Bluetooth sink. Workers hold `put` (`sink_put_m_`) for
a whole request; every call of `SinkOutput` holds `life` (`life_m_`), also while it
joins. The sink's own thread opens in two steps, since it reads its rate and its layout
separately. The speaker's buttons use no lock of the web server.

### SavedConfig

Five settings stand for the kinds there are: `gain` for all in `Control` that belongs to
one input, the count of inputs, the Bluetooth output's device and two Bluetooth
settings. A file also has the columns it is about, and `Remapped` is what
`remap_columns()` does to it: the settings of an input that only one of the layouts has
are the default ones. A handler's steps are its reads, its write of the file and its
stores, and handlers overlap; only `PUT /api/net` has a lock (`delay`). `Restart` can
fall anywhere, and the next start may run with fewer inputs than the file has (the
option `--net-inputs`, which the image does not give, is left out). Two ghosts name what
overlapping handlers lose, and the properties except exactly that: `behind`, what has
changed where a handler read it, since it read it, and `undone`, what such a handler put
back, and where.

## What is checked

Every run passes. Each checks one conjunction of the module's types and its lesser
invariants (named `...Inv`, its conjuncts commented one by one), and, on their own, the
properties that matter most.

| run | instance | shows |
|---|---|---|
| `MCRingBuffer` | ring of eight frames with a margin of four, blocks of one and two, one reader, twenty frames written, the first at 0 or 3 | a read accepted is exact but for the block in flight, and exact with a block of margin; the frames that may be asked for are there |
| `MCNetChannels` | two sockets, two channels, three connections: an output, the same opened again with a pin, the machine's other one, the Bluetooth input; one channel forgotten; fairness | one owner per claim; records match holders; only one's own stream cuts one off; implements `ChannelRuns`; every HELLO is answered; a cut session gives all its channels back |
| `MCNetStream` | a stereo run, timelines of six blocks, a guard of two, a lead of at most three, delays 0 and 2 with one change, two streams, nine blocks | what was accepted is played at its position; left and right stay together; nothing but frames a shrinking delay skipped is heard elsewhere; the ring is the live side delayed; nothing of the last stream is left |
| `MCMixerLink` | two channels, two streams of a machine, two levels, a mixer that asks for a name or a channel, one move of it, three events, fairness | the two sides come to rest on the same values, but for what was undone unseen or changed between the ack and the first reads; one volume covers a run; a run that is no longer the mixer's is left alone after one look |
| `MCPcmLink` | three frames in two ticks, a buffer of three, packets of two, two links, two streams, PCM and Vorbis, three ticks | a lost link is asked for again, exactly when there is none; one socket at a time; naps end; the pointer is the clock; what a link is told is whole; a full buffer has no xrun |
| `MCEngine` | periods of two and three, delays 0, 2 and 3, a line of eight, one xrun, two openings, two changes, a ping | one index of the ring is one instant on every column; pings and sinks' rings are on that axis; implements `RingFeed`; every PCM is let go |
| `MCCapture` | a ring of four frames, lengths one to three, two callers with three calls, a genie with one ping, a head of six, symmetry in the callers | what is frozen and what is answered are the frames they are said to be; no change of the length ends a measurement, and it is made afterwards |
| `MCInputs` | two phones, two clerks, two delays; four mixes of requests, phones, faults and device events; a device with a buffer of two; fairness | there is room in front of playout while a thread places audio; the delay is what the switches and the `delay_ms` it was derived from imply; failures let go; a device's frames go where the axis has their instant, and late ones are the thread's own; the latest phone is followed, requests end, a device comes back |
| `MCBtManager` | one adapter, one device, paired before the start or not, three events, two questions | an answer goes to the question that was shown; the adapter ends up as set; a key that was read is copied or a timer will; questions are not lost, busy is a call, a scan has an end, what is paired is trusted, but for the named refusals |
| `MCDataPartition` | four calls, one failing call, two power cuts, two configurations | what was promised last is loaded, or what is being saved; older settings only after a reset on a tmpfs or with the partition left writable; pairings are kept and never half; read-only at rest or logged |
| `MCSinkSwitch` | two workers, the scan, the buttons, three kinds of sink, fairness | thread, switch and format agree; threads never overlap; surround is carried; PUTs end |
| `MCSavedConfig` | two workers, every request, two values, four requests between two starts, restarts with all the inputs or fewer, symmetry in the workers | settings are kept, and the count of inputs changes nothing else of the file, but for what a handler puts back that had read it before |

### The bounds

A ring of eight frames is lapped twice while a read of any length at any start is under
way; readers do not affect each other, and the proofs hold for any number of them. Two
sockets are enough for a claim, a takeover and the reuse of a descriptor; two channels
give runs of one and two. `Tries` and `MaxDisplaced` stand for `kNetTakeBackMs` and
`kNetDisplacedMax`, which are larger and only lengthen the wait and the list. In
`MCNetStream` the timeline is lapped once after a frame was left in it, and `MaxLead`
plus any delay fits it, as `kNetTimelineMs` is chosen (`StreamAssumption`). In
`MCPcmLink` a stall (three ticks) is longer than the catch-up (two), and the buffer is
just what `LinkAssumption` asks for; a second link shows what the first left behind. In
`MCEngine` the delay line is turned over by the frames of one behaviour, each of its
changes can meet a fresh card, and a delay may be less than a block, a block, or end
within one. In `MCCapture` the ring is lapped during a copy, and two callers show every
race of two locks. `MCInputs` has a mix for each kind of trouble, since all of them at
once are too many; requests come in each that has clerks at work. In `MCBtManager` three
events is one more than any race found needed. Two power cuts show a recovery that is
itself interrupted, and two workers every race of two handlers; in `MCSavedConfig` four
requests let a handler that is behind be overtaken by two others and be followed by a
save. Every `Max...` constant is such a bound. `CHECK_DEADLOCK FALSE` is given where a
behaviour ends because its bounded number of calls, blocks or events is used up.

### Fairness

A thread that can run does (the scheduler), and a session leaves when its socket is shut
down, since its blocking `recv` returns. No request, phone or device event is assumed to
come, and no session to end by itself. A mutex is only weakly fair, which is why
`PutsFinish` leaves out the sink whose buttons could be pressed for ever. In `MixerLink`
the server's thread and the mixer's program take their turns, and messages arrive (TCP).
In `MCInputs` the recording thread, each clerk, the device's thread and time go on, and
`ReadInTime` is strongly fair: a real-time thread is not held up beyond the driver's
buffer every single time it could read.

## What the code does not keep

Where a comment or a document says more than the code does, the model states what the
code does, and the property that was claimed stays in its module beside the one that is
checked. TLC shows a short behaviour against each of the named ones when the module's
configuration has it among its invariants or properties, for `NetChannels` with a third
socket and one output opened twice.

- `ring_buffer.h:16-19` says that every read "re-reads the counter after copying and
  fails if the writer has since wrapped past the requested start". `read_channel` (:83)
  and `read_interleaved` (:102) accept a copy whose first frame is `frames_` behind,
  while the counter moves only after the block was copied, so that block may be in it
  (`ReadsAreUntorn`). Asking for a block less would do: `ExactWithABlockOfMargin`,
  proved. Callers stay clear of it when not held up; `Capture` inherits it (`late`).
- `net_audio.h:161-162` says that a displaced stream "gets a channel of its own instead
  of taking the run back again". The list of displaced streams is read
  (`net_audio.cpp:375-378`) before the search that uses it (:383-405), and a stream put
  on it in between takes its run back (`DisplacedTakesNothingBack` in `NetChannels`;
  three sockets are needed).
- `net_audio.cpp:146`: "Clear behind us so an unwritten frame on the next lap reads as
  silence". `read_block()` (:1057) clears at `n - delay` only, and when the delay
  shrinks the frames it jumps over stay and are played a turn of the timeline, some
  eleven seconds, later (`HeardAsAimed` in `NetStream`).
- `config.cpp:596-597`: "a power cut leaves either the old pairings or the new ones".
  Between the two renames (:609-610) neither is there (`OldOrNewPairings`).
- `webserver.h:97-98` says what `sink_put_m_` is for: the thread and `enabled` must not
  end up disagreeing. The buttons' handler (`main.cpp:311-319`) does not take
  `sink_put_m_` (`SwitchAgrees` for that sink).
- `sink_out.cpp:222-223` and `docs/api.md:173` say that surround above 48 kHz is
  refused. A sink saved at 96 kHz that a later scan binds to a surround device keeps
  both (`devices.cpp:239-240`; `SurroundIsCarried`).
- `webserver.cpp:1085` says of the speaker's address that "a later save keeps it". A save
  (:1593-1605) that copied the configuration before the PUT stores it back after; one of
  two `PUT /api/bluetooth` at once undoes the other's setting, and a `PUT /api/net` that
  names no count the count another has just saved, since it reads it before the lock
  (`LastSetIsKept`).
- `webserver.cpp:1284-1285` and `docs/api.md:641-642` say of the count of inputs that
  nothing else of the saved config changes with it. `remap_columns()` (:1289) takes the
  settings of an input out of the file that the running layout does not have, and moves
  what was saved to the columns that run now; and a save or reset that falls between the
  load and the write is undone (`OnlyTheCount`).
- `docs/api.md:823` says of a reset that the next boot uses the image defaults.
  `reset()` answers ok at once when it sees no saved file (`config.cpp:536`), also on the
  tmpfs of a boot whose partition did not mount, and after a removal that is not written
  out yet; and it answers ok when the remount that would write it out fails. The next
  boot may then load the older settings (`ResetIsKept`).
- `webserver.cpp:1256`: "a rejected body changes nothing". `PUT /api/net` stores
  `delay_ms` (:1279) before it reads `enabled` (:1282), which may throw: the answer is
  400, and the `delay_ms` shown is no longer the delay in force
  (`RejectedChangesNothing`).
- `net_proto.h:50` and `docs/api.md:664` say that a mixer is told of changes whoever makes
  them. A change between the ack (`net_audio.cpp:1125`) and the reads of what was sent
  (:1129-1131) is taken for sent, and the mixer shows the old value until that field
  changes again (`ChangesReachTheMixer`).
- `bluetooth.cpp:866-867`: "Every paired device is trusted". A `Trusted` that BlueZ
  refuses (:874, :1197) is logged, the device is recorded as paired (:882), and it is not
  tried again; and a device that was paired before the daemon started is not looked at
  (`paired_known_`, :872) (`EveryPairedIsTrusted`). Such a device's key is not copied
  either, if the run before ended within the timer's two seconds.
- `docs/api.md:272` says that a device is busy "while a request runs". A call that was
  out when the bus went leaves it busy (`BusyEnds` in `BtManager`). A request to be
  discoverable that is sent together with `enabled` from off is refused from the state
  of before (`docs/api.md:287`), and a failing hook for the copy of the pairings is not
  retried.
- `pump()` in `ctl_soundtester.c:69-89` "must not block"; once the connection is gone,
  `poll()` always has something to say and its loop does not end. That is why a broken
  connection is not part of `MixerLink`. And `net_audio.cpp:1156-1159` says that the one
  volume has to cover both channels: a run that was un-mixable and is so no more keeps
  what its channels had.
- `engine_core.cpp:257-258` says that its order is "correct for any delay, including one
  shorter than a single block". Under such a delay, other than none, the rest of a block
  reads what its own frames have not yet replaced (`tests/test_engine.cpp:372-395` pins
  it, and `kNetDelayMinMs` is 0); `OneAxis` is about the others (`Whole`). Until the ring
  is longer than the delay the other columns of a block are silent (`engine_core.cpp:151`,
  `net_audio.cpp:1057`), also those of its frames that the card's columns already have
  something for: `OneAxis` says that this is the first such block of the ring only. After the
  card was opened again with a delay of zero, `ctl.capture_delay` keeps the old value
  (`engine_core.cpp:96`, :240-247), which `device_input.cpp:295` reads. The ping log is
  not in order of time when the delay shrinks (`webserver.cpp:1522` takes it to be), and
  `PingLog::recent()` (`control.h:104`) may return an entry that is being replaced.
- `webserver.cpp:1491`: a genie that found no freeze resumes the one an operator made
  meanwhile.
- `pcm_soundtester.c:397-398` says that a network fault never becomes an xrun. That is
  so for a program that had its buffer full (`FullBufferHasNoXrun`), and for a buffer of
  at least the catch-up (20 ms).
- A pinned HELLO tries its run once, and is refused if another claim that is about to
  fail holds one of its channels at that moment.
- `POST /api/config/reset` (`webserver.cpp:1611`) leaves the reported count of inputs as
  it was, and a `PUT /api/net` with that very count then saves nothing.
- When a call fails, `save_dir()` may mix a copy with the leftovers of an earlier one,
  or leave no pairings at all (`PairingsNeverHalf` and `PairingsKeptAtRest` hold as long
  as no call fails).
- A scan that binds a sink between a PUT's check and its restart may leave the thread
  playing the layout of before (`PlaysWhatItSays` leaves that sink out).

## What is proved

Every component that is modelled has its proofs. A module of proofs EXTENDS one
component, or two that are neighbours (a sink and the ring it reads, the channels and the
inputs that claim them, a sending machine's two plugins, the saved settings and the
partition they are saved to). For each component there is an inductive invariant of named
parts (`RingInv`, `Inv`, or `...IInv`); the theorem that it holds comes first
(`...Always`, `Invariance`), and the properties follow from it. What each theorem states
is for every value of the constants that the named assumption allows, and for any number
of HTTP threads.

`Sink_proofs` proves, for every length of ring, block, margin and set of readers,
under `RingAssumption` alone except where noted:

- `RingAlways`: `RingInv` holds. The properties are not inductive, since they say nothing
  of the slots. `RingInv` adds `WriterShape` (the block in flight starts at the counter),
  `SlotsHold` (a slot keeps its frame until the frame one turn later is copied into it)
  and `CopiesHold` (a frame a running read got wrong is one the block in flight has
  reached). That two frames nearer than the ring is long have slots of their own, and
  that a turn leads back to the slot, are the lemmas on `%` it rests on.
- `RingTypesHold`, `TearingIsBounded`, `MarginIsEnough`: `RingTypeOK`,
  `OnlyTheBlockInFlightTears` and `ExactWithABlockOfMargin`, from `RingInv`.
- `MarginProtects`: `AskableFramesAreThere`, from `RingInv` and `SafetyAssumption`: the
  margin is at least one block, as `main.cpp` and `sink_out.cpp` choose it.

`Inputs_proofs` proves, for any number of channels, senders and kinds of HELLO,
from `NetAssumption`:

- `Invariance`: `Inv` holds. `TypeOK` and `Shape` say what a thread's locals are where
  it is, above all how many channels it holds. `EveryClaimHasOneOwner` makes what two
  threads hold disjoint, and is kept because a flag is only taken when clear and only
  cleared by its owner. On disjoint channels nobody overwrites a record another session
  is bound to: that is `Written` (while `took()` is at work) and
  `RunRemembersItsHolder`. `Forgotten` says that a record no longer names the socket
  when the flag is cleared, which is what keeps `HolderIsLive`. Steps that only move
  their own thread (`OnlyMoves`) are dealt with once, in `LocalStep`; each of the others
  has a lemma of its own.
- `TypesHold`, `ClaimsHaveOneOwner`, `HoldersAreLive`, `RunsAreRemembered`: its parts.
- `CutForItsOwnStream`: `OnlyItsOwnStreamCutsIt`, since the socket that `Scan` shuts
  down is the live holder's, and the record it judged by is about that holder.

- `ThreadsImplementRuns`: `ImplementsChannelRuns`. What a sender asks for, and which
  channels it owns, are read off where its thread is (`AskedBy`, `Owns`, `Owner`): it
  owns its run from the `compare_exchange` that completes it, and gives a channel back as
  it clears its flag. `Inv` makes the owner unique; `PinIsKept` says that a search begun
  with a pin looks nowhere else. Each action has a lemma that names the step of
  `ChannelRuns` it is, or shows that it is none.

`Inputs_proofs` proves as well, of the Bluetooth input and of another capture device, for
any number of phones, requests and failures, any delays and any buffer of the device,
from `BtInputAssumption` and `DeviceInputAssumption`:

- `InputsAlways`: `InputsIInv`. `InputInv` speaks of the delay once the requests are
  answered; what a request has stored and holds meanwhile depends on its place
  (`PutFollows`, `HolderFollows`), and what the delay must come to from there, from which
  `delay_ms` it was derived, and that a refused body alone can have left another, is
  `DelayFollows`. `ThreadFollows` says that the recording thread is there between a start
  and a join alone, with the switch on and room in front of playout throughout;
  `ReaderFollows` that the reader of a device has a place for its frames only while it
  has a PCM, that this place is the right one while the PCM runs, and that the delay it
  goes by is at least the device's own.
- `InputsHold`, `FramesAlwaysKeepTheirInstant`: `InputInv` and
  `DeviceFramesKeepTheirInstant`.
- `LateIsLate`: `OnlyTheLateAreLate`, an action property, which rests on the last of
  these.

`Sink_proofs` proves, for any number of workers, scans and Bluetooth threads, from
`SwitchAssumption` (the actors are different ones, and the formats are as the code's):

- `SwitchAlways`: `SwitchIInv`. `SwitchInv` speaks of the sink at rest, and is no use in
  between; `SwitchIInv` adds where each thread can be and with which call (`CallsOf`,
  `WhereEachIs`), who holds `life_m_` and `sink_put_m_` (`WhoHolds`), that a thread told
  to stop is joined by whoever holds `life_m_` (`ThreadIsJoined`), and which reopen is
  still to come (`SwitchFollows`, `FormatFollows`).
- `SwitchIsConsistent`, `ThreadsAreOneAtATime`: `SwitchInv` and `OneThreadAtATime`.

`Plugin_proofs` proves, for every rate, buffer, packet and number of links, from
`LinkAssumption`:

- `LinkAlways`: `LinkIInv`, which adds where a call can be and what a close has got to
  (`Stages`), which of the two threads has the link (`OneHolder`), that no nap follows a
  failure unseen (`NapsEnd`), how the pointer, the clock and the program's frames are
  related within a call (`PointerFollows`), and what each link expects next
  (`StreamFollows`).
- `LinkIsConsistent`, `LinkNeverForgotten`, `DevicesHearItWhole`,
  `FullBuffersHaveNoXrun`: the properties of the same content. The last rests on the
  part of the assumption that a buffer holds the catch-up.

`Plugin_proofs` proves as well, of the mixer, for any number of channels, levels, senders
and kinds of mixer, from `MixerAssumption`:

- `MixerAlways`: `MixerIInv`. The two sides agree only at rest; in between
  `AnswersFollow` accounts for each difference. The last `MIX` under way is what the
  thread last sent, so a mixer to which nothing is under way shows that in each field, or
  else its own last move, which is still on its way (`Coming`), or has been taken by a
  thread that will find a change to tell (`WillAnswer`), or the field is in `unseen` or
  `undone`. `MixerStages` says what can be under way at
  each of the thread's places. `LevelsFollow` is why one volume covers the run: until the
  first mixer is answered every channel is at the default, and afterwards those that are
  driven move together, through every change of the run. `RunFollows` says that the run
  is what the records name unless they have changed since the last look.
- `MixerHolds`, `StraysAreBrief`: `MixerInv`, and `StrayIsBrief`, an action property.

`Saved_proofs` proves, for any number of calls, failures and power cuts, from
`DataAssumption`:

- `DataAlways`: `DataIInv`. It says of each step of a call what the steps before it have
  left on the disk (`Calls`, `ConfFollows`, `DirFollows`): the new file is whole and
  synced before it is renamed, and what the medium may hold, at most one directory
  change behind at each step, is one of the two. `ConfFollows` relates the file that
  programs see to what was promised last, and every other that the medium may still have
  to what was promised before, which is there only on a tmpfs or with the partition left
  writable.
- `ConfigsSurvive`, `DiskIsConsistent`, `PairingsAreKeptAtRest`: `ConfigSurvives`,
  `DiskInv` and `PairingsKeptAtRest`.

`Saved_proofs` proves as well, of the settings, for every set of values and requests,
from `ConfigAssumption`:

- `SettingsAlways`: `ConfigIInv`, for any number of HTTP threads, without an assumption
  on who overlaps whom. Each thing a handler has read is still so when the handler uses
  it, unless it is in `behind` (`ReadsFit`); `behind` grows with each change another
  handler makes, and what is written by a handler that is behind goes to `undone`. That a
  handler may have the lock, and what it holds where it is, are the types.
- `SettingsAreKept`, `CountAlone`: `SettingsInv` and `OnlyInputsChange`.

`Engine_proofs` proves, for every set of periods and delays, every length of the line and
every bound, from `EngineAssumption`:

- `EngineAlways`: `EngineIInv`. `LineFollows` says which slot of the delay line holds
  which frame: with it, reading a whole delay back gives the frame of that index or the
  silence the line began with (`WhatIsHeld`), and pushing a block keeps it
  (`PushFollows`). `PingsFollow` keeps for each ping the delay it was logged under, for
  as long as a frame of that time can be found. `GenFollows` says that the ring's last
  frame is of an earlier generation whenever the card is away, and `TimeFollows` how much
  time was lost so far.
- `OneIndexIsOneInstant`, `WhatIsBesideIsOnTheAxis`: `OneAxis` and `AxisInv`.
- `EngineImplementsRingFeed`: `ImplementsRingFeed`. `WriteRing` is a `Feed`, `Recover`
  and a `Sync` that changes the delay are a `Mark`, and all else leaves what the readers
  see alone.

`Capture_proofs` proves, for every ring, block, length, window and set of callers, from
`CaptureAssumption` (the longest capture leaves the ring's margin, which is a block or
more):

- `CaptureAlways`: `CaptureIInv`. `CaptureInv` speaks of the store when nobody is at it.
  `Where` adds which steps each call has and where it holds `lock` and `fft`, `Taken`
  what it has in hand there: the frames it asked for, unless the audio thread has come
  round, or is coming round, to where they begin (`Overtaken`). A slot that is neither
  behind the ring nor being stored into holds one frame only (`SlotHoldsTheFrame`), and a
  copy that is not late at its check was not overtaken at any load before it. What is
  frozen changes under `lock` alone, which is why a copy out of it is exact.
- `CaptureIsConsistent`, `AnswersAreAlwaysExact`: `CaptureInv` and `AnswersAreExact`.
- `FreezesEndByRequest`: `FreezesAreEndedByRequest`, an action property: of every other
  step, that it leaves a status that is frozen as it is.

`NetStream_proofs` proves, for every number of channels, timeline, guard, lead and set of
delays, from `StreamAssumption`:

- `StreamAlways`: `StreamIInv`. What is heard follows from what the timelines hold:
  `SlotHolds` bounds which frames a slot may have (those to be played, those the ring is
  still to get, those that were skipped) and says that nothing old is where the ring was
  served last; `LiveFollows` that what was played live is in its slot until it is taken
  away, which is what makes the ring the live side delayed; `DueFollows` that what was
  accepted is in its slot until it is heard. A write in flight disturbs none of it, as
  its positions lie ahead of the reader until it is over (`AcceptedIsToCome`, the one
  place where `Stall` and the guard meet) and have slots that the reader and the ring do
  not use (`ToComeIsApart`, where the size of the timeline comes in). Meanwhile the
  channels differ in its slots alone (`SlotsAgree`), and the ones it has been to have its
  frames (`WrittenSoFar`). `Block` moves everything at once, and has a lemma per conjunct.
- `StreamIsConsistent`, `AcceptedFramesAreHeard`, `ChannelsAreAlwaysTogether`:
  `StreamInv`, `AcceptedIsHeard` and `ChannelsStayTogether`.

`BtManager_proofs` proves, for any number of events and questions, from
`EventsAssumption`:

- `ManagerAlways`: `ManagerIInv`. The properties compare the manager with BlueZ, each of
  which learns late of what the other did; the parts say what is on its way between
  them. `Held` says where the question is that BlueZ waits on: held by the manager, in
  the inbox with nothing behind it that would put it away, or given up with its call.
  `AnswersFollow` has an answer name the request it was given to, and `Counted` numbers
  both, which is why it cannot meet another question than the one that was shown.
  `SettingsFollow` relates the adapter to the settings or to the command or signal that
  will set it, `CopiesFollow` the copy of the keys to the one that was read or to a
  timer. `UnknownYet` says that nobody pairs, and nothing is done to a device, until the
  devices have been read, and `Client` what BlueZ does for a client that has left the
  bus: nothing. That what is read as paired is trusted is inductive only with its three
  exceptions, each of which the step that makes it records in `distrust`.
- `ManagerHolds`, `AnswersMeetTheirQuestions`, `AdapterAlwaysFollows`,
  `PairingsAlwaysCopied`: `ManagerInv` (questions are held, busy is a call, a scan has an
  end, what is paired is trusted), `AnswerIsForItsQuestion`, `AdapterFollowsSettings` and
  `PairingsAreCopied`.

The components that turn over (the ring, the delay line, the timelines) rest on lemmas on
`%`: a remainder is unique, may be taken before a sum, is the same a turn later, and
differs for numbers nearer than the divisor.

Only model-checked: everything that needs fairness (`EveryClaimIsAnswered`,
`CutSessionsLetGo`, `PutsFinish`, `BothComeToRest`, `InputsGoOn`), which is beyond the
prover, as ENABLED is. Every invariant, action property and refinement that a run checks
is proved.

## What is not modelled

- The sinks' streaming (`wait_for_engine`, `anchor`, `stream` and the correction of
  drift): its loop is `DeviceInput`'s in the other direction, and the rest is numeric.
- The allocation of slots and columns in `Devices`, which one thread does under one
  lock.
- The listening stream and the hub of the WebSockets, of which nothing that is measured
  depends.
- The readers of the time anchor (a sequence lock, whose fences only weak memory would
  tell apart) and of the ping log; the anchor's extrapolation while the card is away.
- The order of the shutdown, and the watchdog.
- The parts left out of each module, which are named with it above.

Left out for good: the numeric code (generators, resamplers, analysis, codecs), since
TLC has no floating point; ALSA, BlueZ and the kernel beyond what the code relies on;
rendering, logging and JSON; the web page, which keeps no state that others share; the
recipes that build the image.
