# A TLA+ verification of wr-calibration

`wr-calibration` is the White Rabbit absolute-calibration kit: a modified PTP
firmware that prints the time stamp of every frame on its console, Python scripts
that combine that console log and the readings of laboratory instruments into
hardware delays, and the gateware the nodes run. This directory holds TLA+ models of
the parts that carry the program's own logic, TLC configurations that check them on
small instances, and proofs checked by the TLA+ proof system (TLAPS).

## 1. Inventory of the system

| Part | Where | State | Operations |
|---|---|---|---|
| PTP engine | `sw/embedded/precompiled/wrpc-clb-cal-sw/` `fsm.c`, `state-master.c`, `state-initializing.c`, `msg.c` | state, new-state flag, delay, timers, sequence numbers, role | `pp_state_machine`, called by the main loop with a frame or on a timeout; the state functions; sending Sync and Delay_Resp |
| Socket layer | `wrpc-socket.c` | the socket of the port | `init`, `exit`, `recv`, `send`; `recv` and `send` print a stamp |
| Receive stamp correction | `wrpc-socket.c` `ts_sub`, `ts_add` | none | subtract the bit slide, normalise |
| Main loop | `wrpc-clb-sw/wrc_main.c` | last link state, user-interface mode | link check, shell, PTP update |
| Log reader | `sw/ab_cal_scripts/tic_gui.py` | the two lists read from files | parse, pair by position, subtract |
| Counter library | `lib/Keysight_53230A.py` | file of readings | take readings, read them back |
| Edge to SFD, edge to edge | `edge_sfd.py`, `edge_edge.py` | the options, the list of delays, the first waveform's period and patterns | options, the measuring loop, the histogram file |
| Oscilloscope libraries | `lib/LeCroy8254.py`, `Keysight_DSO_S_254A.py`, `Agilent_DSO6104A.py`, `RohdeSchwarz_RTO2024.py` | the settings of the instrument, the waveform files | set up, acquire, save, read back, compare channels |
| Delay determination | `delay_determination.py` | none | correlation, its axes, the peak and its interpolation |
| Pattern generator | `lib/pat_gen.py` | none | a bit pattern as it would have been sampled |
| IP multiplexer | `hdl/ip_cores/ipmux/top/ipmux.vhd` | buffers, pointers, flags, pause requests | packet buffers, stream selection, flow control |
| Everything else | `hdl/*/ease.db`, `ram`, `elf`, PLL wrappers, test benches, `docopt.py` | | generated, third-party or structural |

How they interact in a time-stamp calibration: the node is put in master mode by a
shell command and sends a Sync a second; `wrpc_net_send` prints its transmit stamp t1
and leaves the line open; a fibre loop brings the frame back; `wrpc_net_recv` prints
the corrected receive stamp t4 and ends the line. Every frame also makes a pulse on a
time-stamp output, which a time interval counter measures from the PPS. `tic_gui.py`
afterwards reads the captured console and the readings, and pairs them by their
position in the two files. In an edge-to-SFD measurement `edge_sfd.py` drives an
oscilloscope through `get_waveforms`, which saves a file that the script reads back at
once, and correlates it.

What is hard in it, and so what the properties are about:

* the machine runs to completion on a frame or a timeout, so a call may do several
  things at once: print a received stamp, issue the Sync, then handle the frame; the
  order decides what a console line holds;
* the same timer survives faults and restarts; mode changes come at any moment;
* errors are returned as small integers that are compared, dropped or overwritten;
* frames are lost, or come from other nodes, and then two records that are paired by
  position shift against each other;
* files are named after the second, by processes that share a directory, and written piece
  by piece;
* instruments are asked for one channel at a time while they could trigger again, and are
  found with whatever format and byte order the front panel was left at;
* waveform files have no length and no end mark; preambles and data of three libraries do
  not name their channel; exceptions are made and not raised; a file may be cut anywhere;
* an index that is off by one in a correlation, its folding or its axis shows as a delay
  that is wrong by one sample, in a result no test has another value for;
* the state machines of the gateware all move at the same edge and see each other's
  registers of a cycle ago; a memory answers a cycle late while the fabric stalls at any
  edge; fullness is looked at once for a whole frame.

`PROJECT.json` lists all hazards, at their lines, with the properties that cover them.

## 2. Plan of the development

Done: the firmware (T4Correction, CalMaster, its abstraction SyncSource), the
calibration bench around it (GuiLog, CalBench), the oscilloscope script as a process
(ScopeRun), the files of all instruments (WaveformFile over ScopeData and one module per
library), what the scripts compute (EdgeMeasure over DelayDetermination and PatGen), the
receive buffers and the transmit path of the IP multiplexer (RxBuffers, TxBuffers, their
common abstraction FrameStream) and its checksums (Checksum). Seven modules of proofs go with
them, and one about addresses in a ring that two of those share (section 5).

Left, in this order:

1. *More proofs*: what WaveformFile says of each format, as far as the folds over lines let
   it.
2. *Main loop* (`wrc_main.c`): link state and the reactions of the loop, composed with
   CalMaster in place of the external polling.

## 3. Modules

### T4Correction (`wrpc-socket.c:13-49, 106-118`)

`ts_sub(t4, bitslide)` followed by `ts_add(.., 0)`. Each of the four `while` loops is an
action that makes one iteration (BorrowNs, BorrowSec, CarryNs, CarrySec); LeaveLoop goes
to the next one when the condition is false. The radixes 1000 and 10^9, the raw stamps
and the bit slides are constants.

### CalMaster (`fsm.c`, `state-master.c`, `state-initializing.c`, `msg.c`, `wrpc-socket.c`)

One step is one call of `pp_state_machine`. `Called(f)` says when the loop calls it and
with what; `RecvText(f)` is what `wrpc_net_recv` prints on the way; `Unpacked(f)` what is
left of the frame after the header checks; `Conclude` is the tail of `pp_state_machine`
(error line, change of state, delay). InitDone and InitFailed are `pp_initializing`;
MasterQuiet, MasterSync and MasterSyncError are `pp_master` with no Sync due, with a
Sync sent, and with a Sync that failed. MasterOk, MasterNoStamp and MasterFault are its
three exits. The states that live outside this repository are one external action,
OtherState, that may do whatever `fsm.c` lets a state function do, except that a
slave-only clock does not choose MASTER.

`out` is what the last call printed and `tx` what it transmitted. `quiet` is a history
variable: the time since MASTER was entered or a Sync was issued. A sequence number
stands for the contents of a frame.

Three behaviours of the code deserve a word. `(e = pp_master_issue_sync_followup(ppi) <
0)` stores 0 or 1, so a failure looks like PP_SEND_NO_STAMP. `wrpc_net_init` never fails,
so `pp_initializing` goes on without a socket. A change of state returns a delay of 0
whatever was asked for, so that MASTER and FAULTY may alternate without a pause. The
model does what the code does; section 4 says where the first two disagree with the
comments.

### SyncSource

The abstract specification of the firmware as the bench sees it: a source that is told
its role, begins and ends to drive, and sends numbered Syncs no closer than the interval.
`CalMaster!Source` is the refinement mapping (`driving <- state = "MASTER"`), `IsSource`
and `IsFairSource` the two refinements that are checked; the first is also proved.

### GuiLog and CalBench (`tic_gui.py`, `wrpc-socket.c`)

GuiLog contains the console and its reader as operators. A stamp is three fields of a
line; `PrintToken` puts a token on the open line or ends it; `Read` is the loop of
`wr_abs_cal_gui_file_to_scipy_array` that stops at the first line with fewer than six
fields; `Rows` is what comes out, nothing if a field is not a number.

CalBench extends CalMaster with the fibre loop, the PPS, the counter and the capture.
Issue is a call of the machine together with what it prints and transmits; Return,
Lose and Foreign are what the loop may do; BenchTick lets time pass once the loop is
quiet. The counter is on the transmit or on the receive output (`output`, chosen at the
start as the operator of `tic_gui.py` does with its option). The bench starts when the node enters MASTER. Disturbances (a lost frame, a frame
of another node, a Delay_Req that is answered, a Sync that is not sent, a PPS the counter
misses) are recorded in `events`, so that properties can say what they promise with and
without them.

### ScopeRun (`edge_sfd.py`, `LeCroy8254.py`)

Several runs of the script, each with an oscilloscope of its own, in one data directory.
Acquire, Arm, Poll, Fetch, Open and Save are `get_waveforms`, split where the
oscilloscope, the clock or another run may come in between; Read and Evaluate are the
loop body of `average_edge_to_sfd`; Report writes the histogram file. What correlation
finds is a delay chosen from a small set; EdgeMeasure has the computation and
WaveformFile the contents of the files.

A file is a function from places to blocks, one block for each channel, the first with the
header and the preambles. Open empties it, whoever else has it open
(`LeCroy8254.py:145`); each Save writes one block at the run's own place, behind its own
last one (`wrote`), over what another run has put there. Two runs that save in the same
second may thus leave a file with channels of both, or one with a hole where the other
emptied it. Read fails on a file with a block missing, as `check_waveforms` does, and takes
a mixed one for a whole one, as the code does. In the code the pieces are those of a
buffered stream and need not end with a channel: what a piece boundary inside a channel adds,
samples of two runs in one channel, is not told apart from a channel of the other run.

### WaveformFile, ScopeData and the instrument libraries

A waveform is taken with one library, saved, and read and checked, possibly much later and
by another library. `scope` holds the settings of the instrument that decide what comes
back: format, sign, byte order, time base and trigger position. Panel changes them to
anything; OscInit and GetWaveforms set what the library's `osc_init` and `get_waveforms`
set, and leave alone what those leave alone. GetWaveforms also gathers the lines of the
file in `todo`; Save writes all of them, Die some, the last one perhaps in part (Cut says
what may be left of a line). FileToWaveform folds the reader over the lines (Turn, Read);
CheckWaveforms is `check_waveforms`, with the lookups that raise when a field is missing;
GetTimeInterval and the reader of `Keysight_53230A.py` are the counter's.

Every library is a module with the source's names: `Tag`, `osc_init`, `Setup`,
`get_waveforms`, `preamble_string_to_dict` (`get_preamble_from_file` of the LeCroy),
`raw_to_scipy_array`, `check_waveforms`, `file_to_waveform`. ScopeData has what the three
libraries that ask for a comma-separated preamble share, from `Keysight_DSO_S_254A.py`:
`CommaReader` is the loop of their `file_to_waveform`, in which the channel of a preamble
and of a block of data is the one at the same place of the `#channel` list. A line is a
pair of its kind and what is in it; samples are bytes, put together by byte order, width
and sign (Number, Signed), so that a wrong setting gives wrong numbers and not an error. A
voltage is the number scaled by the preamble's increment and origin.

A reader ends as "done", "none" (it returned nothing: another tag or version) or
"raised". Only the text of numbers, dates and headings that no property tells apart is
left out.

### PatGen, DelayDetermination and EdgeMeasure

Operators and then a state machine. Arrays are functions on `0..n-1` as in Python, and the
division of Python 2 rounds down as `\div` does. `correlate_linear` has the index
arithmetic of the loop as it stands: the window, the lower index of signal 1, the boundary
of signal 2, the concatenated indices (`shifted_index`), slices with negative ends
(SliceEnd), and the place `shift - k` a sum is filed under; `zero_padd` is its last part.
`correlate_circular` is the full correlation folded by its last n1 and first n2 - 1 items
(LastPart, FirstPart), shifted and given an axis. `peak_position` finds the place of the
estimate on the axis, the maximum nearest to it (`argrelmax` with clipping, which sees
neither a plateau nor an end) and a position of the spline's maximum, any multiple of 1/Q
sample strictly between the neighbours, or at a neighbour that is equal.

The correlation is computed by `fftconvolve` in floats (line 503). The sums of the model are
exact, and rounding comes in where it decides something, at values that are equal: where a
sample is as high as both its neighbours or higher (`maybe_relmax`), rounding may or may not
make it a maximum. `nearest_maximum_index` is therefore a set: of those places, all that no
certain maximum (`argrelmax`) comes before. On the flat parts beside the peak of a pulse
every place is one of them, so that an estimate nearer to the flat part than to the peak may
find anything there. PeakMayRaise says that no maximum is certain, PeakRaises that none is
possible; in between Peak may fail or go on. LagSum, LagInside, Stands and LinearOk say what a
linear correlation ought to be and are used in properties only.

EdgeMeasure has the two scripts. Option looks at an option of `edge_sfd.py` as the code
does, in the order of the command line; Started puts in the fixed parameters of
`edge_edge.py`; Acquired takes a record of some length and, for the first, makes the
patterns; Correlate and Peak are the rest of the loop body. The signals have the real
shape: a pulse on channel 1, a frame on channels 3 and 4 with the two symbols
D21.2 and D21.6 in it.

### RxBuffers (`ipmux.vhd:485-525, 580-1053, 1709-1743, 2067-2192`)

The receive side of the IP multiplexer, one rising edge of `rx_clk` per step, so that
every register is primed and computed from the registers before the edge. `Mac2Buf` is
`rx_mac2buf`: a word waits in the pipeline until what follows says whether it is the last
(`valid`, `data`, `adr`), the end of the cycle raises `good`, and a cycle later the packet
pointer moves by the offset. `BufFull`, `BufEmpty` and the watermarks are `PktBufFlags`,
from the two packet pointers. `PauseReqLogic` keeps the request for a pause. `Buf2Data` is
the state machine of `rx_buf2data`, with the source's state names, and `Written` what
`RxStreamSel` passes to the selected fifo. `PacketBuffer` reads first: its output register
holds what the memory held at the address before the edge. Quiet, Status, DataCycle, Gap,
Oob and EndCycle are the fabric: a status word, data with gaps, optional out-of-band words,
the end of the cycle. They and the almost-full flag of the fifo are inputs.

Frames are well-formed, as the WR endpoint delivers them. A frame's data is named by its
number and the position in it. The headers are its first `Payload` words; the header
checks pass when all of them are read and belong to one frame, so that a frame that lost
its head, or a read that starts in the wrong place, fails them and goes to the CPU stream
as a whole. Resets, the UDP checksum and the fragment outputs are left out; the top level
leaves the latter two open. `queue` (the frames stored, with the words still due of each),
`word` (what the last edge wrote to a stream), `sound` and `w.cut` are history variables.

A frame on a wire is padded to 60 bytes, that is 30 words, and the headers of a UDP frame
take 21: FrameAssumption says that such a frame is longer than its headers, whatever the
length its IP header gives.

The reader has a corner where it loses its place (InStep, section 4): from then on `sound`
is FALSE. FramesDelivered and the refinement are stated while `sound` holds; the type
invariant, NoOverwrite, EndApart, CutOnlyAtHead and NoStaleStop without that restriction.

### FrameStream

What a packet buffer promises to those behind it: the frames stored come out in their
order, word by word, and a frame is left only when all that is due of it is out. `Streams`
in RxBuffers and `Fabric` in TxBuffers instantiate it; IsFrameStream is the refinement in
both.

### TxBuffers (`ipmux.vhd:55-177, 253-363, 1024-1053, 1198-1645, 1709-1743, 1780-1782, 2002-2026, 2492-2582, 2739-2839`)

The transmit side, one rising edge of `tx_clk` per step. `TxFifos` is `txfifos`: of each
stream a data fifo with its output register and a fifo that counts complete packets.
`TxStreamSel` has one action per branch of the source's states (Search, NoSearch, Found,
SearchOn, Handshake, NoHandshake, Reading) and clocks the pipeline to `tx_data2buf` in
each. `TxData2Buf` has Grant, Accept and NotReady for Idle, MoreData and LastData for the
data, UdpHeader, IpHeader, IpCheckSum and MacHeader for the headers, which are written
after the data to the addresses in front of them, AccessByCPU, and Store for the move of
the packet pointer. `WrEn` is `TxWrDataSrcSel`; `PacketBuffer`, `BufFull` and `BufEmpty`
are as on the receive side. `TxPkt2Mac` is `tx_pkt2mac`, which reads a word ahead and takes
the address back when the fabric stalls.

CpuAsks, CpuWrites and CpuReleases are the software behind the Wishbone port, which asks
for the buffer at any time, waits for the grant, writes its frame and takes the request
back; it pauses between these as long as it likes. A word of data is named by its source,
packet and position; a word of a header by its kind, position and the length and stream
it was made for, so that FrameOf says how the frame of each packet must leave. The values
of header fields are constants of the design, and the checksum is a word of its own here
(see Checksum). What a stream writes is in its fifo at the next edge: the latency of the
clock crossing only delays a stream, which may write at any edge anyway. Flush, resets and
the debug outputs are left out. `queue`, `word`, `conn`, `passed`, `lost` and `sent` are
history variables; `lost` holds the packets that TxStreamSel reads while no machine stores
them (section 4).

### Checksum (`ipmux.vhd:645-658, 696-725, 733-791, 806-884, 1340-1352, 1370-1373`)

The 32-bit sums of `tx_data2buf` and of `rx_buf2data` as pairs of halves, for one IP header
or one UDP datagram (`of`). Arrives sums a word on the transmitting side and lets it arrive
as it was or, once in a packet, damaged. HeaderWord adds a word of a header, or of the
pseudo header, on the receiving side. DataWord is an edge at which the receiver counts a word
of payload and adds `Din`. `Din` is a word behind: Offset is 0 while the headers are checked
(720, 763) and the memory answers a cycle late, so that the first addition, in StatusOut
(820), is of the first word of the frame, the beginning of the destination MAC address
(`mac`), and each later one of the payload word before. A stall (`full`) lets `Din` catch up,
and the word in front of it is then never added. WriteCheckSum folds the transmitter's sum
with the carry brought around and sends its complement; the receiver adds its last word if it
is written to the stream at that edge, which it is not when padding follows. `Remainder` is
the receiver's last addition, which drops the carry. `plain` says that there was no stall in
the payload and no padding; `Excess` is by how much the receiver's words then exceed the
transmitter's: the damage, and for a datagram the MAC word. The length of a datagram, which
both sides add twice, is taken to arrive intact.

## 4. Runs

| Run | Module | Shows |
|---|---|---|
| `t4` | MCT4Correction | the printed t4 is a proper number, equal to raw stamp minus bit slide |
| `cal_master` | MCCalMaster | a slave is never master, every frame sent or received is stamped, Syncs are an interval apart across faults and restarts, SyncSource is implemented, Syncs go on under a flood of frames |
| `send_error` | MCCalMaster | violated: a Sync that could not be sent takes the port to FAULTY |
| `bench` | MCCalBench | readings and console lines are paired Sync by Sync at every moment the capture may be stopped, on either output; nothing is dropped without a disturbance |
| `bench_lines` | MCCalBench | violated: a line holds a t1 and a t4 |
| `scope` | MCScopeRun | two runs in one directory: all channels of a measurement are of one complete acquisition of its own, and no file is overwritten, unless two are saved in the same second; a run ends whatever it measures |
| `rx` | MCRxBuffers | no unread word is overwritten, a frame loses words only at its head, no stale request to stop, FrameStream is implemented, every frame is left at last |
| `tx` | MCTxBuffers | frames reach the fabric in order, whole and with their own headers; nothing unsent is overwritten, streams are served in turn, a packet is connected only when it is complete, lost only to the CPU, and otherwise sent at last |
| `waveform` | MCWaveformFile | a waveform read back has the voltages and times of its own channel, whatever the panel was set to and wherever the file ends; all waveforms come back exactly from a whole file; the counter's readings too; a silent check means channels sampled alike |
| `measure` | MCEdgeMeasure | with estimates as near as the user is asked for, every delay kept is the one between the edges, or from edge to SFD, to a sample, however correlations are rounded; a run fails only for a reason in its inputs; circular and linear correlation agree with their definitions; a given tolerance is kept |
| `checksum` | MCChecksum | without stalls and padding the receiver accepts a sum if it has added up what the transmitter has, and no other but for multiples of all ones: every intact IP header and no damaged one, but a datagram only if the MAC word in its sum is zero, all ones or made up for |
| `rx_in_step` | MCRxBuffers | violated: the reader's pointer is at the start of the oldest frame |

`CHECK_DEADLOCK FALSE` appears where the system really stops: T4Correction ends when the
stamp is printed, a capture ends, the scripts exit, a packet has its checksum. CalMaster,
RxBuffers, TxBuffers and WaveformFile never stop. The types of T4Correction, CalMaster and Checksum
are proved (section 5) and not repeated in their runs.

### Bounds

*T4Correction* uses 5 ps to the ns and 7 ns to the second, all normalised raw stamps of
two seconds and some that are not normalised, and bit slides from below minus one ns to
above two: every loop makes zero, one and two iterations, and a borrow crosses the
second. *CalMaster* has a Sync interval of two ticks and a fault of one, so that a timer
left behind elapses before and after re-entry; sequence numbers modulo 3; a queue of one
frame, which is enough to be never empty; every kind of frame. *CalBench* follows
captures of up to four Syncs (`SeqSize - 1`, so that numbers name Syncs) with up to two
disturbances of any kind: one to shift the records and one to shift them back. *ScopeRun*
makes two measurements of two averages and two channels in each of two runs, with a clock
of two seconds: enough for two files with one name and for two names, for a trigger
between two sweeps and between two channels, and for every order in which two runs empty and
write a file of two blocks. A screen counts up to twice the averages. *RxBuffers* has eight words of memory and three frames of two and
three words, one of them the header: the pointers and the offset (range four) wrap, the
buffer is full after two frames of the longest size, and the third meets it full, whole
or in part; with payload, padded, without payload, for no port, and not UDP. Both
watermarks are crossed. All inputs (gaps, the fifo's flag, acknowledges) may change at
every edge. *TxBuffers* has two streams and the CPU with four packets between them, an IP
header of two words (one is the checksum) and other headers of one. A frame has up to six
words of a memory of fourteen: the second frame fits beside the first, the third finds the
buffer full, and both packet pointers wrap. (In the design the 8192 words take one jumbo
frame at a time; the comment at line 2740 speaks of a larger memory.) Stream 0 has two packets,
so that a stream with more to send competes with one that waits. *Checksum* has words of
three bits and as many as WidthAssumption allows, so that up to five carries reach the
upper half; the theorem covers 16 bits.
*WaveformFile* has two channels, asked for in rising or falling order, with signals of two
and three samples whose numbers need both bytes and both signs, and that differ in length,
sweeps and sampling; two panels that differ in format, order, sign and trigger position; a
counter with no reading and with three. Every library reads every file, whole, cut between
any two lines and cut in any line. *EdgeMeasure* has the real twenty bits of D21.2 and D21.6
with ten bits of another symbol on either side, at two samples a bit, so that the side lobes of
the real pattern are there. Six records: 84 samples, 85 (odd), 90
(longer), 70 (shorter), one with a pulse that is too long, and one of 30 samples in which
the pattern does not fit; every pair of them as first and second measurement. Estimates of
the pulse are exact, half a pulse off, a sample more, well off, and off the axis of all
but the longest record; with that sample more allowed in NearEdge, DelayRight is violated. Options come
in every order. Interpolation may end half a sample off (Q = 2). The theorems cover all other
lengths, centres and shifts of the linear correlation.

### Fairness

`FairSpec` of CalMaster asks for weak fairness of a call of the machine and of the timer:
`wrc_main.c:187-218` is an endless loop that calls `wrc_ptp_update` in every iteration.
Nothing is assumed of the network, the transmitter or the states outside the repository.
`FairSpec` of ScopeRun asks for weak fairness of each script and of the trigger of an
armed oscilloscope: the calibration pulses are periodic. Without triggers the script does
wait for ever (`LeCroy8254.py:106`). `FairSpec` of RxBuffers asks for weak fairness of
`Edge(FALSE)`, a clock edge at which the selected fifo is not almost full: the clock runs,
and whoever is behind the stream empties it. Nothing is assumed of the fabric. `FairSpec`
of TxBuffers asks for weak fairness of `Prompt`, an edge at which the fabric takes words
and the CPU goes on once it has been granted the buffer, and for strong fairness of it
while a word is on offer: a fabric that stalls each time a word is offered would, with the
address taken back at every stall, never get a frame. CalBench is checked for safety only.

### Where the code and its words disagree

* `send_error`: `state-master.c:84` stores the result of a comparison, so that a Sync that
  failed counts as one without a stamp; the fault exit (`state-master.c:150-151`) cannot
  be reached from there.
* `rx_in_step`: the comment at `ipmux.vhd:609-615` says to mind a full fifo while the last
  word is transferred; `TransferOtherData` does, `TransferData` (line 829) does not while
  it skips padding. Full at the edge that fetches the last word leaves the packet pointer
  one word short, and the reader is off the start of every later frame.
* `bench_lines`: `tic_gui.py:86-87` says what the values of a line are; `wrpc_net_send`
  prints every stamp on the open line (`wrpc-socket.c:153`), so that after a Sync that does
  not come back, or an answered Delay_Req, a t1 is read as t4.

More disagreements are followed by the models and have no run of their own.

* `wrpc_net_init` (`wrpc-socket.c:187`) drops the failure of `wrpc_open_ch`; the retry in
  `state-initializing.c:22, 83` never acts on it, and MASTER is reached without a socket.
* The comment at `ipmux.vhd:154-156` takes a low ConnectReq for the acceptance of the
  packet. A request of the CPU lowers it as well: in Idle when the buffer is full
  (1250-1252), and on the way to AccessByCPU (1228). The packet connected in the meantime is
  read out of its fifo (100-103, 158) and stored nowhere. OnlyCpuLoses says that this is the
  only way to lose one.
* By the comment at `ipmux.vhd:1297-1298` a UDP checksum of 0x0000 is one that was not
  calculated, but a sum of all ones is written as 0x0000 too (line 1352).
* `edge_sfd.py:222` halves the tolerance; its documentation (lines 42-43, 152) and its
  warning (223) do not.
* The name of a waveform file has a resolution of a second (`LeCroy8254.py:142`), while the
  header of the histogram (`edge_sfd.py:302-303`) promises the waveforms of all delays;
  FilesKept says what remains true. Two runs that save in the same second write into one
  file at their own places (145-148) and may mix their channels; OwnWaveform and
  OneAcquisition have this exception.
* The UDP sum of `rx_buf2data` is not that of the datagram. Line 820 adds the first word of
  the destination MAC address to it, a stall drops the word before the one it holds up, and
  padding drops the last. Comments (`ipmux.vhd:834-835, 2360-2365`) say that the last data
  word is added and that an error is signalled for a packet; in fact it is signalled for
  every intact datagram to an address that does not begin with zeros or ones (ExcessSeen),
  and not when damage makes up for that word (OwnAccepted). The top level leaves
  `UDP_CheckSumErr` open (3094).
* The patterns are made for the first record. A later one that is shorter gives a wrong
  delay without a word (84 and then 70 samples, for instance), which is why DelayRight
  speaks of records that are not shorter.
* `delay_determination.py:21-22` says the functions are "rigorously checked for one off
  errors". For signals of odd length the axis of `correlate_circular` is one place too
  low (CircularFolds: lag zero stands at -1); the scripts cut records to an even length. `correlate_linear` with
  no length and a negative window (ten samples, shift 1, centre -9) does wrap around,
  against the comment in line 434; LinearOk asks for a window that is not negative.
  AMDF adds differences without their magnitude (446), `time_domain=True` shifts the
  unfolded correlation (501, 511), and the padded axis of `correlate_linear` ends one
  sample later than that of `correlate_circular`.
* The libraries make exceptions and do not raise them (`LeCroy8254.py:556, 565`,
  `pat_gen.py:36`): the caller gets None and fails at its first use.
* The table of time bases in `LeCroy8254.py:273-301` is wrong from 2 us/div on;
  `check_waveforms` only compares its values.
* Files of the Rohde & Schwarz library carry the tag and the name of the Keysight one, so
  that either reads the other's (WholeOrLess takes this into account). Their documentation
  says `#waveform_data:` where the three libraries write and read `#waveform:`.
* The last reading of a counter file that was cut may be read as another number
  (CounterBack).

## 5. Proofs

`T4Correction_proofs` shows for all radixes, raw stamps and bit slides that `IInv ==
TypeOK /\ Progress /\ ValuePreserved` is inductive. Progress is the strengthening: each
loop keeps the bounds that earlier loops established (ts_add must not undo ts_sub). From
it follow T4Normalised and T4Exact. The only assumptions are that the radixes are
positive and the inputs integers.

`CalMaster_proofs` shows for all intervals, widths, queue sizes and sets of frames that
`IInv == TypeOK /\ TimerInv /\ SlaveNeverMaster` is inductive. TimerInv relates the timer
and the history: in MASTER, once the entry call has been made, the ticks left and the
ticks passed add up to at least an interval; SyncSpacing alone is not inductive, since a
timer left behind may have elapsed at entry. SlaveNeverMaster includes LINK_ON, from
where MASTER is entered without looking at the role again. One lemma summarises the calls
in MASTER (MasterStep), one all others (OtherStep), and the theorems follow: TypeCorrect,
SlaveIsSilent, SyncsAreSpaced. CallPace, SourceInit and SourceStep lead to
ImplementsSource, the refinement of SyncSource. FramesAreStamped follows the text and the
frames of one call: `Covers(text, sent)` holds of nothing sent, is kept by whatever is
printed later (CoversMore), and every frame that is sent brings its stamp (CoversSent), so
it holds through the receive line, the Sync, the answer and the error line of every path.

The same module has a theorem about CalBench, ReadingsAreShort, for every length of a second
in ticks, every phase of the PPS at the start and either output, with any number of
disturbances. Its hypothesis is that PPS and Syncs have the same period, as they have in the
code (BenchAssumption allows a shorter PPS, for which the pairing holds but a reading may be
longer than a PPS period). `BenchInv` compares two clocks: while a pulse may still come, at
most one PPS was seen since the last pulse, and then less time has passed since that PPS than
since the last Sync (WaitInv). The tick that brings the next PPS therefore finds the counter
idle, or a Sync due that was not issued, which is the late firmware the property excludes.

Of the records the bench leaves behind, the two files that `tic_gui.py` pairs by position, it
shows T1AlwaysPaired, T4AlwaysPaired, T14AlwaysSameFrame and NothingEverDropped. The console's
text is a recursive function of the tokens printed (`Printed`); PrintExists, PrintSteps and
PrintUnique say that there is one and what each token does to it. `RecordInv`, inductive
together with BenchInv's types (RecordsKept), has these parts:

* RecordTypes: lines, readings and events have the shapes Rows relies on;
* CleanInv: the lines written before the first disturbance are whole, and stay so;
* ClockInv: where the timer stands against the phase of the PPS while none was disturbed;
* TicInv: there is a reading for each Sync (but the one still on the loop, for the receive
  side), with its number, in their order;
* WholeInv: without a disturbance the file has a line for every Sync issued, with its own t1
  and t4, and the Sync under way is on the open line;
* LedInv: when all that came were foreign frames that are not answered, every line begins with the t1
  of its own Sync, up to a line that has too few fields, where the reading ends.

The theorems follow by what the reader makes of such lines: RowIsOfLine (row n is of line n, as
long as no line before it ends the reading), OneTokenStops (a line of one stamp ends it) and
RowsAreWhole. None of the parts is inductive alone: that the next t1 opens a new line
needs that the t4 before it has closed one, which needs that no reading or Sync was
missed. The assumptions are those on the constants: intervals are positive, frames are of
the kinds the code tells apart (TimeAssumption, DataAssumption), and the PPS is not slower
than the Syncs (BenchAssumption).

`RxBuffers_proofs` shows for all sizes of memory, frames and headers that `IInv == TypeOK
/\ Begun /\ EndApart /\ NoStaleStop` is inductive. Begun, that a frame on the fabric is
one that was begun, is what keeps its words and its status within their types.
EveryStepClocks reduces the six actions of the fabric to one clock edge with arbitrary
signals, so that the writer, the memory, the reader and the pause logic are each treated
once. From it follow TypeCorrect (registers keep their widths, addresses are inside the
memory), EndsApart and StopsAreCurrent.

That nothing unread is overwritten needs the contents of the memory, since the reader finds
the end of a frame, and with it its next pointer, in the words it reads. `Contents` says
where the writer is in its frame, that the words written so far stand behind the packet
pointer as they came, that there is room for the rest of the longest frame, that every
unread word is followed by the rest of its frame up to the word with the end mark, and where
in its frame the reader is, with the word its output register holds. It is inductive without
regard to `sound`: a reader that lost its place is still on whole frames after the next end
mark, and CutsOnlyAtHead and NothingOverwritten follow for every run. `QueueInv` adds the
history: while `sound` holds, the unread words are the frames of `queue`, one behind the
other, each with the words due of it, and the reader's pointer is the start of the head
(InStepWhileSound). The refinement is proved by cases of the reader: it waits, or it is in a
frame and stays in it, or leaves it; each is a step of FrameStream or a stutter
(ImplementsStream). The arithmetic of the wrapping addresses is in `Ring_proofs`, a module
about a pointer into a memory of any size and offsets from it, which the proofs of the
transmit path use as well.

Assumed are SizeAssumption (two frames of the longest size fit, the offset's range is no
larger than the memory; the constants of `EMAC16bit_package.vhd:48-55` satisfy it) and
FrameAssumption (frames are no longer than the longest, and longer than their headers).

`TxBuffers_proofs` shows for any number of streams, all sizes and all packets that no stream
is starved (NoneIsStarved) and that only the CPU makes the hand-over lose a packet
(OnlyTheCpuLoses). The first rests on TurnInv: how often a stream was passed over and the
streams that may still come before it make up less than all of them; since the search skips
a stream without packets, it also needs that a stream is passed over only while it has one,
and hence that a packet is taken off the count only after its stream was connected. The
second rests on Hands, the handshake between the two state machines while the CPU has not
asked: `connected` is up only while TxStreamSel waits for the answer, and from the search
on tx_data2buf stays in Idle until then. CpuStep shows that having asked once is never
forgotten.

That a stream is read only with the end of its packet in the fifo (ReadsWholePackets) needs
the contents of the fifos. `StreamInv` says that the words that wait are those of consecutive
packets without gaps (InOrder), that every packet announced still has its end among them,
that the count of packets is what was written less what was connected (Counted), and that the
first word is of the packet served or begins the next one (Front). HeldStep and PlacesMove
follow one edge through the fifo and its output register, where words come in at one end and
leave at the other.

`StoreInv` takes the packet from there to the memory. Waits, Reads and Ends are the three
phases of the hand-over, each with the word on its way and the address it belongs to. DataInv
says that the data so far are behind the headers' place, HeaderInv which words are in place
while the headers are written (Done: the checksum of the IP header comes after the header it
belongs to), PortInv the same of a frame the CPU writes; so the packet pointer moves over a
frame that is whole (StoredFrame). RoomInv, that a packet is accepted only when the longest
frame fits, together with the bound on the address in each state (OffsetFits) gives
NothingOverwritten. `QueueInv` says that the frames stored and not yet sent lie one behind
the other between the two pointers (Chain) and what is due of each; `ReadInv`, where
tx_pkt2mac is in the first of them, and that the word on the fabric is the one before its
address. A frame put at the end and one taken at the front keep the chain (ChainGrows,
ChainTail), a word written ahead of it does not touch it (ChainKept). From their conjunction
`TxInv`, inductive by FramesHold, every edge is a step of FrameStream or a stutter
(ImplementsStream), with the CPU asking whenever it likes.

Assumed are SizesAssumption and PacketsAssumption: a frame of the longest size is shorter
than the memory, the packets with their headers are no longer than that, and the headers have
their words. NoneIsStarved and OnlyTheCpuLoses need of it only that there is a stream and
that the CPU is not one.

`Checksum_proofs` shows for all widths and numbers of words below a word's range that the
receiver's test is passed by the sums that OwnAccepted names and by no others that ExcessSeen
names. `IInv` bounds the upper half of a sum by the number of words, since it counts carries,
and says (Drifted) how far the two sums are apart: until the checksum is written, the
receiver's with the word in `Din` that is still to be added is larger by Excess, spread over
the halves by two carries at most (Drift); afterwards its halves add up to all ones and the
excess, but for multiples of all ones (Settled). CheckCompletes is the arithmetic of the
transmitter: the bound keeps the second addition of Fold from overflowing, and complementary
halves have no carry to drop. DriftGrows and DriftSettles carry the distance through a word
and through the checksum, AddCommutes through the delay of `Din`. From it follow TypeCorrect,
OwnAlwaysAccepted and ExcessAlwaysSeen. Assumed is WidthAssumption, satisfied by any frame.

`EdgeMeasure_proofs` begins with the operators of DelayDetermination, for signals of any
length and any contents. WindowInside is the index arithmetic of `correlate_linear`: as long as the window
fits, both slices have its length, no index of signal 2 passes the end, and the samples
that meet for k are center - k apart. It needs the two cases of `shift + center < 0`, and in
each the bound that the window leaves. TurnCorrelates turns it into a sum over lags,
PaddingKeeps shows that zero padding moves no value to another delay, and LinearCorrelates
combines them. CircularFolds says which two items of the full correlation each place holds
and at which delay it stands, for even and for odd lengths; AxisPlace is the lemma about
shift and axis. CircularTurns says what the two add up to: for signals of the same even
length, the sum over one turn at the lag of the place. It needs lemmas about sums, which are
recursive functions: that SumTo grows by the next item (SumOfMore, from the function of the
partial sums, which SumsExist shows to exist), that a sum has two parts (SumInParts), and
that items alike have the same sum. TurnMeets says which part of signal 2 a turn meets,
before k its end and from k on its beginning. Induction is over sets of numbers
(SetInduction, from the least element of a set that is not empty), since the library's
induction theorem takes an operator as a parameter.

Of EdgeMeasure it shows, with the invariant SameLength, that the two waveforms
correlated with each other are arrays of the same length, that LinearRight holds in every
run of the scripts over any set of records (LinearAlwaysRight), with CircularInv that the
pulse and the pattern it is compared with are arrays of an even length, the pattern made at
the first record and kept, so that CircularRight holds as well (CircularAlwaysRight), and that
a tolerance given survives every order of options (GivenToleranceKept). The latter assumes
that it is not the default tolerance itself: the code tells "not given" by that value, so
that a user who gives exactly 1.0e+9 has it replaced with `-d`.

`ScopeRun_proofs` shows for any number of runs in one directory, any number of
measurements, averages and channels and any clock that ScopeInv is inductive. Its parts say
that while a script waits for sweeps, those seen and the polls left make up the averages;
that no trigger is possible while it fetches, because the single acquisition it armed has
ended and is disarmed; that what it fetched so far is of one screen with enough sweeps; that
every block in a file is of a complete acquisition of a save on record for its name, the
blocks of one run all alike (Sound, Pure); and that the blocks a save has written are still
there unless another save had its name (SaveStands). OthersStill says
that a step of one run leaves the state of the others alone, except through the directory;
OwnStep, OpenStep and SaveStep treat the steps of the script itself. From it follow
AlwaysOneAcquisition, WaveformsAreOwn and FilesAreKept. Assumed is ScopeAssumption only.

Model-checked only: the liveness properties and `IsFairSource` (fairness is out of the
prover's reach); the properties of WaveformFile, which are about folds over the lines of a
file, so that a proof would be an induction over data with an operator as a parameter;
DelayRight and FailsForAReason of EdgeMeasure, which depend on the shape of the signals,
that is on where the correlation of a pulse or of the frame has its single highest sample.

## 6. What is not modelled

*Python.* Statistics, plots and the windows of matplotlib. The spline: any position between
the neighbours of a maximum stands for it. Noise on the signals: they are exact, and floats
are rounded only as far as equal values go. In `delay_determination.py` the classes from line
687 on (`delay_from_waveform` and what follows) are unfinished: they name classes and
attributes that do not exist, and nothing uses them. `correlate_mathematical_eth_sfd` of
`edge_sfd.py` and `get_sweeps` of the libraries are never called. `docopt.py` is third-party
code; the limit of ten arguments in `edge_sfd.py:251` cannot be passed with the options
docopt accepts. The commands that set up the counter.

*Firmware.* Several VLANs; the BMC and servo of ppsi, which are not in this repository; the
main loop, of which only the polling appears. `prev_link_state` starts at -1 there
(`wrc_main.c:112`), so that a link that is up at boot is not reported as gone up. Stamps are
abstracted to the frame they belong to outside T4Correction; hence neither the seconds
`tic_gui.py` reads and does not use (line 142: t4 - t1 of a Sync that crosses a second is
off by one) nor the stamp of a frame that was not sent (`wrpc-socket.c:149`, whatever the
stack held) has a property. The wait for `*OPC?` (`LeCroy8254.py:106`) has no timeout of its
own, and RunEnds assumes triggers.

*Gateware.* Flush of a stream's fifos in the middle of a packet (`ipmux.vhd:265`: EOD never
comes and `tx_data2buf` waits), a CPU that takes its request back without a frame (1555),
a watermark edge that comes with the acknowledge of an earlier request (967, lost, because
the level is tested and not the edge), resets, and the registers' Wishbone decoding.
Generated HDL databases and vendor wrappers carry no logic of the project's own.

A frame's arrival, the counter and the oscilloscope are external: they are modelled by how
the code uses them.
