# A TLA+ model of libTPM

libTPM is a small C library through which firmware talks to a discrete TPM 2.0
over SPI: it obtains a locality, builds a TPM command in a 256-byte buffer,
pushes it byte by byte through the TPM's FIFO registers, and reads back the
response. This directory holds TLA+ modules for its layers, TLC runs on small
instances, and TLAPS proofs of the properties that matter most.

All line numbers refer to the sources under `src/`.

## 1. Inventory

The library is single-threaded and keeps very little state; what makes it hard
is that the other side does not wait for it. The TPM, the other software that
uses the TPM at another locality, and the other masters of the SPI bus move
between any two register accesses; every register access may fail, before or
after it had its effect; every wait has a deadline.

| Component | Source | State | Operations |
|---|---|---|---|
| SPI register transport | `src/src/tpm2_fifo_spi.c` | `tpm_last_transport_error`; the bus and the chip select while a transaction runs | `tpm2_fifo_write_byte`, `_read_byte`, `_read_chunk`, all through `tpm2_fifo_io` |
| FIFO interface | `src/src/tpm2_fifo.c`, `tpm2_chip.c` | `chip_data->locality`; loop variables of a running call; the TPM's command state | `request_access`, `release_locality`, `prepare`, `get_burstcount`, `send`, `receive`, `get_info` |
| Command dispatch | `src/src/tpm2_cmds.c` 64-119 | `interface` | `tpm_interface_init`, `tpm_interface_close`, `tpm_xfer` |
| Command builder | `tpm2_cmds.c` 23-62, 121-179 | a `tpm_cmd` and `error_state`, on the caller's stack | `tpm_cmd_init`, `tpm_update_buffer`, `tpm_builder_finalize` |
| Command functions | `tpm2_cmds.c` | none of their own; PCRs live in the TPM | `tpm_startup`, `tpm_pcr_extend`, `tpm_pcr_read*`, `tpm_pcr_allocate*` |
| GetCapability | `tpm2_cmds.c` | iterator over a response; page counter | `iter_read_*`, `parse_*`, `query_*`, `has_alg`, `get_alg_props`, the `for_each` loops |
| POSIX timer | `src/src/timer/posix_timer_ops.c` | none (reads the OS clock) | `timeout_init_us`, `timeout_elapsed` |
| Logging, headers, build files | `include/debug.h`, `CMakeLists.txt`, ... | none | - |

Interactions: a command function builds a command, calls `tpm_xfer`, which calls
`send` and `receive` of the FIFO interface, which calls the register transport
once per byte or status poll, which calls the platform's `tpm_spi_ops`. Only the
`for_each` functions call back, into a function of their caller. The layers share `chip_data->locality`, `tpm_timeout_ops` and
`tpm_last_transport_error`.

What is hard, and what makes each layer correct (`PROJECT.json` lists the hazards
with their lines):

* **Transport.** Every exit gives the bus back, and none gives back a bus it did
  not get; a TPM that ends its wait state on the last poll is served; a failed
  transfer may have reached the TPM; the recorded error belongs to the failure.
  To the FIFO layer the whole transaction is *one* access of the named register.
* **FIFO interface.** A call that fails half way leaves the TPM receiving,
  executing, or holding an answer. The next call must neither complete the
  half-sent command nor take the late answer for its own. The burst count is read
  in two halves. A locality obtained stays the one addressed.
* **Builder.** The buffer fills up in the middle of a command while the command
  functions ignore what `tpm_update_buffer` returns; lengths are declared apart
  from what they cover; byte order differs between fields.
* **Command functions.** A call that failed may take effect later, when the caller has
  already repeated it or gone on; response buffers that are not initialised, outputs
  written before it is known that all of them are there.
* **GetCapability.** Lists longer than a page; loops that stop at the largest
  identifier asked for; pages that are cut short, repeated, or announce more for
  ever; results written into the caller's query before a later entry turns out to be
  missing.
* **Timer.** The register is read and the clock is read, and the thread may be kept
  from running between the two.

## 2. Modules

| Module | What it is |
|---|---|
| `RegisterAccess` | Abstract: a register access is performed at most once; success means performed, timeout means not performed, transport error leaves it open. |
| `SpiTransport` | `tpm2_fifo_spi.c`, one step per platform call. Implements `RegisterAccess`. |
| `CommandChannel` | Abstract: commands run one at a time and at most once; a call that succeeds returns its own answer; a call that fails says nothing. |
| `FifoInterface` | `tpm2_fifo.c` under init, close and `tpm_xfer`, one step per register access, each of which does what `RegisterAccess` allows. Implements `CommandChannel`. |
| `CommandBuilder` | The builder and the fields each command function adds, with a TPM that unmarshals the result. |
| `PcrCommands` | What `tpm_startup`, `tpm_pcr_extend`, `tpm_pcr_read_single` and `tpm_pcr_allocate_auth_password` make of responses. Built on the actions of `CommandChannel`. |
| `GetCapability` | The six GetCapability functions: paging, parsing, callbacks. |
| `PollTimer` | One wait loop of `tpm2_fifo.c` over `posix_timer_ops.c`. |
| `MC*` | Instances for TLC. |
| `*Proofs` | Theorems about the module of the same name; `FifoRefinementProofs` continues `FifoInterfaceProofs`. |
| `SumLemmas` | Induction over the natural numbers and sums of sequences, for the proofs. |

The layers compose through the abstract modules: `FifoInterface` uses of the
transport only what `RegisterAccess` states (`AccessFails`: failed and not
performed; `LateError`: performed and reported as failed). `PcrCommands` extends
`CommandChannel` and performs each of its actions jointly with a step of the command
functions or of the TPM's PCRs, so what it shows rests on `tpm_xfer` only through
what `FifoInterface` is shown to implement. `PollTimer` discharges the fairness that
`FifoInterface` assumes of its deadlines, and `FifoInterface`'s `CallReturns` the one
that `GetCapability` assumes of transfers.

### SpiTransport

`pc` is the position in `tpm2_fifo_io`; `rc`, `retries`, `lastErr` are the C
variables. `owner` and `cs` are the bus and the chip select; `slave` and `target`
the SPI side of the TPM (in its wait state or open, and the access it decoded from
the header); `performed` the accesses the TPM performed in this call. `polls` and
`fault` only record history for the properties. `GetAccess`, `Start`, `Stop` and
`ReleaseAccess` are the four platform operations, `SendHeader`, `PollWaitState` and
`TransferData` the transfers, and each `...Fails` the same call returning an error.
The header bytes are modelled as the code computes them, because a wrong encoding
addresses another register. The payload is not: an access is its direction,
register and length.

### FifoInterface

`pc` names the register access that comes next. `fr` holds the locals of the
running call: `len`, `index`, `burst` of `tpm2_fifo_send`, `size` and `expected` of
`tpm2_fifo_receive`, `lo` the first half of a burst count, `part` which of the
transfers is running. `hdr` and `data` are the response buffer; `data` has the
cells behind the end of `data[]` too, so that a store there can be seen. A byte is
a pair: the command it belongs to and its position.

| Action | Code |
|---|---|
| `InterfaceInit`, `RequestUse`, `ActiveLocality`, `GetInfo` | `tpm_interface_init`: `request_access`, its wait, and the two reads of `get_info` |
| `InterfaceClose`, `ReadAccess`, `Relinquish` | `tpm_interface_close`: `release_locality` |
| `Xfer`, `ReadStatus`, `Prepare`, `WaitReady` | start of `tpm_xfer`: the ready test and `tpm2_fifo_prepare` |
| `WriteHeader`, `BurstLow`, `BurstHigh`, `WriteData`, `WaitValid`, `WriteGo` | the rest of `tpm2_fifo_send` |
| `WaitAvail`, `BurstLow`, `BurstHigh`, `ReadData`, `HeaderReceived` | `tpm2_fifo_receive` with `tpm2_fifo_read_data` |
| `WaitTimesOut`, `BurstTimesOut`, `AccessFails` | deadlines and failing accesses, at every place they can happen |

A poll that fails either stays where it is or, since the deadline may have passed,
returns `ERR_TIMEOUT`; a poll that sees its bits goes on. A failed call blanks the
response buffer, since no caller looks at it then. `asked` is history: the
localities that an init has asked for and no successful close has given up since.

The TPM (`active`, `pending`, `dst`, `rx`, `rsp`) is external. It is modelled from
how the code uses it and from the TCG PC Client Platform TPM Profile the sources
follow:

* a register of a locality that is not active reads all ones and ignores writes;
* COMMAND_READY aborts whatever the TPM is doing; relinquishing does too;
* EXPECT is meaningful in a read that shows VALID, COMMAND_READY and AVAIL always;
* the TPM offers at least a header as a response, and chooses the burst count
  anew at each read of each half; when the header declares less than itself, the
  TPM may offer bytes behind it, and `tpm_xfer` then succeeds, or none, and it
  times out;
* the other agent uses a locality of its own and no seize request.

### CommandBuilder

One step per builder call, with the real sizes 10 and 256. `Fields` lists the
values and lengths a command function passes to `tpm_update_buffer`, in order;
`ArgumentsOk` the checks it makes before. Tag and command code are identified with
the name of the command. A call is a record of its arguments with the widths the
prototypes give them (`StartupCall` to `AllocateCall`); `null` says that a pointer the
function checks is NULL. `TpmUnderstands` is external: what a TPM finds when it
unmarshals the bytes, written from the layout of the commands rather than from the
builder.

### PcrCommands

Each call is numbered, and the variables of `CommandChannel` say what became of its
command. `cmd` is what a call asked for and `rets` what it returned; `buf` is
`pcr_digest_read` (how many bytes were copied, how many of those were never received,
and the PCR value they show), `outs` the outputs of the allocation that were written.
The TPM (external) has `started`, one `pcr` whose value is the sequence of the calls
that extended it, and `rsp`, its last response, with a size that may be smaller or
larger than it should be. `Startup`, `PcrExtend`, `PcrReadSingle` and `PcrAllocate` are the
functions up to `tpm_xfer`, `XferFails` and the `...Returns` actions the rest of them.
`ReadCode` has the checks of `tpm_pcr_read_single` in their order. A PCR index above 23 is
refused before the caller's buffer is cleared; `CommandBuilder` has that check, and
`PcrCommands` starts behind it. A failed `tpm_xfer` returns `ERR_TRANSFER`, `ERR_TIMEOUT`
or, for a response larger than the buffer, `INVALID_PARAM`; the `TPM_ERR_RESPONSE` at
`src/src/tpm2_fifo.c:392` is never reached, since the read before it ends only once
`size` has reached `bytes_expected`.

### GetCapability

`pc` is `request` before `getcap_raw`, `entries` in the loop of a parser, `done` between
calls. `loop` holds `property`, `last_alg` or `last_hash`, and `pages_used`; `page` is the
response, `remain` the iterator, `parsed` the loop index. `query` is the caller's array;
`out` the outputs of `tpm_has_alg` and `tpm_get_alg_props`. A value (`enabled`, a PCR
selection, a property mask) is a set of bits. A page is not a byte string: it has its
size in bytes, its declared count and the entries written to it, and each `iter_read_`
of an entry compares its size with what is left. One step parses one entry, since the
reads of an entry either all succeed or end the call.

| Action | Code |
|---|---|
| `QueryAlgs`, `QueryPcrs`, `HasAlg`, `GetAlgProps`, `ForEachAlgProps`, `ForEachPcrBank` | the API functions up to their first request |
| `PageLimit`, `XferFails`, `SoundAnswer`, `DamagedAnswer` | the head of the page loop with `getcap_raw` and `getcap_payload_start` |
| `ParseAlgs`, `ParsePcrs`, `ParseAlgsFind`, `ParsePcrsFind`, `ParseAlgProps`, `EntryRejected` | one entry of the parsers |
| `EndOfPage` | the end of a parser and the tail of the page loop |

The answers are external. A sound answer lists what the TPM implements: algorithms in
ascending order from the property asked for, in pages as short as the TPM likes; PCR
banks all at once in any order. A damaged answer lists any sequence of true entries,
repeated or out of order, with a count that may be one too large, a size that may be
too small, and any `more_data`. An answer that does not fit the buffer (`MAX_CMD_DATA`)
never reaches a parser: `tpm2_fifo_receive` refuses it, which is `XferFails`, and
`RawSucceeds` has the checks of `getcap_raw` itself. `clean` records that a call saw neither a damaged page
nor a failed transfer; the properties that promise exact results assume it, the others
do not.

### PollTimer

`now` is the clock in nanoseconds, which `GetTimeUs` splits into seconds and nanoseconds
and puts together again as `get_time_us` does. `TimeoutInit`, `ReadRegister` and
`CheckDeadline` are the steps of the loop; `TimePasses` (by any amount) and `TpmMoves`
happen between any two of them. `start`, `usec`, `reads` and `late` are history.

## 3. What TLC checks

| Run | Configuration | Shows |
|---|---|---|
| `spi_transport` | `MCSpiTransport.cfg` | `BusDiscipline`, `TimeoutUsesWholeBudget`, `LastErrorExplains`; the transaction implements `RegisterAccess`; every access returns |
| `fifo_interface` | `MCFifoInterface.cfg` | `AtMostOnce`, `SuccessMeansAnswered`, `HeldWhileOpen`, `ClosedMeansReleased`; the transfers implement `CommandChannel` |
| `fifo_liveness` | `MCFifoLiveness.cfg` | `CallReturns` |
| `fifo_recovery` | `MCFifoRecovery.cfg` | `NextXferRecovers`: whatever a failed transfer left behind, the next one that meets no fault succeeds |
| `fifo_overread` | `MCFifoOverread.cfg` | `StoresInBounds` is violated (section 5) |
| `command_builder` | `MCCommandBuilder.cfg` | `InBounds`, `SentMeansUnderstood`, `RefusedOnlyIfTooLong` |
| `pcr_commands` | `MCPcrCommands.cfg` | `ExtendsInOrder`, `ReadIsCurrent`, `ReadNeverLeaks`, `StartupKnown`, `AllocateAllOrNothing` |
| `get_capability` | `MCGetCapability.cfg` | without faults exact results (`QueryExact`, `AlgPropsExact`, `EachVisitedOnce`, `LimitMeansManyPages`, `SoundAnswersAccepted`); with faults nothing false (`NothingInvented`, and the iterator bound in `TypeOK`) |
| `get_capability_liveness` | `MCGetCapabilityLiveness.cfg` | `CallEnds` |
| `poll_timer` | `MCPollTimer.cfg` | `TimeoutNotEarly`, `OneLatePoll`, `WaitReturns` |

Definitions that a comment calls a *Fault* are plausible mistakes in the code,
kept beside the definition they alter; substituting one for its neighbour breaks
the property named in `PROJECT.json`.

### Bounds

* **SPI.** `RETRY_COUNT` is 3 instead of 50: a first, a middle and a last poll. The
  registers cover both bytes of the address and the address that locality 255 maps
  to; the lengths include ones that `read_chunk` refuses and one beyond the header's
  field. Two error codes are enough to confuse an old and a new one. The proofs
  remove these bounds.
* **FIFO.** A header of 2 and a buffer of 6 bytes stand for 10 and 256: the loops
  have a first, a middle and a last byte, and the rest of a response is longer than
  the header, so the over-read can reach behind the response and behind the
  buffer. Commands have only a header or a header and data; responses are shorter
  than a header, exactly a header, medium, as large as the buffer, and one byte too
  large. A burst-count register has 2 values (4 in `fifo_overread`), so counts are
  0, 1, 2 and 3 and a torn count occurs. `MaxCalls` = 2: a call and what an earlier
  one left behind. Two localities of the caller and one of the other agent.
* **Builder.** Every command with lengths that end just below, at and just above the
  end of the buffer, 0 to 8 banks, PCR indices at the byte boundaries. 32-bit values
  stay below 2^31, TLC's largest integer.
* **FIFO recovery.** One locality and a buffer of 5 bytes; two calls, a first that may
  fail anywhere and a second that meets no fault.
* **PCR commands.** Three calls, of any functions in any order: one that failed, one that
  may overtake it, one that looks. Banks with digests of 20, 48 (`MAX_DIGEST_SIZE`) and
  64 bytes, buffers of 20 and 48, responses 1, 4 or 20 bytes too short or too long.
* **GetCapability.** Identifiers 0 to 4 with `TPM_ALG_NULL` = 2 in their middle, two bits for
  three bytes of a selection, pages of 2 entries, 3 pages, queries of at most 3 entries
  with the terminator. Six TPMs: nothing, one entry, entries with gaps, more entries
  than pages, a short selection and one that is too long. The queries are ascending,
  descending, repeated, unknown, empty, not terminated, and continued behind the
  terminator. Damaged pages hold up to 2 entries and lack 0, 1, 5 or 12 bytes: in the
  last entry, all of it, or in the fields before it. The liveness run has two of the
  TPMs and two of the queries.
* **Timer.** 3 ns per microsecond and 4 microseconds per second, so that both parts of a
  `timespec` wrap within a wait; time-outs of 0, 1, 3 and 5 microseconds from any start
  up to just after the first second. The clock stops after every deadline has passed.

### Fairness

Safety runs assume none. `AccessReturns` assumes weak fairness of the thread inside
`tpm2_fifo_io`: a running thread keeps running. Waiting for the bus is the
platform's business; `get_access` takes it or returns an error. `CallReturns`
assumes weak fairness of the library thread and strong fairness of `BurstTimesOut`:
in `tpm2_fifo_get_burstcount` the clock is looked at after each zero count, and the
clock passes the deadline at some point however often the TPM answers zero. The
waits for a status bit need no more than weak fairness: they either see the bit or
may time out in every state. Neither the TPM nor the other agent is assumed to do
anything. `WaitReturns` justifies the assumption on deadlines: with weak fairness of the
thread and of the clock the loop over `timeout_elapsed` ends, however the register
changes.

`NextXferRecovers` says what happens when nothing goes wrong, so `CalmSpec` has to say
that: during the last transfer (`LastXfer`) no access fails and no deadline passes, the
thread keeps running, the TPM becomes ready and executes (weak fairness), and a nonzero
burst count is read at some time (strong fairness). Everything before the last transfer
is as in `Spec`.

`CallEnds` assumes weak fairness of the call, which includes that each transfer ends
(`CallReturns`). The TPM may repeat itself and announce more for ever.

## 4. What is proved

TLAPS checks these for every value of the constants that satisfies the stated
assumptions.

**`SpiTransportProofs`** (`SpiAssumption`: 16-bit registers, lengths below 256,
nonzero error codes, a positive `RETRY_COUNT`, 64 encodable bytes).
`TypeCorrect`, `BusIsGivenBack`, `TimeoutBudget`, `LastErrorIsTheFault` and
`SpiImplementsRegisterAccess`. The inductive invariant `IInv` adds three parts to
the properties. `PollInv`: polls made and retries left add up to `RETRY_COUNT`.
`FaultInv`: an error ends the transaction, so the code recorded is still there when
it returns. `AccessInv`: what the TPM decoded is what was asked for (lemma
`HeaderDecodes`: decoding the header gives the request back) and nothing is performed
outside the data phase. The refinement maps data transfers to `Perform`, the two ways
back to `idle` to `Finish`, and everything else to stuttering.

**`FifoInterfaceProofs`** (`FifoAssumption`: any sizes with a nonempty header smaller
than the buffer, commands between the two, any response sizes, any radix above 1,
any number of calls).

* `TypeCorrect`, from `FrameInv`, which says location by location what the locals of
  the running call are. It is needed because `index` stays in the buffer only since
  the loops leave it below `len`.
* `LocalityHeld`. `HeldWhileOpen` alone is not inductive: `Relinquish` preserves it
  because a locality that is being given up has already been closed (`HeldInv`).
* `CloseReleases`. `ClosedMeansReleased` (the library holds or has requested only
  localities that were `asked` for) needs `ReleasedInv`: while an init is about to write
  its request or waits for the grant, its locality is in `asked`.
* `CommandsAtMostOnce`. `AtMostOnce` needs `ExecInv`: the TPM leaves its idle state only
  for the locality the library addresses (`OwnerInv`); what it is executing is one whole
  command that has not run (`ReceivedInv`); and the command being submitted has not
  run, while an earlier one may still be running until `tpm2_fifo_prepare` aborts it,
  after which the TPM holds exactly the bytes sent so far (`SubmitInv`).

**`CommandBuilderProofs`** (`BuilderAssumption`: a header smaller than the buffer;
`CommandsAssumption`: any calls whose arguments have the types of the prototypes and whose
array of banks does not end before the loop over it does). `Offset` says where each field
of a command lies. `ProgressInv` is the core of the invariant: as long as there is no
error, the fields added so far are in `data[]`, big-endian and at their offsets, and
`cmd_size` ends with the last of them; after an error the whole command cannot fit, since
offsets only grow. `BufferInv` adds that the store loop stays inside `data[]`.

* `TypeCorrect` and `BuilderStaysInBounds` follow directly, with `StoreInside`: whenever the
  overflow check lets the store loop run, it writes inside `data[]`.
* `RefusedIfTooLong` needs that the lengths of the fields add up to `Needed`.
* `SentIsUnderstood`: `SentIsStored` says that all the fields lie in `data[]` when `tpm_xfer`
  gets the command. `StoredConcat` takes a command apart into its fixed fields, byte arrays
  and banks; `Uint8IsRead`, `Uint16IsRead`, `Uint32IsRead` and `BytesAreRead` say that a TPM
  reads back what was added. `BanksCounted` shows that the loop over the banks counts those
  before the terminator, `BanksLayout` that they follow each other six bytes apart, and
  `OnlySelected` that the three bytes of `pcr_bitmask` select one PCR.

**`FifoRefinementProofs`** (the same assumption, on top of `FifoInterfaceProofs`).

* `SuccessIsAnswered`. `ReceiveInv` says what tpm2_fifo_receive can find at each of its
  locations (`AnswerInv`): the TPM lost the command and every read returns ones, so the
  declared size is refused; or it is still executing; or it holds the answer to *this*
  call, has handed out exactly the bytes counted so far, and these are in the buffer.
  `Received` looks only at bytes below the declared size, so the over-read of section 5
  does not disturb it: the bytes stored too many lie behind the response.
* `XferImplementsChannel`. Each register access is one step of `CommandChannel` or a
  stutter: the write of GO is `StartCommand`, the TPM's completion is `Execute`, a
  COMMAND_READY or a relinquish that hits a running command is `Abandon`, the returns are
  `Succeed` and `Fail`. `BusyLaw` and `StatusLaw` say how the mapped variables follow from
  the detailed ones. The theorem covers the safety part, which is all of `ChanSpec`.

**`PcrCommandsProofs`** (`PcrAssumption`: any number of calls, any digest and buffer sizes,
any damage to the response sizes). `UsesChannel` shows that the command functions take
only steps of `CommandChannel`, so what they are proved to do rests on exactly what
`XferImplementsChannel` provides. `ChanInv` states the order that the channel implies: what
the TPM is executing is younger than everything it has executed, and only the running
call is submitted. From it follow `EffectInv` (the PCR's value is the increasing sequence
of executed extends, and the response the TPM holds agrees with it) and `ResultInv` (what
calls returned agrees with what the TPM has done). `ExtendsOrdered`, `ReadsCurrent` and
`StartupIsKnown` are consequences. `OutputInv` gives `ReadsNeverLeak` and
`AllocatesAllOrNothing`: the size comparisons alone keep the copies inside what was
received, whatever the response claims.

**`GetCapabilityProofs`** (`GetCapabilityAssumption`: 16-bit identifiers, any TPM, any
queries that do not end before the loops over them, any page and query limits). The
invariant speaks of `Seen`: the properties below the one now asked for, and those read of
the page at hand. `QueryInv` and `VisitInv` say that the caller's array and the callbacks tell
exactly what was seen; `PageInv` that a sound page lists what follows without a gap;
`LimitInv` that every page brought at least one property, so that the pages used are at
most as many as the properties passed; `SizeInv` that the bytes left in the iterator are
the sum of the entries left. `QueriesAreExact` then needs that a query which stops at the
largest identifier asked for has seen all it asked for, `VisitsOnce` that nothing remains when a page
announces no more. `InventsNothing` and `TypeCorrect` hold for damaged pages too.
`SizeInv` is about a sum, written as a recursive function. What it computes is proved from
`LeastElement` and `SetInduction` of `SumLemmas`, which state induction for a *set* of
numbers and follow from the well-foundedness of `<`.

**`PollTimerProofs`** (`TimerAssumption`: any division of the clock, any time-outs, a model
clock that runs past every deadline). `TimeIsRounded` and `TimeIsMonotonic`: seconds and
nanoseconds put together are the clock in whole microseconds. With `DeadlineInv` (the
deadline stays the one computed at the start) and `PollInv` (the loop goes back to the
register only before the deadline) follow `NotEarly` and `AtMostOneLatePoll`.

Only model-checked: liveness and everything under fairness (`AccessReturns`, `CallReturns`,
`NextXferRecovers`, `CallEnds`, `WaitReturns`), which is beyond this prover.

## 5. Finding

`tpm2_fifo_read_data` (`src/src/tpm2_fifo.c:345`) stops on `loop_index < read_size`. For
the rest of a response `loop_index` counts from 0 in `data[]`, while `read_size` is the
size of the whole response, header included. With a burst count that spans the end
of the response the loop reads up to `TPM_HEADER_SIZE` bytes too many, and for a response
of more than `MAX_CMD_DATA` - although line 373 accepted it as one the buffer can store -
stores them behind `data[]`. `fifo_overread` shows it with a response as large as the
buffer. A TPM that offers a burst count no larger than what is left of the response
never triggers it. `fifo_interface` shows that the bytes of the response itself are
not damaged: `SuccessMeansAnswered` holds with the same loop.

## 6. Notes, and what is not modelled

Behaviour that is in the model and worth knowing, but contradicts no statement of
the repository:

* A `tpm_interface_init` that fails keeps its request pending, or its locality, and the
  other localities out, until `tpm_interface_close`.
* The header is written without asking for a burst count, and AVAIL is used
  without VALID.
* After `ERR_TRANSFER` because the TPM still expects data, no transport error is
  recorded, so `tpm_get_last_transport_error` returns an older code.
* `tpm_get_alg_props` does not look at the count. For an algorithm behind all those
  the TPM lists it returns `ERR_RESPONSE`; for a missing one before the last it returns
  success and "not supported" (`SoundAnswersAccepted` and `AlgPropsExact` say which).
* `tpm_has_alg(TPM_ALG_NULL)` answers "not supported" without asking the TPM, since the
  identifier ends its own query.
* A GetCapability query that fails leaves entries of the pages before in the caller's
  array. They are true, but the zeros beside them mean nothing.
* A `tpm_pcr_extend` that failed may have extended, and repeating it may extend twice.
  Once a later call has succeeded, no earlier command takes effect any more.
* A thread that is preempted between the register and the clock returns `ERR_TIMEOUT`
  although the bits came in time; the register is not read again after the deadline.
* `TPM_FIFO_REG_BURST_COUNT_HI` is 0x20; register offsets are names in this model, so
  it says nothing about them.

Not modelled: payload bytes on the SPI bus; the values of VENDID and REVID, which are
only logged; a NULL interface pointer, and the checks of NULL pointers in the iterator,
the parsers and the GetCapability functions (each is one early return; those of the
command functions are in `CommandBuilder`, as `null`);
`get_timer_value_impl`, which nothing calls; the 2^64 microseconds after which the clock
wraps; the values of digests, passwords and properties beyond what tells two of them
apart; logging; build files. A timer other than the POSIX one is only assumed to let
deadlines pass. No property covers the transport error that `ERR_TRANSFER` leaves
unchanged when the TPM still expects data (`src/src/tpm2_fifo.c:295`): the header does
not say which failures record one.

## 7. Plan

Done: all layers of the library are modelled, the transport and the transfers with
abstract specifications; every invariant and every safety property the passing runs check
is proved as a theorem of section 4.

Left: nothing of what is modelled, apart from liveness.
