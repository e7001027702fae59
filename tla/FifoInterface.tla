--------------------------- MODULE FifoInterface ----------------------------
(***************************************************************************)
(* tpm2_fifo.c under tpm_interface_init, tpm_interface_close and tpm_xfer  *)
(* of tpm2_cmds.c: how a locality is obtained and given up, and how one    *)
(* command is sent and its response received, byte by byte.                *)
(*                                                                         *)
(* Every register access is one step.  SpiTransport shows what a step may  *)
(* do (RegisterAccess): it succeeds and is performed, or fails with        *)
(* ERR_TIMEOUT and is not performed, or fails with ERR_TRANSFER and may    *)
(* have been performed.  The TPM and another agent move between any two    *)
(* steps.  A poll and the clock check behind it are one step, since the    *)
(* register is not read again between the two.                             *)
(*                                                                         *)
(* External: the TPM behind the registers, as the code uses it and the TCG *)
(* PTP specification the sources cite describes it: a locality that is not *)
(* active reads all ones and its writes are ignored; COMMAND_READY aborts  *)
(* whatever the TPM is doing.  The other agent uses a locality of its own. *)
(***************************************************************************)
EXTENDS Naturals

CONSTANTS
    Localities,     \* localities the caller passes to init and close
    OtherLocality,  \* locality of the other agent
    HeaderSize,     \* TPM_HEADER_SIZE (10 in the code)
    BufSize,        \* MAX_SIZE_CMDBUF = sizeof(tpm_cmd) (256 in the code)
    CmdSizes,       \* command sizes the builder produces
    RspSizes,       \* sizes a response header may declare
    Radix,          \* values of one burst-count register (256 in the code)
    MaxCalls        \* bound: number of commands the caller issues

NoLocality == 255   \* chip_data->locality before the first init: (uint8_t)-1

ASSUME FifoAssumption ==
    /\ Localities \subseteq 0 .. 4
    /\ OtherLocality \in (0 .. 4) \ Localities
    /\ HeaderSize \in Nat \ {0}
    /\ BufSize \in Nat /\ HeaderSize < BufSize
    /\ CmdSizes \subseteq HeaderSize .. BufSize
    /\ RspSizes \subseteq Nat
    /\ Radix \in Nat /\ Radix > 1
    /\ MaxCalls \in Nat

Calls == 1 .. MaxCalls

VARIABLES
    pc,         \* location in the library; "idle" when no call is running
    op,         \* the API function running or last returned
    ret,        \* what the last call returned
    ready,      \* the interface pointer has been set by tpm_interface_init
    locality,   \* chip_data->locality
    calls,      \* commands issued so far; the current one is number calls
    fr,         \* locals of the running call
    hdr,        \* header of the response buffer
    data,       \* data[] of the response buffer and the cells behind its end
    active,     \* TPM: active locality, or NoLocality
    pending,    \* TPM: localities waiting for a grant
    dst,        \* TPM: state of the command interface
    rx,         \* TPM: the command it is receiving or has received
    rsp,        \* TPM: the response it holds and how far it was read
    execs,      \* history: executions of each command; 0 stands for garbage
    open,       \* history: locality obtained and not yet closed
    asked       \* history: localities asked for since they were last closed

host == <<pc, op, ret, ready, locality, calls, fr, hdr, data, open, asked>>
tpm == <<active, pending, dst, rx, rsp, execs>>
vars == <<pc, op, ret, ready, locality, calls, fr, hdr, data, active, pending,
          dst, rx, rsp, execs, open, asked>>

\* Byte i of what command n sent, or of the response to it, is <<n, i>>.
Zero == <<0, 0>>
Junk == <<0, 1>>
Byte == (0 .. MaxCalls) \X Nat

DataSize == BufSize - HeaderSize        \* MAX_CMD_DATA
Unread == [i \in 0 .. HeaderSize - 1 |-> Zero]
Blank == [i \in 0 .. BufSize - 1 |-> Zero]

NoFrame == [arg |-> NoLocality, part |-> "send", len |-> 0, index |-> 0,
            lo |-> 0, burst |-> 0, size |-> 0, expected |-> 0]

Locations == {"idle", "request_use", "wait_active", "get_vendid", "get_revid",
              "read_access", "relinquish", "status", "prepare", "wait_ready",
              "write_header", "burst_lo", "burst_hi", "write_data", "wait_valid",
              "write_go", "wait_avail", "read_data"}

Errors == {"ERR_RESPONSE", "INVALID_PARAM", "ERR_TIMEOUT", "ERR_TRANSFER"}

\* Values of the locals of a call.
Frame == [arg : Localities \cup {NoLocality}, part : {"send", "header", "rest"},
          len : 0 .. BufSize, index : 0 .. BufSize,
          lo : 0 .. Radix - 1, burst : 0 .. Radix * Radix - 1,
          size : Nat, expected : Nat]

\* A command being received: whose bytes, how many, how many are declared, and
\* whether they are that command's bytes in order.
Reception == [cmd : 0 .. MaxCalls, n : Nat, len : 0 .. BufSize, ok : BOOLEAN]

HostTypeOK ==
    /\ pc \in Locations
    /\ op \in {"none", "init", "close", "xfer"}
    /\ ret \in Errors \cup {"SUCCESS"}
    /\ ready \in BOOLEAN
    /\ locality \in Localities \cup {NoLocality}
    /\ calls \in 0 .. MaxCalls
    /\ open \in Localities \cup {NoLocality}
    /\ asked \subseteq Localities

BufferTypeOK ==
    /\ hdr \in [0 .. HeaderSize - 1 -> Byte]
    /\ data \in [0 .. BufSize - 1 -> Byte]

TpmTypeOK ==
    /\ active \in Localities \cup {OtherLocality, NoLocality}
    /\ pending \subseteq Localities \cup {OtherLocality}
    /\ dst \in {"idle", "to_ready", "ready", "reception", "execution", "completion"}
    /\ rx \in Reception
    /\ rsp \in [cmd : 0 .. MaxCalls, size : Nat, pos : Nat]
    /\ execs \in [0 .. MaxCalls -> Nat]

TypeOK == HostTypeOK /\ fr \in Frame /\ BufferTypeOK /\ TpmTypeOK

Init ==
    /\ pc = "idle"
    /\ op = "none"
    /\ ret = "SUCCESS"
    /\ ready = FALSE
    /\ locality = NoLocality
    /\ calls = 0
    /\ fr = NoFrame
    /\ hdr = Unread
    /\ data = Blank
    /\ active \in {OtherLocality, NoLocality}
    /\ pending = {}
    /\ dst = "idle"
    /\ rx = [cmd |-> 0, n |-> 0, len |-> 0, ok |-> FALSE]
    /\ rsp = [cmd |-> 0, size |-> 0, pos |-> 0]
    /\ execs = [k \in 0 .. MaxCalls |-> 0]
    /\ open = NoLocality
    /\ asked = {}
-----------------------------------------------------------------------------
(* External: the TPM as seen through the registers of locality l.          *)

\* The base address used is that of the active locality; the address that
\* locality 255 maps to, 0xF000, belongs to none.
Mine == locality # NoLocality /\ active = locality

ResponseBytes == IF rsp.size < HeaderSize THEN HeaderSize ELSE rsp.size

\* Values a read of STATUS may return.  EXPECT means something only in a read
\* that also shows VALID.  A TPM whose response declares less than a header may
\* offer more bytes behind the header or none.
StatusReads ==
    IF ~Mine THEN {[ready |-> TRUE, valid |-> TRUE, expect |-> TRUE, avail |-> TRUE]}
    ELSE {s \in [ready : BOOLEAN, valid : BOOLEAN, expect : BOOLEAN, avail : BOOLEAN] :
            /\ s.ready = (dst = "ready")
            /\ dst = "completion" /\ rsp.pos < ResponseBytes => s.avail
            /\ s.avail => /\ dst = "completion"
                          /\ rsp.pos < ResponseBytes \/ rsp.size < HeaderSize
            /\ s.valid => s.expect = (dst = "reception" /\ rx.n < rx.len)}

\* Values a read of one burst-count register may return: the count is the
\* TPM's to choose, and may change between the two reads.
BurstReads == IF Mine THEN 0 .. Radix - 1 ELSE {Radix - 1}

\* A write of byte i of command k, whose header declares n bytes, to DATA_FIFO.
FifoAccepts(k, i, n) ==
    /\ UNCHANGED <<active, pending, rsp, execs>>
    /\ IF Mine /\ dst = "ready"
         THEN /\ dst' = "reception"
              /\ rx' = [cmd |-> k, n |-> 1, len |-> n, ok |-> i = 0]
       ELSE IF Mine /\ dst = "reception" /\ rx.n < rx.len
         THEN /\ rx' = [rx EXCEPT !.n = @ + 1, !.ok = @ /\ rx.cmd = k /\ rx.n = i]
              /\ UNCHANGED dst
       ELSE UNCHANGED <<dst, rx>>

\* A write of COMMAND_READY to STATUS aborts what the TPM is doing.
CommandReady ==
    /\ dst' = IF ~Mine \/ dst = "ready" THEN dst ELSE "to_ready"
    /\ UNCHANGED <<active, pending, rx, rsp, execs>>

\* A write of GO to STATUS starts a command that has been received in full.
Go ==
    /\ dst' = IF Mine /\ dst = "reception" /\ rx.n = rx.len THEN "execution" ELSE dst
    /\ UNCHANGED <<active, pending, rx, rsp, execs>>

TpmBecomesReady ==
    /\ dst = "to_ready"
    /\ dst' = "ready"
    /\ UNCHANGED <<active, pending, rx, rsp, execs>>
    /\ UNCHANGED host

\* The command takes effect, and its response can be read.
TpmExecutes ==
    /\ dst = "execution"
    /\ dst' = "completion"
    /\ execs' = [execs EXCEPT ![IF rx.ok THEN rx.cmd ELSE 0] = @ + 1]
    /\ \E n \in RspSizes : rsp' = [cmd |-> rx.cmd, size |-> n, pos |-> 0]
    /\ UNCHANGED <<active, pending, rx>>
    /\ UNCHANGED host

TpmGrants ==
    /\ active = NoLocality
    /\ \E l \in pending : active' = l /\ pending' = pending \ {l}
    /\ UNCHANGED <<dst, rx, rsp, execs>>
    /\ UNCHANGED host

OtherRequests ==
    /\ active # OtherLocality
    /\ pending' = pending \cup {OtherLocality}
    /\ UNCHANGED <<active, dst, rx, rsp, execs>>
    /\ UNCHANGED host

OtherRelinquishes ==
    /\ active = OtherLocality
    /\ active' = NoLocality
    /\ dst' = "idle"
    /\ UNCHANGED <<pending, rx, rsp, execs>>
    /\ UNCHANGED host
-----------------------------------------------------------------------------
(* Returning from an API call.                                             *)

Return(code) ==
    /\ pc' = "idle"
    /\ ret' = code
    /\ fr' = NoFrame

\* Every caller gives up the response buffer when the transfer failed.
Fail(code) ==
    /\ Return(code)
    /\ hdr' = Unread
    /\ data' = Blank

\* The access was performed, yet the transport reports an error.
LateError == Fail("ERR_TRANSFER")

\* A register access failed and was not performed: every "if (err < 0)" of
\* tpm2_fifo.c returns the error, and tpm_xfer and tpm_interface_init pass it on.
AccessFails ==
    /\ pc # "idle"
    /\ \E code \in {"ERR_TRANSFER", "ERR_TIMEOUT"} : Fail(code)
    /\ UNCHANGED <<op, ready, locality, calls, open, asked>>
    /\ UNCHANGED tpm

\* tpm2_wait_reg_bits: the bits are clear in this read and time is up.
WaitTimesOut ==
    /\ \/ pc = "wait_active" /\ active # fr.arg
       \/ pc = "wait_ready" /\ \E s \in StatusReads : ~s.ready
       \/ pc = "wait_valid" /\ \E s \in StatusReads : ~s.valid
       \/ pc = "wait_avail" /\ \E s \in StatusReads : ~s.avail
    /\ Fail("ERR_TIMEOUT")
    /\ UNCHANGED <<op, ready, locality, calls, open, asked>>
    /\ UNCHANGED tpm
-----------------------------------------------------------------------------
(* tpm_interface_init: tpm2_fifo_request_access, then tpm2_get_info.       *)

InterfaceInit(l) ==
    /\ pc = "idle"
    /\ pc' = "request_use"
    /\ op' = "init"
    /\ ready' = TRUE
    /\ fr' = [NoFrame EXCEPT !.arg = l]
    /\ asked' = asked \cup {l}
    /\ UNCHANGED <<ret, locality, calls, hdr, data, open>>
    /\ UNCHANGED tpm

\* No timeout_ops and no library timer: refused before the interface is set.
InterfaceInitRefused ==
    /\ pc = "idle"
    /\ op' = "init"
    /\ ret' = "INVALID_PARAM"
    /\ UNCHANGED <<pc, ready, locality, calls, fr, hdr, data, open, asked>>
    /\ UNCHANGED tpm

RequestUse ==
    /\ pc = "request_use"
    /\ pending' = IF active = fr.arg THEN pending ELSE pending \cup {fr.arg}
    /\ \/ pc' = "wait_active" /\ UNCHANGED <<ret, fr, hdr, data>>
       \/ LateError
    /\ UNCHANGED <<op, ready, locality, calls, open, asked>>
    /\ UNCHANGED <<active, dst, rx, rsp, execs>>

ActiveLocality ==
    /\ pc = "wait_active"
    /\ active = fr.arg
    /\ locality' = fr.arg
    /\ open' = fr.arg
    /\ pc' = "get_vendid"
    /\ UNCHANGED <<op, ret, ready, calls, fr, hdr, data, asked>>
    /\ UNCHANGED tpm

\* One read of VENDID, then one of REVID; the values are only logged.
GetInfo ==
    /\ \/ pc = "get_vendid" /\ pc' = "get_revid" /\ UNCHANGED <<ret, fr>>
       \/ pc = "get_revid" /\ Return("SUCCESS")
    /\ UNCHANGED <<op, ready, locality, calls, hdr, data, open, asked>>
    /\ UNCHANGED tpm
-----------------------------------------------------------------------------
(* tpm_interface_close: tpm2_fifo_release_locality.                        *)

InterfaceClose(l) ==
    /\ pc = "idle"
    /\ ready
    /\ pc' = "read_access"
    /\ op' = "close"
    /\ fr' = [NoFrame EXCEPT !.arg = l]
    /\ open' = IF open = l THEN NoLocality ELSE open
    /\ UNCHANGED <<ret, ready, locality, calls, hdr, data, asked>>
    /\ UNCHANGED tpm

\* The read shows VALID, or PENDING because another locality is waiting.
ReadAccess ==
    /\ pc = "read_access"
    /\ \E valid \in BOOLEAN :
         IF valid \/ pending \ {fr.arg} # {}
           THEN pc' = "relinquish" /\ UNCHANGED <<ret, fr, hdr, data>>
           ELSE Fail("ERR_RESPONSE")
    /\ UNCHANGED <<op, ready, locality, calls, open, asked>>
    /\ UNCHANGED tpm

\* Fault: chip_data->locality is given up, not the locality of the argument.
RelinquishCurrent ==
    /\ pc = "relinquish"
    /\ active' = IF active = locality THEN NoLocality ELSE active
    /\ dst' = IF active = locality THEN "idle" ELSE dst
    /\ pending' = pending \ {locality}
    /\ Return("SUCCESS")
    /\ UNCHANGED <<hdr, data, op, ready, locality, calls, open, asked, rx, rsp, execs>>

\* Fault: nothing is written for a locality that is not active.
RelinquishOnlyActive ==
    /\ pc = "relinquish"
    /\ active' = IF active = fr.arg THEN NoLocality ELSE active
    /\ dst' = IF active = fr.arg THEN "idle" ELSE dst
    /\ asked' = asked \ {fr.arg}
    /\ Return("SUCCESS")
    /\ UNCHANGED <<hdr, data, op, ready, locality, calls, open, pending, rx, rsp, execs>>

\* The write gives up the locality, or withdraws the request for it.
Relinquish ==
    /\ pc = "relinquish"
    /\ active' = IF active = fr.arg THEN NoLocality ELSE active
    /\ dst' = IF active = fr.arg THEN "idle" ELSE dst
    /\ pending' = pending \ {fr.arg}
    /\ \/ Return("SUCCESS") /\ asked' = asked \ {fr.arg} /\ UNCHANGED <<hdr, data>>
       \/ LateError /\ UNCHANGED asked
    /\ UNCHANGED <<op, ready, locality, calls, open>>
    /\ UNCHANGED <<rx, rsp, execs>>
-----------------------------------------------------------------------------
(* tpm_xfer, first half: tpm2_fifo_send with tpm2_fifo_prepare and         *)
(* tpm2_fifo_get_burstcount.                                               *)

Xfer(n) ==
    /\ pc = "idle"
    /\ ready
    /\ calls < MaxCalls
    /\ calls' = calls + 1
    /\ op' = "xfer"
    /\ pc' = "status"
    /\ fr' = [NoFrame EXCEPT !.len = n]
    /\ hdr' = Unread
    /\ data' = Blank
    /\ UNCHANGED <<ret, ready, locality, open, asked>>
    /\ UNCHANGED tpm

\* Fault: a TPM that expects more bytes is taken for one that is ready.
ReadStatusExpecting ==
    /\ pc = "status"
    /\ \E s \in StatusReads :
         pc' = IF s.ready \/ s.expect THEN "write_header" ELSE "prepare"
    /\ UNCHANGED <<op, ret, ready, locality, calls, fr, hdr, data, open, asked>>
    /\ UNCHANGED tpm

ReadStatus ==
    /\ pc = "status"
    /\ \E s \in StatusReads : pc' = IF s.ready THEN "write_header" ELSE "prepare"
    /\ UNCHANGED <<op, ret, ready, locality, calls, fr, hdr, data, open, asked>>
    /\ UNCHANGED tpm

\* Fault: the abort is left out, the library only waits.
PrepareSilently ==
    /\ pc = "prepare"
    /\ pc' = "wait_ready"
    /\ UNCHANGED <<op, ret, ready, locality, calls, fr, hdr, data, open, asked>>
    /\ UNCHANGED tpm

Prepare ==
    /\ pc = "prepare"
    /\ CommandReady
    /\ \/ pc' = "wait_ready" /\ UNCHANGED <<ret, fr, hdr, data>>
       \/ LateError
    /\ UNCHANGED <<op, ready, locality, calls, open, asked>>

WaitReady ==
    /\ pc = "wait_ready"
    /\ \E s \in StatusReads : s.ready
    /\ pc' = "write_header"
    /\ UNCHANGED <<op, ret, ready, locality, calls, fr, hdr, data, open, asked>>
    /\ UNCHANGED tpm

\* The header goes out byte by byte, without asking for a burst count.  The
\* check on len never fires: the builder declares at least the header.
WriteHeader ==
    /\ pc = "write_header"
    /\ FifoAccepts(calls, fr.index, fr.len)
    /\ \/ IF fr.index + 1 = HeaderSize /\ fr.len < HeaderSize
            THEN Fail("INVALID_PARAM")
            ELSE /\ fr' = [fr EXCEPT !.index = @ + 1]
                 /\ pc' = IF fr.index + 1 < HeaderSize THEN "write_header"
                          ELSE IF fr.index + 1 < fr.len THEN "burst_lo"
                          ELSE "wait_valid"
                 /\ UNCHANGED <<ret, hdr, data>>
       \/ LateError
    /\ UNCHANGED <<op, ready, locality, calls, open, asked>>

\* tpm2_fifo_get_burstcount reads the count as two registers, one at a time.
BurstLow ==
    /\ pc = "burst_lo"
    /\ \E b \in BurstReads : fr' = [fr EXCEPT !.lo = b]
    /\ pc' = "burst_hi"
    /\ UNCHANGED <<op, ret, ready, locality, calls, hdr, data, open, asked>>
    /\ UNCHANGED tpm

\* A count of zero is read again until time is up.
BurstHigh ==
    /\ pc = "burst_hi"
    /\ \E b \in BurstReads :
         LET count == b * Radix + fr.lo IN
           IF count = 0
             THEN fr' = [fr EXCEPT !.lo = 0] /\ pc' = "burst_lo"
             ELSE /\ fr' = [fr EXCEPT !.lo = 0, !.burst = count]
                  /\ pc' = IF fr.part = "send" THEN "write_data" ELSE "read_data"
    /\ UNCHANGED <<op, ret, ready, locality, calls, hdr, data, open, asked>>
    /\ UNCHANGED tpm

\* Fault: the deadline is not checked.
BurstNeverTimesOut == FALSE

BurstTimesOut ==
    /\ pc = "burst_hi"
    /\ fr.lo = 0
    /\ 0 \in BurstReads
    /\ Fail("ERR_TIMEOUT")
    /\ UNCHANGED <<op, ready, locality, calls, open, asked>>
    /\ UNCHANGED tpm

\* Fault: one byte more than the burst count.
WriteDataPastBurst ==
    /\ pc = "write_data"
    /\ FifoAccepts(calls, fr.index, fr.len)
    /\ fr' = [fr EXCEPT !.index = @ + 1, !.burst = @ - 1]
    /\ pc' = IF fr.index + 1 >= fr.len THEN "wait_valid"
             ELSE IF fr.burst > 0 THEN "write_data"
             ELSE "burst_lo"
    /\ UNCHANGED <<ret, hdr, data, op, ready, locality, calls, open, asked>>

WriteData ==
    /\ pc = "write_data"
    /\ FifoAccepts(calls, fr.index, fr.len)
    /\ \/ /\ fr' = [fr EXCEPT !.index = @ + 1, !.burst = @ - 1]
          /\ pc' = IF fr.index + 1 >= fr.len THEN "wait_valid"
                   ELSE IF fr.burst - 1 > 0 THEN "write_data"
                   ELSE "burst_lo"
          /\ UNCHANGED <<ret, hdr, data>>
       \/ LateError
    /\ UNCHANGED <<op, ready, locality, calls, open, asked>>

\* The command must be complete in the TPM's view before it is started.
WaitValid ==
    /\ pc = "wait_valid"
    /\ \E s \in StatusReads :
         /\ s.valid
         /\ IF s.expect THEN Fail("ERR_TRANSFER")
                        ELSE pc' = "write_go" /\ UNCHANGED <<ret, fr, hdr, data>>
    /\ UNCHANGED <<op, ready, locality, calls, open, asked>>
    /\ UNCHANGED tpm

WriteGo ==
    /\ pc = "write_go"
    /\ Go
    /\ \/ /\ pc' = "wait_avail"
          /\ fr' = [NoFrame EXCEPT !.part = "header"]
          /\ UNCHANGED <<ret, hdr, data>>
       \/ LateError
    /\ UNCHANGED <<op, ready, locality, calls, open, asked>>
-----------------------------------------------------------------------------
(* tpm_xfer, second half: tpm2_fifo_receive, with tpm2_fifo_read_data once *)
(* for the header and once for the rest of the response.                   *)

\* read_size and loop_index of tpm2_fifo_read_data, from *size = n.
ReadSize == IF fr.part = "header" THEN HeaderSize ELSE fr.expected
LoopIndex(n) == IF fr.part = "header" THEN n ELSE n - HeaderSize

\* A response that declares less than its header is complete once it is offered.
WaitAvail ==
    /\ pc = "wait_avail"
    /\ \E s \in StatusReads : s.avail
    /\ IF fr.size < ReadSize
         THEN pc' = "burst_lo" /\ UNCHANGED <<ret, fr>>
         ELSE Return("SUCCESS")
    /\ UNCHANGED <<op, ready, locality, calls, hdr, data, open, asked>>
    /\ UNCHANGED tpm

\* External: what a read of DATA_FIFO returns.
FifoByte == IF Mine /\ dst = "completion" /\ rsp.pos < ResponseBytes
              THEN <<rsp.cmd, rsp.pos>> ELSE Junk

FifoAdvances ==
    /\ rsp' = IF FifoByte = Junk THEN rsp ELSE [rsp EXCEPT !.pos = @ + 1]
    /\ UNCHANGED <<active, pending, dst, rx, execs>>

\* cmd_size of a received header, as int: a header that is not the header of
\* a response is all ones, -1, which the unsigned comparison finds too large.
DeclaredSize(h) ==
    IF h = [i \in 0 .. HeaderSize - 1 |-> <<rsp.cmd, i>>] THEN rsp.size ELSE BufSize + 1

\* Fault: no check that the response fits.
HeaderReceivedUnchecked(h) ==
    /\ hdr' = h
    /\ pc' = "wait_avail"
    /\ fr' = [NoFrame EXCEPT !.part = "rest", !.size = HeaderSize,
                             !.expected = DeclaredSize(h)]
    /\ UNCHANGED <<ret, data>>

\* tpm2_fifo_receive once the header is there.
HeaderReceived(h) ==
    LET n == DeclaredSize(h) IN
      IF n > BufSize THEN Fail("INVALID_PARAM")
      ELSE /\ hdr' = h
           /\ UNCHANGED data
           /\ IF n = HeaderSize
                THEN Return("SUCCESS")
                ELSE /\ pc' = "wait_avail"
                     /\ fr' = [NoFrame EXCEPT !.part = "rest", !.size = HeaderSize,
                                              !.expected = n]
                     /\ UNCHANGED ret

\* One byte of the for loop in tpm2_fifo_read_data; it stops on loop_index, the
\* while loop around it on size.
ReadData ==
    /\ pc = "read_data"
    /\ FifoAdvances
    /\ \/ LET h == [hdr EXCEPT ![LoopIndex(fr.size)] = FifoByte]
              d == [data EXCEPT ![LoopIndex(fr.size)] = FifoByte]
              n == fr.size + 1
          IN  IF fr.part = "header" /\ n >= HeaderSize
                THEN HeaderReceived(h)
              ELSE /\ IF fr.part = "header" THEN hdr' = h /\ UNCHANGED data
                                            ELSE data' = d /\ UNCHANGED hdr
                   /\ IF fr.burst - 1 > 0 /\ LoopIndex(n) < ReadSize
                        THEN /\ fr' = [fr EXCEPT !.size = n, !.burst = @ - 1]
                             /\ UNCHANGED <<pc, ret>>
                      ELSE IF n < ReadSize
                        THEN /\ fr' = [fr EXCEPT !.size = n, !.burst = 0]
                             /\ pc' = "burst_lo"
                             /\ UNCHANGED ret
                      ELSE Return("SUCCESS")
       \/ LateError
    /\ UNCHANGED <<op, ready, locality, calls, open, asked>>
-----------------------------------------------------------------------------
HostStep ==
    \/ AccessFails \/ WaitTimesOut
    \/ RequestUse \/ ActiveLocality \/ GetInfo
    \/ ReadAccess \/ Relinquish
    \/ ReadStatus \/ Prepare \/ WaitReady
    \/ WriteHeader \/ BurstLow \/ BurstHigh \/ BurstTimesOut \/ WriteData
    \/ WaitValid \/ WriteGo
    \/ WaitAvail \/ ReadData

TpmStep ==
    TpmBecomesReady \/ TpmExecutes \/ TpmGrants \/ OtherRequests \/ OtherRelinquishes

CallerStep ==
    \/ \E l \in Localities : InterfaceInit(l) \/ InterfaceClose(l)
    \/ InterfaceInitRefused
    \/ \E n \in CmdSizes : Xfer(n)

Next == HostStep \/ TpmStep \/ CallerStep

Spec == Init /\ [][Next]_vars

\* The thread inside the library keeps running, and the deadline of
\* tpm2_fifo_get_burstcount passes however often the TPM answers zero.
FairSpec == Spec /\ WF_vars(HostStep) /\ SF_vars(BurstTimesOut)

\* The last transfer meets no fault: no register access fails and the TPM
\* answers before each deadline.  What the earlier calls left behind is as in
\* Spec.
LastXfer == op = "xfer" /\ calls = MaxCalls /\ pc # "idle"

SendStep ==
    \/ ReadStatus \/ Prepare \/ WaitReady \/ WriteHeader
    \/ BurstLow \/ BurstHigh \/ WriteData \/ WaitValid \/ WriteGo

\* An error where these locations have none of their own is a LateError.
AccessSucceeds ==
    pc \in {"prepare", "write_header", "write_data", "write_go", "read_data"} =>
        ~(pc' = "idle" /\ ret' = "ERR_TRANSFER")

CalmStep == (SendStep \/ WaitAvail \/ ReadData) /\ AccessSucceeds

CalmNext ==
    \/ ~LastXfer /\ Next
    \/ LastXfer /\ (CalmStep \/ TpmStep)

\* The thread keeps running, and the TPM gets ready, executes and at some time
\* offers a burst count.
CalmSpec ==
    /\ Init /\ [][CalmNext]_vars
    /\ WF_vars(LastXfer /\ CalmStep)
    /\ WF_vars(TpmBecomesReady) /\ WF_vars(TpmExecutes)
    /\ SF_vars(LastXfer /\ BurstHigh /\ pc' # "burst_lo")
-----------------------------------------------------------------------------
(* Properties.                                                             *)

\* No command is executed twice, however calls fail and are followed by others,
\* and the TPM never executes a mixture of what two calls have written: a
\* half-sent command is aborted before the next one (tpm2_fifo_send, _prepare).
AtMostOnce ==
    /\ \A k \in Calls : execs[k] <= 1
    /\ execs[0] = 0

\* tpm_xfer reports success only for a command that was executed, and then the
\* response buffer holds the response to this very command, complete, never a
\* late answer to an earlier call.
SuccessMeansAnswered ==
    pc = "idle" /\ op = "xfer" /\ ret = "SUCCESS" =>
        /\ execs[calls] = 1
        /\ rsp.cmd = calls
        /\ rsp.size <= BufSize
        /\ \A i \in 0 .. HeaderSize - 1 : hdr[i] = <<calls, i>>
        /\ \A i \in 0 .. BufSize - 1 :
             HeaderSize + i < rsp.size => data[i] = <<calls, HeaderSize + i>>

\* From a successful tpm_interface_init to the tpm_interface_close of the same
\* locality the TPM serves this locality, whatever other init and close calls
\* fail in between, and chip_data->locality names it.
HeldWhileOpen ==
    open # NoLocality => active = open /\ locality = open

\* A tpm_interface_init that fails may leave its request pending, or its locality
\* granted, and keep others out.  A tpm_interface_close that succeeds puts an end
\* to it: from then to the next init the locality is neither served nor granted
\* late.
ClosedMeansReleased ==
    (pending \cup {active}) \cap Localities \subseteq asked

\* tpm2_fifo_receive stores nothing behind the end of the response buffer: it
\* accepted the response because the buffer can store it.
StoresInBounds ==
    \A i \in DataSize .. BufSize - 1 : data[i] = Zero

\* The transfers of one call after another, seen from the command functions.
StatusOf(k) ==
    IF k > calls THEN "new"
    ELSE IF execs[k] > 0 THEN "executed"
    ELSE IF dst = "execution" /\ rx.cmd = k THEN "started"
    ELSE IF k = calls /\ op = "xfer" /\ pc # "idle" /\ fr.part = "send" THEN "submitted"
    ELSE "lost"

Channel == INSTANCE CommandChannel WITH
    current <- calls,
    busy    <- op = "xfer" /\ pc # "idle",
    status  <- [k \in Calls |-> StatusOf(k)],
    answer  <- IF op = "xfer" /\ pc = "idle" /\ ret = "SUCCESS" THEN hdr[0][1] ELSE 0

\* Calls that fail, time out, or leave the TPM busy never make tpm_xfer return
\* another command's answer, nor make a command run twice or next to another.
RefinesCommandChannel == Channel!ChanSpec

\* However the calls before it failed, and whatever they left in the TPM (half a
\* command, a command that runs, an answer nobody read), a transfer that meets no
\* fault itself succeeds, as long as the locality is held: tpm2_fifo_send gets the
\* TPM out of any state.
NextXferRecovers ==
    LastXfer /\ open # NoLocality ~> pc = "idle" /\ op = "xfer" /\ ret = "SUCCESS"

\* Whatever the TPM, the transport and the other agent do, a call returns.
CallReturns == pc # "idle" ~> pc = "idle"
=============================================================================
