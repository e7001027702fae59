---------------------------- MODULE PcrCommands -----------------------------
(***************************************************************************)
(* tpm_startup, tpm_pcr_extend, tpm_pcr_read_single and                    *)
(* tpm_pcr_allocate_auth_password of tpm2_cmds.c between their caller and  *)
(* a TPM: what they make of the response, over the CommandChannel that     *)
(* tpm_xfer provides.  A transfer that fails may leave its command to be   *)
(* executed later; the caller may call the same function again.  The       *)
(* arguments and the building of the commands are in CommandBuilder.       *)
(***************************************************************************)
EXTENDS CommandChannel, Sequences

CONSTANTS
    DigestSizes,   \* digest sizes of the TPM's PCR banks
    BufferSizes,   \* pcr_digest_read_len
    Damage         \* numbers of bytes a response may lack or have too many

MAX_DIGEST_SIZE == 48
DigestOffset == 20          \* offsetof(struct tpm_pcr_single_read_res, digest)
AllocateSize == 17          \* parameterSize, flag and three sizes

ASSUME PcrAssumption ==
    MaxCalls \in Nat /\ DigestSizes \cup BufferSizes \cup Damage \subseteq Nat

VARIABLES
    cmd,       \* the command of each call: function, and buffer size of a read
    rets,      \* what each call returned
    started,   \* the TPM has been started up
    pcr,       \* calls that extended the PCR, in order: the PCR's value
    rsp,       \* the TPM's last response
    buf,       \* pcr_digest_read: bytes copied and what they are
    outs       \* outputs of tpm_pcr_allocate_auth_password that were written

tpmVars == <<started, pcr, rsp>>
vars == <<chanVars, cmd, rets, tpmVars, buf, outs>>

Calls == 1 .. MaxCalls
NoCommand == [op |-> "none", len |-> 0]
Zeroed == [copied |-> 0, garbage |-> 0, value |-> <<>>]
NoResponse == [of |-> 0, rc |-> "OK", sessions |-> FALSE, size |-> 0, digest |-> 0,
               value |-> <<>>]

Init ==
    /\ ChanInit
    /\ cmd = [k \in Calls |-> NoCommand]
    /\ rets = [k \in Calls |-> "none"]
    /\ started \in BOOLEAN /\ pcr = <<>> /\ rsp = NoResponse
    /\ buf = Zeroed /\ outs = {}

(***************************************************************************)
(* The calls, up to tpm_xfer.                                              *)
(***************************************************************************)
Call(op, len) ==
    /\ Submit
    /\ cmd' = [cmd EXCEPT ![current + 1] = [op |-> op, len |-> len]]
    /\ buf' = Zeroed /\ outs' = {}
    /\ UNCHANGED <<rets, tpmVars>>

Startup == Call("startup", 0)

PcrExtend == Call("extend", 0)

\* The output buffer is cleared before the command is built.
PcrReadSingle == \E n \in BufferSizes : Call("read", n)

PcrAllocate == Call("allocate", 0)

(***************************************************************************)
(* The TPM (external).  A command other than startup is refused before     *)
(* startup, and a second startup is refused with the same code.            *)
(***************************************************************************)
\* Fault: the command of an earlier call is not aborted first.
TpmStartsBeside ==
    /\ busy /\ status[current] = "submitted"
    /\ status' = [status EXCEPT ![current] = "started"]
    /\ UNCHANGED <<current, busy, answer, cmd, rets, tpmVars, buf, outs>>

\* The write of GO; tpm2_fifo_prepare has aborted the command of an earlier call.
TpmStarts == StartCommand /\ UNCHANGED <<cmd, rets, tpmVars, buf, outs>>

TpmAbandons == Abandon /\ UNCHANGED <<cmd, rets, tpmVars, buf, outs>>

\* Sizes of a response without its header, damaged ones included.  One that
\* declares less than its header is refused like any that is too small.
Sizes(n) == {n} \cup {n + d : d \in Damage} \cup {n - d : d \in {c \in Damage : c <= n}}

Refusals(op) ==
    IF op = "startup" THEN IF started THEN {"INITIALIZE"} ELSE {"OTHER"}
    ELSE IF started THEN {"OTHER"} ELSE {"INITIALIZE"}

Answers(k) ==
    LET op == cmd[k].op IN
    {[NoResponse EXCEPT !.of = k, !.rc = c] : c \in Refusals(op)}
    \cup IF "INITIALIZE" \in Refusals(op) THEN {}
         ELSE CASE op = "read" ->
                     UNION {[of : {k}, rc : {"OK"}, sessions : {FALSE}, digest : {d},
                             value : {pcr}, size : Sizes(DigestOffset + d)] :
                            d \in DigestSizes}
                [] op = "allocate" ->
                     [of : {k}, rc : {"OK"}, sessions : BOOLEAN, digest : {0},
                      value : {<<>>}, size : Sizes(AllocateSize)]
                [] OTHER -> {[NoResponse EXCEPT !.of = k]}

TpmExecutes ==
    /\ Execute
    /\ \E k \in Calls :
         /\ status[k] = "started" /\ status'[k] = "executed"
         /\ rsp' \in Answers(k)
         /\ started' = (started \/ (cmd[k].op = "startup" /\ rsp'.rc = "OK"))
         /\ pcr' = IF cmd[k].op = "extend" /\ rsp'.rc = "OK" THEN Append(pcr, k) ELSE pcr
    /\ UNCHANGED <<cmd, rets, buf, outs>>

(***************************************************************************)
(* What the functions make of the response.                                *)
(***************************************************************************)
Running(op) == busy /\ cmd[current].op = op

Return(r) == rets' = [rets EXCEPT ![current] = r]

\* tpm_xfer failed: its code is passed on, INVALID_PARAM for a response that is
\* too large for the buffer.  The TPM_ERR_RESPONSE at the end of
\* tpm2_fifo_receive is never reached.
XferFails ==
    /\ Fail
    /\ \E r \in {"INVALID_PARAM", "ERR_TIMEOUT", "ERR_TRANSFER"} : Return(r)
    /\ UNCHANGED <<cmd, tpmVars, buf, outs>>

\* Fault: an error other than TPM_RC_INITIALIZE is taken for success.
CodeOfLenient(op, rc) ==
    IF rc = "INITIALIZE" /\ op = "startup" THEN "ERR_ALREADY_INIT" ELSE "SUCCESS"

\* What the return code of the TPM becomes.
CodeOf(op, rc) ==
    IF rc = "OK" THEN "SUCCESS"
    ELSE IF rc = "INITIALIZE" /\ op = "startup" THEN "ERR_ALREADY_INIT"
    ELSE "ERR_RESPONSE"

StartupReturns ==
    /\ Running("startup") /\ Succeed
    /\ Return(CodeOf("startup", rsp.rc))
    /\ UNCHANGED <<cmd, tpmVars, buf, outs>>

\* Fault: the response code is not looked at.
PcrExtendReturnsUnchecked ==
    /\ Running("extend") /\ Succeed
    /\ Return("SUCCESS")
    /\ UNCHANGED <<cmd, tpmVars, buf, outs>>

PcrExtendReturns ==
    /\ Running("extend") /\ Succeed
    /\ Return(CodeOf("extend", rsp.rc))
    /\ UNCHANGED <<cmd, tpmVars, buf, outs>>

\* Fault: the caller's buffer is taken to be large enough.
ReadCodeAnyBuffer(r, len) ==
    IF r.rc # "OK" THEN "ERR_RESPONSE"
    ELSE IF r.size \notin DigestOffset .. DigestOffset + MAX_DIGEST_SIZE THEN "ERR_RESPONSE"
    ELSE IF r.digest > MAX_DIGEST_SIZE THEN "INVALID_PARAM"
    ELSE IF DigestOffset + r.digest > r.size THEN "ERR_RESPONSE"
    ELSE "SUCCESS"

\* Fault: the digest size is only compared with the buffers.
ReadCodeUnchecked(r, len) ==
    IF r.rc # "OK" THEN "ERR_RESPONSE"
    ELSE IF r.size \notin DigestOffset .. DigestOffset + MAX_DIGEST_SIZE THEN "ERR_RESPONSE"
    ELSE IF r.digest > MAX_DIGEST_SIZE \/ r.digest > len THEN "INVALID_PARAM"
    ELSE "SUCCESS"

\* The checks of tpm_pcr_read_single in their order.  The response buffer is
\* not initialised, so only what was received may be copied.
ReadCode(r, len) ==
    IF r.rc # "OK" THEN "ERR_RESPONSE"
    ELSE IF r.size \notin DigestOffset .. DigestOffset + MAX_DIGEST_SIZE THEN "ERR_RESPONSE"
    ELSE IF r.digest > MAX_DIGEST_SIZE \/ r.digest > len THEN "INVALID_PARAM"
    ELSE IF DigestOffset + r.digest > r.size THEN "ERR_RESPONSE"
    ELSE "SUCCESS"

Beyond(n, limit) == IF n > limit THEN n - limit ELSE 0

PcrReadReturns ==
    /\ Running("read") /\ Succeed
    /\ LET code == ReadCode(rsp, cmd[current].len) IN
         /\ Return(code)
         /\ buf' = IF code # "SUCCESS" THEN buf
                   ELSE [copied |-> rsp.digest, value |-> rsp.value,
                         garbage |-> Beyond(DigestOffset + rsp.digest, rsp.size)]
    /\ UNCHANGED <<cmd, tpmVars, outs>>

AllocateOutputs == {"success", "max_pcr", "size_needed", "size_available"}

\* Where the iterator stands after each output; out_success is written last.
EndOf == [max_pcr |-> 9, size_needed |-> 13, size_available |-> 17, success |-> 17]

\* Fault: one byte short of the last field.
AllocateSizeOkShort(n) == n >= AllocateSize - 1

\* tpm2_fifo_receive has already refused a response larger than the buffer.
AllocateSizeOk(n) == n >= AllocateSize

PcrAllocateReturns ==
    /\ Running("allocate") /\ Succeed
    /\ \/ /\ ~(rsp.sessions /\ rsp.rc = "OK" /\ AllocateSizeOk(rsp.size))
          /\ Return("ERR_RESPONSE")
          /\ UNCHANGED outs
       \/ /\ rsp.sessions /\ rsp.rc = "OK" /\ AllocateSizeOk(rsp.size)
          /\ outs' = {o \in AllocateOutputs : EndOf[o] <= rsp.size}
          /\ Return(IF outs' = AllocateOutputs THEN "SUCCESS" ELSE "ERR_RESPONSE")
    /\ UNCHANGED <<cmd, tpmVars, buf>>

\* The caller has used the result.
ResultUsed == Consume /\ UNCHANGED <<cmd, rets, tpmVars, buf, outs>>

Next ==
    \/ Startup \/ PcrExtend \/ PcrReadSingle \/ PcrAllocate
    \/ TpmStarts \/ TpmExecutes \/ TpmAbandons
    \/ XferFails \/ StartupReturns \/ PcrExtendReturns \/ PcrReadReturns
    \/ PcrAllocateReturns \/ ResultUsed

Spec == Init /\ [][Next]_vars

(***************************************************************************)
(* Properties.                                                             *)
(***************************************************************************)
Codes == {"none", "SUCCESS", "ERR_RESPONSE", "INVALID_PARAM", "ERR_TIMEOUT",
          "ERR_TRANSFER", "ERR_ALREADY_INIT"}

\* Every variable has its type, and what a read copies fits into the buffer
\* the caller of tpm_pcr_read_single passed.
TypeOK ==
    /\ cmd \in [Calls -> [op : {"none", "startup", "extend", "read", "allocate"},
                          len : BufferSizes \cup {0}]]
    /\ rets \in [Calls -> Codes]
    /\ started \in BOOLEAN
    /\ pcr \in Seq(Calls)
    /\ outs \subseteq AllocateOutputs
    /\ buf.copied \in 0 .. IF current = 0 THEN 0 ELSE cmd[current].len

\* tpm_pcr_extend that succeeds has extended the PCR exactly once, one that
\* fails at most once, and the extends that took effect did so in the order of
\* the calls, even when a failed one is executed late.
ExtendsInOrder ==
    /\ \A i, j \in DOMAIN pcr : i < j => pcr[i] < pcr[j]
    /\ \A k \in Calls :
         cmd[k].op = "extend" /\ rets[k] = "SUCCESS" => \E i \in DOMAIN pcr : pcr[i] = k

\* The digest tpm_pcr_read_single returns is the PCR's value while the caller
\* looks at it: every extend that took effect is in it, and no command of an
\* earlier call that failed changes the PCR behind the caller's back.
ReadIsCurrent ==
    current > 0 /\ cmd[current].op = "read" /\ rets[current] = "SUCCESS" =>
        buf.value = pcr

\* tpm_pcr_read_single copies nothing from the uninitialised part of its
\* response buffer, and leaves the caller's buffer zero when it fails.
ReadNeverLeaks ==
    /\ buf.garbage = 0
    /\ buf.copied > 0 => rets[current] = "SUCCESS"

\* After tpm_startup has returned SUCCESS or ERR_ALREADY_INIT, the TPM is
\* started ("Non-fatal: the TPM was already initialized"), also when an earlier
\* startup had failed; and any other function that succeeds says so too.
StartupKnown ==
    \A k \in Calls : rets[k] \in {"SUCCESS", "ERR_ALREADY_INIT"} => started

\* tpm_pcr_allocate_auth_password writes all of its outputs or none, and all of
\* them exactly when it succeeds.
AllocateAllOrNothing ==
    current > 0 =>
        outs = IF cmd[current].op = "allocate" /\ rets[current] = "SUCCESS"
               THEN AllocateOutputs ELSE {}
=============================================================================
