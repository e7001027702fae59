------------------------- MODULE PcrCommandsProofs --------------------------
(***************************************************************************)
(* Proofs about PcrCommands, for any number of calls and any sizes of      *)
(* digests, buffers and damage.                                            *)
(***************************************************************************)
EXTENDS PcrCommands, TLAPS

-----------------------------------------------------------------------------
(* The command channel.                                                    *)

ChanTypeOK ==
    /\ current \in 0 .. MaxCalls
    /\ busy \in BOOLEAN
    /\ status \in [Calls -> Status]

\* Only the running call is submitted; what the TPM is executing is younger
\* than everything it has executed, and alone.
ChanInv ==
    /\ ChanTypeOK
    /\ \A k \in Calls : status[k] # "new" => k <= current
    /\ \A k \in Calls : status[k] = "submitted" => busy /\ k = current
    /\ \A j, k \in Calls :
         status[k] = "started" /\ status[j] \in {"started", "executed"} => j <= k

LEMMA InitChan == ChanInit => ChanInv
<1> SUFFICES ASSUME ChanInit PROVE ChanInv
  OBVIOUS
<1>1. status \in [Calls -> Status] /\ \A k \in Calls : status[k] = "new"
  BY DEF ChanInit, Calls, Status
<1>2. current \in 0 .. MaxCalls
  BY PcrAssumption DEF ChanInit
<1>3. busy \in BOOLEAN
  BY Zenon DEF ChanInit
<1> QED
  BY <1>1, <1>2, <1>3 DEF ChanInv, ChanTypeOK

LEMMA NextChan == ChanInv /\ [ChanNext]_chanVars => ChanInv'
<1> SUFFICES ASSUME ChanInv, [ChanNext]_chanVars PROVE ChanInv'
  OBVIOUS
<1> USE PcrAssumption DEF Calls
<1>1. ASSUME Submit PROVE ChanInv'
  BY <1>1 DEF Submit, ChanInv, ChanTypeOK, Status
<1>2. ASSUME StartCommand PROVE ChanInv'
  BY <1>2 DEF StartCommand, ChanInv, ChanTypeOK, Status
<1>3. ASSUME Execute PROVE ChanInv'
  BY <1>3 DEF Execute, ChanInv, ChanTypeOK, Status
<1>4. ASSUME Abandon PROVE ChanInv'
  BY <1>4 DEF Abandon, ChanInv, ChanTypeOK, Status
<1>5. ASSUME Succeed PROVE ChanInv'
  BY <1>5 DEF Succeed, ChanInv, ChanTypeOK, Status
<1>6. ASSUME Fail PROVE ChanInv'
  BY <1>6 DEF Fail, ChanInv, ChanTypeOK, Status
<1>7. ASSUME Consume \/ UNCHANGED chanVars PROVE ChanInv'
  BY <1>7 DEF Consume, chanVars, ChanInv, ChanTypeOK
<1> QED
  BY <1>1, <1>2, <1>3, <1>4, <1>5, <1>6, <1>7 DEF ChanNext

\* Every step of the command functions and of the TPM is a step of the channel.
LEMMA StepsOfChannel == [Next]_vars => [ChanNext]_chanVars
BY DEF Next, vars, ChanNext, Startup, PcrExtend, PcrReadSingle, PcrAllocate, Call, TpmStarts,
       TpmExecutes, TpmAbandons, XferFails, StartupReturns, PcrExtendReturns,
       PcrReadReturns, PcrAllocateReturns, ResultUsed

-----------------------------------------------------------------------------
(* The calls and what became of them.                                      *)

Ops == {"startup", "extend", "read", "allocate"}

\* A call not yet made has no command and no result; a running one has no result
\* and has written nothing.
CallInv ==
    /\ cmd \in [Calls -> [op : Ops \cup {"none"}, len : BufferSizes \cup {0}]]
    /\ rets \in [Calls -> Codes]
    /\ \A k \in Calls : k > current => rets[k] = "none"
    /\ busy => current \in Calls /\ rets[current] = "none" /\ buf = Zeroed /\ outs = {}
    /\ current = 0 => ~busy /\ buf = Zeroed /\ outs = {}

\* The response the TPM holds is that of the last command it executed.
ResponseInv ==
    /\ rsp \in [of : 0 .. MaxCalls, rc : {"OK", "INITIALIZE", "OTHER"}, sessions : BOOLEAN,
                size : Nat, digest : Nat, value : Seq(Calls)]
    /\ rsp.of # 0 => status[rsp.of] = "executed"
    /\ \A k \in Calls : status[k] = "executed" => k <= rsp.of

\* What the TPM has done agrees with what its response says.
EffectInv ==
    /\ started \in BOOLEAN /\ pcr \in Seq(Calls)
    /\ \A i \in 1 .. Len(pcr) : status[pcr[i]] = "executed"
    /\ \A i, j \in 1 .. Len(pcr) : i < j => pcr[i] < pcr[j]
    /\ rsp.of # 0 =>
         /\ rsp.rc = "OK" => started
         /\ rsp.rc = "INITIALIZE" /\ cmd[rsp.of].op = "startup" => started
         /\ rsp.rc = "OK" /\ cmd[rsp.of].op = "extend" =>
              \E i \in 1 .. Len(pcr) : pcr[i] = rsp.of
         /\ rsp.rc = "OK" /\ cmd[rsp.of].op = "read" => rsp.value = pcr

\* What the calls returned agrees with what the TPM has done.
ResultInv ==
    /\ \A k \in Calls : rets[k] \in {"SUCCESS", "ERR_ALREADY_INIT"} => started
    /\ \A k \in Calls : cmd[k].op = "extend" /\ rets[k] = "SUCCESS" =>
         \E i \in 1 .. Len(pcr) : pcr[i] = k
    /\ current \in Calls /\ cmd[current].op = "read" /\ rets[current] = "SUCCESS" =>
         buf.value = pcr /\ status[current] = "executed"

\* What the caller's variables hold.
OutputInv ==
    /\ buf.copied \in Nat /\ buf.garbage = 0
    /\ buf.copied > 0 =>
         current \in Calls /\ rets[current] = "SUCCESS" /\ buf.copied <= cmd[current].len
    /\ outs = IF current \in Calls /\ cmd[current].op = "allocate"
                 /\ rets[current] = "SUCCESS"
              THEN AllocateOutputs ELSE {}

IInv == ChanInv /\ CallInv /\ ResponseInv /\ EffectInv /\ ResultInv /\ OutputInv

LEMMA InitInv == Init => IInv
<1> SUFFICES ASSUME Init PROVE IInv
  OBVIOUS
<1>1. ChanInv
  BY InitChan DEF Init
<1>2. /\ current = 0 /\ busy = FALSE /\ status = [k \in Calls |-> "new"]
      /\ cmd = [k \in Calls |-> NoCommand] /\ rets = [k \in Calls |-> "none"]
      /\ pcr = <<>> /\ rsp = NoResponse /\ buf = Zeroed /\ outs = {}
  BY DEF Init, ChanInit, Calls
<1>3. Calls \subseteq Nat /\ 0 \notin Calls /\ 0 \in 0 .. MaxCalls /\ <<>> \in Seq(Calls)
  BY PcrAssumption DEF Calls
<1>4. CallInv
  BY <1>2 DEF CallInv, NoCommand, Codes
<1>5. ResponseInv
  BY <1>2, <1>3 DEF ResponseInv, NoResponse
<1>6. EffectInv
  BY <1>2, <1>3 DEF Init, EffectInv, NoResponse
<1>7. ResultInv /\ OutputInv
  BY <1>2, <1>3 DEF ResultInv, OutputInv, Zeroed
<1> QED
  BY <1>1, <1>4, <1>5, <1>6, <1>7 DEF IInv

\* The calls, up to tpm_xfer.
LEMMA CallStep ==
    ASSUME IInv, NEW o \in Ops, NEW n \in BufferSizes \cup {0}, Call(o, n)
    PROVE  IInv'
<1> USE PcrAssumption
<1>1. /\ ~busy /\ current' = current + 1 /\ current + 1 \in Calls /\ busy' = TRUE
      /\ current \in 0 .. MaxCalls
      /\ status' = [status EXCEPT ![current + 1] = "submitted"]
      /\ cmd' = [cmd EXCEPT ![current + 1] = [op |-> o, len |-> n]]
      /\ buf' = Zeroed /\ outs' = {} /\ UNCHANGED <<rets, started, pcr, rsp>>
  BY DEF Call, Submit, IInv, ChanInv, ChanTypeOK, Calls, tpmVars
<1>2. status[current + 1] = "new"
  BY <1>1 DEF IInv, ChanInv, ChanTypeOK, Calls
<1>3. ASSUME NEW k \in Calls, status[k] = "executed"
      PROVE  k <= current /\ status'[k] = "executed" /\ cmd'[k] = cmd[k]
  BY <1>1, <1>3 DEF IInv, ChanInv, ChanTypeOK, CallInv, Calls
<1>4. ASSUME NEW k \in Calls, status'[k] = "executed"
      PROVE  status[k] = "executed"
  BY <1>1, <1>4 DEF IInv, ChanInv, ChanTypeOK, Calls
<1>5. ChanInv'
  BY NextChan DEF Call, ChanNext, IInv
<1>6. CallInv'
  BY <1>1 DEF IInv, CallInv, Ops, Calls
<1>7. rsp.of # 0 => rsp.of \in Calls /\ status[rsp.of] = "executed"
  BY DEF IInv, ResponseInv, Calls
<1>8. ResponseInv'
  BY <1>1, <1>3, <1>4, <1>7 DEF IInv, ResponseInv
<1>9. EffectInv'
  BY <1>1, <1>3, <1>7 DEF IInv, EffectInv, ResponseInv, Calls
<1>10. rets[current + 1] = "none"
  BY <1>1 DEF IInv, CallInv
<1>11. ResultInv'
  BY <1>1, <1>10 DEF IInv, ResultInv, CallInv, Calls
<1>12. OutputInv'
  BY <1>1, <1>10 DEF IInv, OutputInv, Zeroed
<1> QED
  BY <1>5, <1>6, <1>8, <1>9, <1>11, <1>12 DEF IInv

\* No step but the TPM's own execution changes which commands have been executed.
LEMMA ExecutedKept ==
    ASSUME ChanInv, StartCommand \/ Abandon \/ Fail \/ Succeed \/ Consume
    PROVE  /\ UNCHANGED current
           /\ \A k \in Calls : status'[k] = "executed" <=> status[k] = "executed"
BY DEF StartCommand, Abandon, Fail, Succeed, Consume, ChanInv, ChanTypeOK, Calls

\* The TPM's side of the invariant, when nothing is executed.
LEMMA TpmKept ==
    ASSUME IInv, \A k \in Calls : status'[k] = "executed" <=> status[k] = "executed",
           UNCHANGED <<cmd, tpmVars>>
    PROVE  ResponseInv' /\ EffectInv'
<1>1. rsp.of # 0 => rsp.of \in Calls
  BY PcrAssumption DEF IInv, ResponseInv, Calls
<1>2. UNCHANGED <<cmd, started, pcr, rsp>>
  BY DEF tpmVars
<1>3. ASSUME NEW i \in 1 .. Len(pcr) PROVE pcr[i] \in Calls
  BY DEF IInv, EffectInv
<1> QED
  BY <1>1, <1>2, <1>3 DEF IInv, ResponseInv, EffectInv

LEMMA QuietStep ==
    ASSUME IInv, TpmStarts \/ TpmAbandons \/ ResultUsed \/ UNCHANGED vars
    PROVE  IInv'
<1>1. CASE TpmStarts \/ TpmAbandons \/ ResultUsed
  <2>1. /\ StartCommand \/ Abandon \/ Consume
        /\ UNCHANGED busy /\ UNCHANGED <<cmd, rets, tpmVars, buf, outs>>
    BY <1>1 DEF TpmStarts, TpmAbandons, ResultUsed, StartCommand, Abandon, Consume
  <2>2. ChanInv'
    BY <2>1, NextChan DEF IInv, ChanNext
  <2>3. /\ UNCHANGED current
        /\ \A k \in Calls : status'[k] = "executed" <=> status[k] = "executed"
    BY <2>1, ExecutedKept DEF IInv
  <2>4. ResponseInv' /\ EffectInv'
    BY <2>1, <2>3, TpmKept
  <2>5. CallInv' /\ ResultInv' /\ OutputInv'
    BY <2>1, <2>3 DEF IInv, CallInv, ResultInv, OutputInv, tpmVars
  <2> QED
    BY <2>2, <2>4, <2>5 DEF IInv
<1>2. CASE UNCHANGED vars
  BY <1>2 DEF vars, chanVars, tpmVars, IInv, ChanInv, ChanTypeOK, CallInv, ResponseInv,
              EffectInv, ResultInv, OutputInv
<1> QED
  BY <1>1, <1>2

\* A call returns r.  It may return success, or that the TPM was started before,
\* only if the TPM is started; an extend only if the PCR was extended; a read only
\* with the PCR's value, received in full and not longer than the buffer.
LEMMA ReturnStep ==
    ASSUME IInv, Succeed \/ Fail, NEW r \in Codes, Return(r), UNCHANGED <<cmd, tpmVars>>,
           r \in {"SUCCESS", "ERR_ALREADY_INIT"} => started,
           r = "SUCCESS" /\ cmd[current].op = "extend" =>
             \E i \in 1 .. Len(pcr) : pcr[i] = current,
           r = "SUCCESS" /\ cmd[current].op = "read" =>
             buf'.value = pcr /\ status[current] = "executed",
           \/ buf' = Zeroed
           \/ /\ buf'.copied \in 0 .. cmd[current].len /\ buf'.garbage = 0
              /\ r = "SUCCESS",
           outs' = IF cmd[current].op = "allocate" /\ r = "SUCCESS"
                   THEN AllocateOutputs ELSE {}
    PROVE  IInv'
<1> USE PcrAssumption
<1>1. /\ busy /\ ~busy' /\ current \in Calls
      /\ rets' = [rets EXCEPT ![current] = r] /\ UNCHANGED <<cmd, started, pcr, rsp>>
      /\ rets \in [Calls -> Codes]
      /\ cmd \in [Calls -> [op : Ops \cup {"none"}, len : BufferSizes \cup {0}]]
  BY DEF IInv, CallInv, Succeed, Fail, Return, tpmVars
<1>2. ChanInv'
  BY NextChan DEF IInv, ChanNext
<1>3. /\ UNCHANGED current
      /\ \A k \in Calls : status'[k] = "executed" <=> status[k] = "executed"
  BY ExecutedKept DEF IInv
<1>4. ResponseInv' /\ EffectInv'
  BY <1>3, TpmKept
<1>5. rets'[current] = r /\ \A k \in Calls : k # current => rets'[k] = rets[k]
  BY <1>1
<1>6. CallInv'
  <2>1. rets' \in [Calls -> Codes] /\ current # 0
    BY <1>1 DEF Calls
  <2>2. \A k \in Calls : k > current => rets'[k] = "none"
    BY <1>1, <1>5 DEF IInv, CallInv, Calls
  <2> QED
    BY <1>1, <1>3, <2>1, <2>2 DEF CallInv
<1>7. ResultInv'
  BY <1>1, <1>3, <1>5 DEF IInv, ResultInv
<1>8. OutputInv'
  <2>1. cmd[current].len \in Nat
    BY <1>1
  <2>2. /\ buf'.copied \in Nat /\ buf'.garbage = 0
        /\ buf'.copied > 0 => r = "SUCCESS" /\ buf'.copied <= cmd[current].len
    BY <2>1 DEF Zeroed
  <2> QED
    BY <1>1, <1>3, <1>5, <2>2 DEF OutputInv
<1> QED
  BY <1>2, <1>4, <1>6, <1>7, <1>8 DEF IInv

\* A call whose transfer succeeds looks at the response to its own command.
LEMMA OwnResponse ==
    ASSUME IInv, Succeed
    PROVE  rsp.of = current /\ rsp.of # 0 /\ status[current] = "executed"
<1>1. current \in Calls /\ status[current] = "executed"
  BY DEF Succeed, IInv, CallInv
<1>2. current <= rsp.of /\ rsp.of \in Calls /\ status[rsp.of] = "executed"
  BY <1>1, PcrAssumption DEF IInv, ResponseInv, Calls
<1>3. rsp.of <= current
  BY <1>2 DEF IInv, ChanInv
<1> QED
  BY <1>1, <1>2, <1>3, PcrAssumption DEF Calls

\* The functions, from tpm_xfer to their return.
LEMMA ReturnSteps ==
    ASSUME IInv,
           XferFails \/ StartupReturns \/ PcrExtendReturns \/ PcrReadReturns \/ PcrAllocateReturns
    PROVE  IInv'
<1>1. CASE XferFails
  <2>1. PICK r \in {"INVALID_PARAM", "ERR_TIMEOUT", "ERR_TRANSFER"} : Return(r)
    BY <1>1 DEF XferFails
  <2>2. Fail /\ UNCHANGED <<cmd, tpmVars>> /\ buf' = Zeroed /\ outs' = {} /\ r \in Codes
    BY <1>1 DEF XferFails, Fail, IInv, CallInv, Codes
  <2> QED
    BY <2>1, <2>2, ReturnStep
<1>2. CASE StartupReturns \/ PcrExtendReturns
  <2>1. PICK o \in {"startup", "extend"} :
          Running(o) /\ Return(CodeOf(o, rsp.rc))
    BY <1>2 DEF StartupReturns, PcrExtendReturns
  <2>2. Succeed /\ UNCHANGED <<cmd, tpmVars, buf, outs>>
    BY <1>2 DEF StartupReturns, PcrExtendReturns
  <2>3. cmd[current].op = o /\ buf' = Zeroed /\ outs' = {}
    BY <2>1, <2>2 DEF Running, IInv, CallInv
  <2>4. CodeOf(o, rsp.rc) \in Codes
    BY DEF CodeOf, Codes
  <2>5. CodeOf(o, rsp.rc) \in {"SUCCESS", "ERR_ALREADY_INIT"} => started
    BY <2>2, <2>3, OwnResponse DEF CodeOf, IInv, EffectInv
  <2>6. CodeOf(o, rsp.rc) = "SUCCESS" /\ o = "extend" =>
          \E i \in 1 .. Len(pcr) : pcr[i] = current
    BY <2>2, <2>3, OwnResponse DEF CodeOf, IInv, EffectInv
  <2> QED
    BY <2>1, <2>2, <2>3, <2>4, <2>5, <2>6, ReturnStep
<1>3. CASE PcrReadReturns
  <2> DEFINE code == ReadCode(rsp, cmd[current].len)
  <2>1. Succeed /\ UNCHANGED <<cmd, tpmVars, outs>> /\ Return(code) /\ cmd[current].op = "read"
    BY <1>3 DEF PcrReadReturns, Running
  <2>2. outs' = {} /\ buf = Zeroed /\ cmd[current].len \in Nat
    BY <2>1, PcrAssumption DEF Succeed, IInv, CallInv
  <2>3. code \in Codes
    BY DEF ReadCode, Codes
  <2>4. code \in {"SUCCESS", "ERR_ALREADY_INIT"} => code = "SUCCESS" /\ rsp.rc = "OK"
    BY DEF ReadCode
  <2>5. code = "SUCCESS" => started /\ rsp.value = pcr
    BY <2>1, <2>4, OwnResponse DEF IInv, EffectInv
  <2>6. code = "SUCCESS" =>
          /\ rsp.digest \in 0 .. cmd[current].len
          /\ Beyond(DigestOffset + rsp.digest, rsp.size) = 0
    BY <2>2 DEF ReadCode, Beyond, DigestOffset, IInv, ResponseInv
  <2>7. buf' = IF code # "SUCCESS" THEN buf
               ELSE [copied |-> rsp.digest, value |-> rsp.value,
                     garbage |-> Beyond(DigestOffset + rsp.digest, rsp.size)]
    BY <1>3 DEF PcrReadReturns
  <2>8. status[current] = "executed"
    BY <2>1, OwnResponse
  <2> HIDE DEF code
  <2> QED
    BY <2>1, <2>2, <2>3, <2>4, <2>5, <2>6, <2>7, <2>8, ReturnStep
<1>4. CASE PcrAllocateReturns
  <2> DEFINE good == rsp.sessions /\ rsp.rc = "OK" /\ AllocateSizeOk(rsp.size)
  <2>1. Succeed /\ UNCHANGED <<cmd, tpmVars, buf>> /\ cmd[current].op = "allocate"
    BY <1>4 DEF PcrAllocateReturns, Running
  <2>2. buf' = Zeroed /\ outs = {}
    BY <2>1 DEF Succeed, IInv, CallInv
  <2>3. CASE ~good
    <3>1. Return("ERR_RESPONSE") /\ outs' = {} /\ "ERR_RESPONSE" \in Codes
      BY <1>4, <2>2, <2>3 DEF PcrAllocateReturns, Codes
    <3> QED
      BY <2>1, <2>2, <3>1, ReturnStep
  <2>4. CASE good
    <3>1. /\ outs' = {o \in AllocateOutputs : EndOf[o] <= rsp.size}
          /\ Return(IF outs' = AllocateOutputs THEN "SUCCESS" ELSE "ERR_RESPONSE")
      BY <1>4, <2>4 DEF PcrAllocateReturns
    <3>2. \A o \in AllocateOutputs : EndOf[o] <= rsp.size
      BY <2>4 DEF AllocateSizeOk, AllocateSize, AllocateOutputs, EndOf, IInv, ResponseInv
    <3>3. outs' = AllocateOutputs
      BY <3>1, <3>2
    <3>4. Return("SUCCESS") /\ "SUCCESS" \in Codes
      BY <3>1, <3>3 DEF Codes
    <3>5. started
      BY <2>1, <2>4, OwnResponse DEF IInv, EffectInv
    <3> QED
      BY <2>1, <2>2, <3>3, <3>4, <3>5, ReturnStep
  <2> QED
    BY <2>3, <2>4
<1> QED
  BY <1>1, <1>2, <1>3, <1>4

\* A response is that of the command executed; it is a success only if the TPM is
\* started or is being started, and holds the PCR's value if the command is a read.
LEMMA AnswersSound ==
    ASSUME IInv, NEW k \in Calls, NEW a \in Answers(k)
    PROVE  /\ a \in [of : {k}, rc : {"OK", "INITIALIZE", "OTHER"}, sessions : BOOLEAN,
                     size : Nat, digest : Nat, value : Seq(Calls)]
           /\ a.rc = "OK" => started \/ cmd[k].op = "startup"
           /\ a.rc = "INITIALIZE" /\ cmd[k].op = "startup" => started
           /\ a.rc = "OK" /\ cmd[k].op = "read" => a.value = pcr
<1> DEFINE op == cmd[k].op
<1>1. pcr \in Seq(Calls) /\ <<>> \in Seq(Calls)
  BY DEF IInv, EffectInv
<1>2. ASSUME NEW n \in Nat PROVE Sizes(n) \subseteq Nat
  BY PcrAssumption DEF Sizes
<1>3. \/ \E c \in Refusals(op) : a = [NoResponse EXCEPT !.of = k, !.rc = c]
      \/ /\ "INITIALIZE" \notin Refusals(op)
         /\ \/ /\ op = "read"
               /\ \E d \in DigestSizes :
                    a \in [of : {k}, rc : {"OK"}, sessions : {FALSE}, digest : {d},
                           value : {pcr}, size : Sizes(DigestOffset + d)]
            \/ /\ op = "allocate"
               /\ a \in [of : {k}, rc : {"OK"}, sessions : BOOLEAN, digest : {0},
                         value : {<<>>}, size : Sizes(AllocateSize)]
            \/ op \notin {"read", "allocate"} /\ a = [NoResponse EXCEPT !.of = k]
  BY DEF Answers
<1>4. CASE \E c \in Refusals(op) : a = [NoResponse EXCEPT !.of = k, !.rc = c]
  <2>1. PICK c \in Refusals(op) : a = [NoResponse EXCEPT !.of = k, !.rc = c]
    BY <1>4
  <2>2. /\ c \in {"INITIALIZE", "OTHER"}
        /\ c = "INITIALIZE" /\ op = "startup" => started
    BY DEF Refusals
  <2>3. a = [of |-> k, rc |-> c, sessions |-> FALSE, size |-> 0, digest |-> 0, value |-> <<>>]
    BY <2>1 DEF NoResponse
  <2>4. a.rc = c
    BY <2>3
  <2>5. c \in {"OK", "INITIALIZE", "OTHER"} /\ FALSE \in BOOLEAN /\ 0 \in Nat /\ k \in {k}
    BY <2>2
  <2>6. a \in [of : {k}, rc : {"OK", "INITIALIZE", "OTHER"}, sessions : BOOLEAN,
               size : Nat, digest : Nat, value : Seq(Calls)]
    BY <1>1, <2>3, <2>5, Zenon
  <2> QED
    BY <2>2, <2>4, <2>6
<1>5. "INITIALIZE" \notin Refusals(op) => started \/ op = "startup"
  BY DEF Refusals
<1>6. CASE /\ op = "read" /\ "INITIALIZE" \notin Refusals(op)
           /\ \E d \in DigestSizes :
                a \in [of : {k}, rc : {"OK"}, sessions : {FALSE}, digest : {d},
                       value : {pcr}, size : Sizes(DigestOffset + d)]
  <2>1. PICK d \in DigestSizes :
          a \in [of : {k}, rc : {"OK"}, sessions : {FALSE}, digest : {d},
                 value : {pcr}, size : Sizes(DigestOffset + d)]
    BY <1>6
  <2>2. d \in Nat /\ Sizes(DigestOffset + d) \subseteq Nat
    BY <1>2, PcrAssumption DEF DigestOffset
  <2> QED
    BY <1>1, <1>5, <1>6, <2>1, <2>2
<1>7. CASE /\ op = "allocate" /\ "INITIALIZE" \notin Refusals(op)
           /\ a \in [of : {k}, rc : {"OK"}, sessions : BOOLEAN, digest : {0},
                     value : {<<>>}, size : Sizes(AllocateSize)]
  <2>1. Sizes(AllocateSize) \subseteq Nat
    BY <1>2 DEF AllocateSize
  <2>2. /\ a = [of |-> a.of, rc |-> a.rc, sessions |-> a.sessions, digest |-> a.digest,
                value |-> a.value, size |-> a.size]
        /\ a.of \in {k} /\ a.rc \in {"OK"} /\ a.sessions \in BOOLEAN /\ a.digest \in {0}
        /\ a.value \in {<<>>} /\ a.size \in Sizes(AllocateSize)
    BY <1>7, Zenon
  <2>3. /\ a.rc \in {"OK", "INITIALIZE", "OTHER"} /\ a.rc = "OK" /\ a.digest \in Nat
        /\ a.size \in Nat
    BY <2>1, <2>2
  <2>4. a.value \in Seq(Calls)
    BY <1>1, <2>2, Zenon
  <2>5. a \in [of : {k}, rc : {"OK", "INITIALIZE", "OTHER"}, sessions : BOOLEAN,
               size : Nat, digest : Nat, value : Seq(Calls)]
    BY <2>2, <2>3, <2>4, Zenon
  <2> QED
    BY <1>5, <1>7, <2>3, <2>5
<1>8. CASE /\ op \notin {"read", "allocate"} /\ "INITIALIZE" \notin Refusals(op)
           /\ a = [NoResponse EXCEPT !.of = k]
  BY <1>1, <1>5, <1>8 DEF NoResponse
<1> QED
  BY <1>3, <1>4, <1>6, <1>7, <1>8

\* The TPM executes a command, of the running call or of one that failed.
LEMMA ExecuteStep ==
    ASSUME IInv, TpmExecutes
    PROVE  IInv'
<1> USE PcrAssumption
<1>1. PICK k \in Calls :
        /\ status[k] = "started" /\ status'[k] = "executed"
        /\ rsp' \in Answers(k)
        /\ started' = (started \/ (cmd[k].op = "startup" /\ rsp'.rc = "OK"))
        /\ pcr' = IF cmd[k].op = "extend" /\ rsp'.rc = "OK" THEN Append(pcr, k) ELSE pcr
  BY DEF TpmExecutes
<1>2. Execute /\ UNCHANGED <<current, busy, answer, cmd, rets, buf, outs>>
  BY DEF TpmExecutes, Execute
<1>3. status \in [Calls -> Status] /\ status' = [status EXCEPT ![k] = "executed"]
  BY <1>1, <1>2 DEF Execute, IInv, ChanInv, ChanTypeOK, Calls
<1>4. ChanInv'
  BY <1>2, NextChan DEF IInv, ChanNext
<1>5. \A j \in Calls : status[j] = "executed" => status'[j] = "executed" /\ j < k
  BY <1>1, <1>3 DEF IInv, ChanInv, Calls
<1>6. k <= current /\ k # 0
  BY <1>1 DEF IInv, ChanInv, Calls
<1>7. /\ rsp' \in [of : {k}, rc : {"OK", "INITIALIZE", "OTHER"}, sessions : BOOLEAN,
                   size : Nat, digest : Nat, value : Seq(Calls)]
      /\ rsp'.rc = "OK" => started \/ cmd[k].op = "startup"
      /\ rsp'.rc = "INITIALIZE" /\ cmd[k].op = "startup" => started
      /\ rsp'.rc = "OK" /\ cmd[k].op = "read" => rsp'.value = pcr
  BY <1>1, AnswersSound
<1>8. CallInv'
  BY <1>2 DEF IInv, CallInv
<1>9. ResponseInv'
  BY <1>1, <1>3, <1>5, <1>7 DEF ResponseInv, Calls
<1>10. /\ started \in BOOLEAN /\ pcr \in Seq(Calls) /\ Len(pcr) \in Nat
       /\ \A i \in 1 .. Len(pcr) : pcr[i] \in Calls /\ status[pcr[i]] = "executed"
       /\ \A i, j \in 1 .. Len(pcr) : i < j => pcr[i] < pcr[j]
  BY DEF IInv, EffectInv
<1>11. /\ pcr' \in Seq(Calls) /\ Len(pcr') \in Nat /\ Len(pcr) <= Len(pcr')
       /\ \A i \in 1 .. Len(pcr) : pcr'[i] = pcr[i]
       /\ \A i \in 1 .. Len(pcr') : i \notin 1 .. Len(pcr) => pcr'[i] = k
       /\ cmd[k].op = "extend" /\ rsp'.rc = "OK" => pcr'[Len(pcr')] = k /\ Len(pcr') > 0
       /\ Len(pcr') \in {Len(pcr), Len(pcr) + 1}
       /\ ~(cmd[k].op = "extend" /\ rsp'.rc = "OK") => pcr' = pcr
  BY <1>1, <1>10
<1>12. EffectInv'
  <2>1. started' \in BOOLEAN
    BY <1>1
  <2>2. \A i \in 1 .. Len(pcr') : status'[pcr'[i]] = "executed"
    BY <1>1, <1>5, <1>10, <1>11
  <2>3. ASSUME NEW i \in 1 .. Len(pcr'), NEW j \in 1 .. Len(pcr'), i < j
        PROVE  pcr'[i] < pcr'[j]
    <3>1. i \in 1 .. Len(pcr)
      BY <1>10, <1>11, <2>3
    <3>2. CASE j \in 1 .. Len(pcr)
      BY <1>10, <1>11, <2>3, <3>1, <3>2
    <3>3. CASE j \notin 1 .. Len(pcr)
      BY <1>5, <1>10, <1>11, <3>1, <3>3
    <3> QED
      BY <3>2, <3>3
  <2>4. rsp'.of = k /\ cmd' = cmd
    BY <1>2, <1>7
  <2>5. rsp'.rc = "OK" => started'
    BY <1>1, <1>7
  <2>6. rsp'.rc = "INITIALIZE" /\ cmd[k].op = "startup" => started'
    BY <1>1, <1>7
  <2>7. rsp'.rc = "OK" /\ cmd[k].op = "extend" => \E i \in 1 .. Len(pcr') : pcr'[i] = k
    BY <1>11
  <2>8. rsp'.rc = "OK" /\ cmd[k].op = "read" => rsp'.value = pcr'
    BY <1>7, <1>11
  <2> QED
    BY <1>11, <2>1, <2>2, <2>3, <2>4, <2>5, <2>6, <2>7, <2>8 DEF EffectInv
<1>13. ResultInv'
  <2>1. \A j \in Calls : rets[j] \in {"SUCCESS", "ERR_ALREADY_INIT"} => started'
    BY <1>1 DEF IInv, ResultInv
  <2>2. \A j \in Calls : cmd[j].op = "extend" /\ rets[j] = "SUCCESS" =>
          \E i \in 1 .. Len(pcr') : pcr'[i] = j
    BY <1>10, <1>11 DEF IInv, ResultInv
  <2>3. ~(current \in Calls /\ status[current] = "executed")
    BY <1>5, <1>6 DEF Calls
  <2>4. ~(current \in Calls /\ cmd[current].op = "read" /\ rets[current] = "SUCCESS")
    BY <2>3 DEF IInv, ResultInv
  <2> QED
    BY <1>2, <2>1, <2>2, <2>4 DEF ResultInv
<1>14. OutputInv'
  BY <1>2 DEF IInv, OutputInv
<1> QED
  BY <1>4, <1>8, <1>9, <1>12, <1>13, <1>14 DEF IInv

LEMMA NextInv == IInv /\ [Next]_vars => IInv'
<1> SUFFICES ASSUME IInv, [Next]_vars PROVE IInv'
  OBVIOUS
<1>1. CASE Startup \/ PcrExtend \/ PcrReadSingle \/ PcrAllocate
  <2>1. PICK o \in Ops, n \in BufferSizes \cup {0} : Call(o, n)
    BY <1>1 DEF Startup, PcrExtend, PcrReadSingle, PcrAllocate, Ops
  <2> QED
    BY <2>1, CallStep
<1>2. CASE TpmStarts \/ TpmAbandons \/ ResultUsed \/ UNCHANGED vars
  BY <1>2, QuietStep
<1>3. CASE TpmExecutes
  BY <1>3, ExecuteStep
<1>4. CASE \/ XferFails \/ StartupReturns \/ PcrExtendReturns \/ PcrReadReturns
           \/ PcrAllocateReturns
  BY <1>4, ReturnSteps
<1> QED
  BY <1>1, <1>2, <1>3, <1>4 DEF Next

LEMMA Invariance == Spec => []IInv
BY InitInv, NextInv, PTL DEF Spec

-----------------------------------------------------------------------------
(* Theorems.                                                               *)

\* Every variable keeps its type, and tpm_pcr_read_single never copies more than
\* pcr_digest_read_len bytes.
THEOREM TypeCorrect == Spec => []TypeOK
<1>1. ASSUME IInv PROVE TypeOK
  <2>1. current = 0 \/ current \in Calls
    BY <1>1, PcrAssumption DEF IInv, ChanInv, ChanTypeOK, Calls
  <2>2. outs \subseteq AllocateOutputs
    BY <1>1 DEF IInv, OutputInv
  <2>3. buf.copied \in 0 .. IF current = 0 THEN 0 ELSE cmd[current].len
    <3>1. CASE current = 0
      BY <1>1, <3>1 DEF IInv, CallInv, Zeroed
    <3>2. CASE current \in Calls
      <4>1. cmd[current].len \in Nat /\ current # 0
        BY <1>1, <3>2, PcrAssumption DEF IInv, CallInv, Calls
      <4> QED
        BY <1>1, <4>1 DEF IInv, OutputInv
    <3> QED
      BY <2>1, <3>1, <3>2
  <2> QED
    BY <1>1, <2>2, <2>3 DEF TypeOK, IInv, CallInv, EffectInv, Ops
<1> QED
  BY <1>1, Invariance, PTL

\* Extends take effect in the order of the calls and at most once each, and every
\* tpm_pcr_extend that returned success took effect, whatever earlier transfers
\* failed and however late the TPM executed their commands.
THEOREM ExtendsOrdered == Spec => []ExtendsInOrder
<1>1. ASSUME IInv PROVE ExtendsInOrder
  <2>1. DOMAIN pcr = 1 .. Len(pcr)
    BY <1>1 DEF IInv, EffectInv
  <2> QED
    BY <1>1, <2>1 DEF IInv, EffectInv, ResultInv, ExtendsInOrder
<1> QED
  BY <1>1, Invariance, PTL

\* The value tpm_pcr_read_single returned stays that of the PCR until the next
\* call: no command of an earlier, failed call changes it.
THEOREM ReadsCurrent == Spec => []ReadIsCurrent
<1>1. ASSUME IInv PROVE ReadIsCurrent
  BY <1>1, PcrAssumption DEF IInv, ChanInv, ChanTypeOK, ResultInv, ReadIsCurrent, Calls
<1> QED
  BY <1>1, Invariance, PTL

\* tpm_pcr_read_single copies no byte that it did not receive, whatever sizes the
\* response claims, and nothing at all when it fails.
THEOREM ReadsNeverLeak == Spec => []ReadNeverLeaks
<1>1. ASSUME IInv PROVE ReadNeverLeaks
  BY <1>1 DEF IInv, OutputInv, ReadNeverLeaks
<1> QED
  BY <1>1, Invariance, PTL

\* SUCCESS or ERR_ALREADY_INIT from any call means that the TPM is started.
THEOREM StartupIsKnown == Spec => []StartupKnown
<1>1. ASSUME IInv PROVE StartupKnown
  BY <1>1 DEF IInv, ResultInv, StartupKnown
<1> QED
  BY <1>1, Invariance, PTL

\* tpm_pcr_allocate_auth_password writes all of its outputs when it succeeds and
\* none of them otherwise.
THEOREM AllocatesAllOrNothing == Spec => []AllocateAllOrNothing
<1>1. ASSUME IInv PROVE AllocateAllOrNothing
  BY <1>1, PcrAssumption
     DEF IInv, ChanInv, ChanTypeOK, OutputInv, AllocateAllOrNothing, Calls
<1> QED
  BY <1>1, Invariance, PTL

\* The command functions use tpm_xfer only as the channel allows.
THEOREM UsesChannel == Spec => ChanSpec
BY StepsOfChannel, PTL DEF Spec, Init, ChanSpec
=============================================================================
