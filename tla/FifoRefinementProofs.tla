------------------------ MODULE FifoRefinementProofs ------------------------
(***************************************************************************)
(* Proofs about FifoInterface, continued: a transfer that succeeds returns *)
(* the answer to its own command, and tpm_xfer is a CommandChannel.        *)
(***************************************************************************)
EXTENDS FifoInterfaceProofs

\* Where the library is in tpm2_fifo_receive.
Reading ==
    \/ pc \in {"wait_avail", "read_data"}
    \/ pc \in {"burst_lo", "burst_hi"} /\ fr.part # "send"

\* The function running, location by location; a command has been written in full
\* when the library waits for the TPM to accept it.
PlaceInv ==
    /\ pc \in {"request_use", "wait_active", "get_vendid", "get_revid"} => op = "init"
    /\ pc \in {"read_access", "relinquish"} => op = "close"
    /\ Submitting \/ Reading => op = "xfer" /\ calls \in Calls
    /\ pc \in {"wait_valid", "write_go"} => fr.index = fr.len

\* How much of its response tpm_xfer has.
Received(n) ==
    /\ \A i \in 0 .. HeaderSize - 1 : i < n => hdr[i] = <<calls, i>>
    /\ \A i \in 0 .. BufSize - 1 :
         HeaderSize + i < n /\ HeaderSize + i < rsp.size => data[i] = <<calls, HeaderSize + i>>

\* The TPM holds the response to the current call's command.
Answered == dst = "completion" /\ rsp.cmd = calls /\ execs[calls] = 1

\* The TPM lost the command and answers nothing but ones.
NoAnswer ==
    /\ dst = "idle" /\ fr.part = "header"
    /\ fr.size < HeaderSize /\ (fr.size > 0 => hdr[0] = Junk)

\* The TPM is executing the command, and nothing has been read.
Awaited ==
    /\ dst = "execution" /\ rx.cmd = calls
    /\ pc = "wait_avail" /\ fr.part = "header" /\ fr.size = 0

\* The header is being read, or the rest of a response that fits the buffer; the
\* TPM has handed out what was read, and ones beyond the end of the response.
HeaderRead ==
    /\ Answered /\ fr.part = "header"
    /\ fr.size < HeaderSize /\ rsp.pos = fr.size /\ Received(fr.size)

RestRead ==
    /\ Answered /\ fr.part = "rest"
    /\ fr.size >= HeaderSize /\ fr.expected = rsp.size /\ rsp.size <= BufSize
    /\ rsp.pos = IF fr.size < ResponseBytes THEN fr.size ELSE ResponseBytes
    /\ Received(fr.size)
    /\ pc # "wait_avail" => fr.size - HeaderSize < fr.expected

AnswerInv == Reading => NoAnswer \/ Awaited \/ HeaderRead \/ RestRead

\* After a transfer that succeeded the TPM still holds the response.
SuccessInv ==
    pc = "idle" /\ op = "xfer" /\ ret = "SUCCESS" =>
        calls \in Calls /\ Answered /\ rsp.size <= BufSize
        /\ Received(BufSize)

ReceiveInv == PlaceInv /\ AnswerInv /\ SuccessInv
-----------------------------------------------------------------------------
LEMMA NextPlace == IInv /\ ExecInv /\ PlaceInv /\ [Next]_vars => PlaceInv'
<1> SUFFICES ASSUME IInv, ExecInv, PlaceInv, [Next]_vars PROVE PlaceInv'
  OBVIOUS
<1> USE FifoAssumption
<1>0. /\ FrameInv /\ SubmitInv /\ fr \in Frame /\ calls \in 0 .. MaxCalls
  BY DEF IInv, ExecInv, TypeOK, HostTypeOK
<1>1. ASSUME pc' = "idle" PROVE PlaceInv'
  BY <1>1 DEF PlaceInv, Submitting, Sending, Reading
<1>2. CASE \/ AccessFails \/ WaitTimesOut \/ BurstTimesOut \/ Relinquish
           \/ InterfaceInitRefused
  BY <1>1, <1>2 DEF AccessFails, WaitTimesOut, BurstTimesOut, Relinquish, LateError, Fail,
                    Return, InterfaceInitRefused
<1>3. CASE \/ (\E l \in Localities : InterfaceInit(l) \/ InterfaceClose(l))
           \/ RequestUse \/ ActiveLocality \/ GetInfo \/ ReadAccess
  BY <1>3 DEF InterfaceInit, InterfaceClose, RequestUse, ActiveLocality, GetInfo, ReadAccess,
              LateError, Fail, Return, PlaceInv, Submitting, Sending, Reading
<1>4. ASSUME NEW n \in CmdSizes, Xfer(n) PROVE PlaceInv'
  <2>1. pc' = "status" /\ op' = "xfer" /\ calls' \in Calls
    BY <1>0, <1>4 DEF Xfer, Calls
  <2> QED
    BY <2>1 DEF PlaceInv
<1>5. CASE ReadStatus \/ Prepare \/ WaitReady
  <2>1. /\ UNCHANGED <<op, calls>> /\ Submitting
        /\ pc' \in {"idle", "prepare", "wait_ready", "write_header"}
    BY <1>5 DEF ReadStatus, Prepare, WaitReady, LateError, Fail, Return, Submitting
  <2> QED
    BY <2>1 DEF PlaceInv
<1>6. CASE WriteHeader \/ WriteData
  <2>1. Submitting /\ UNCHANGED <<op, calls>>
    BY <1>6 DEF WriteHeader, WriteData, Submitting, Sending
  <2>2. \/ pc' = "idle"
        \/ /\ pc' \in {"write_header", "write_data", "burst_lo", "wait_valid"}
           /\ pc' = "wait_valid" => fr'.index = fr'.len
    <3>1. CASE WriteHeader
      <4>1. /\ fr.index \in Nat /\ fr.index < HeaderSize /\ fr.len \in Nat
            /\ fr.len >= HeaderSize
        BY <1>0, <3>1 DEF WriteHeader, FrameInv, Sending, Frame
      <4>2. \/ pc' = "idle"
            \/ /\ fr' = [fr EXCEPT !.index = @ + 1]
               /\ pc' = IF fr.index + 1 < HeaderSize THEN "write_header"
                        ELSE IF fr.index + 1 < fr.len THEN "burst_lo"
                        ELSE "wait_valid"
        BY <3>1 DEF WriteHeader, LateError, Fail, Return
      <4> QED
        BY <1>0, <4>1, <4>2 DEF Frame
    <3>2. CASE WriteData
      <4>1. fr.index \in Nat /\ fr.len \in Nat /\ fr.index < fr.len
        BY <1>0, <3>2 DEF WriteData, FrameInv, Sending, Frame
      <4>2. \/ pc' = "idle"
            \/ /\ fr' = [fr EXCEPT !.index = @ + 1, !.burst = @ - 1]
               /\ pc' = IF fr.index + 1 >= fr.len THEN "wait_valid"
                        ELSE IF fr.burst - 1 > 0 THEN "write_data"
                        ELSE "burst_lo"
        BY <3>2 DEF WriteData, LateError, Fail, Return
      <4>3. pc' = "idle" \/ (fr'.index = fr.index + 1 /\ fr'.len = fr.len)
        BY <1>0, <4>2 DEF Frame
      <4> QED
        BY <4>1, <4>2, <4>3
    <3> QED
      BY <1>6, <3>1, <3>2
  <2> QED
    BY <2>1, <2>2, <1>1 DEF PlaceInv
<1>7. CASE BurstLow \/ BurstHigh
  <2>1. (Submitting \/ Reading) /\ UNCHANGED <<op, calls>>
    BY <1>7 DEF BurstLow, BurstHigh, Submitting, Sending, Reading
  <2>2. pc' \in {"burst_lo", "burst_hi", "write_data", "read_data"}
    BY <1>7 DEF BurstLow, BurstHigh
  <2> QED
    BY <2>1, <2>2 DEF PlaceInv
<1>8. CASE WaitValid \/ WriteGo
  <2>1. /\ Submitting /\ UNCHANGED <<op, calls>> /\ fr.index = fr.len
        /\ \/ pc' = "idle"
           \/ pc' = "wait_avail"
           \/ pc' = "write_go" /\ UNCHANGED fr
    BY <1>8 DEF WaitValid, WriteGo, LateError, Fail, Return, Submitting, Sending, PlaceInv
  <2> QED
    BY <2>1 DEF PlaceInv, Submitting, Sending, Reading
<1>9. CASE WaitAvail \/ ReadData
  <2>1. /\ Reading /\ UNCHANGED <<op, calls>>
        /\ pc' \in {"idle", "wait_avail", "burst_lo", "read_data"}
    BY <1>9 DEF WaitAvail, ReadData, HeaderReceived, LateError, Fail, Return, Reading
  <2> QED
    BY <2>1 DEF PlaceInv
<1>10. CASE TpmStep \/ UNCHANGED vars
  <2>1. UNCHANGED <<pc, op, calls, fr>>
    BY <1>10 DEF TpmStep, TpmBecomesReady, TpmExecutes, TpmGrants, OtherRequests,
                 OtherRelinquishes, host, vars
  <2> QED
    BY <2>1 DEF PlaceInv, Submitting, Sending, Reading
<1> QED
  BY <1>2, <1>3, <1>4, <1>5, <1>6, <1>7, <1>8, <1>9, <1>10 DEF Next, HostStep, CallerStep

\* A byte the library reads while the TPM has no answer.
LEMMA ReadNoAnswer ==
    ASSUME IInv, NoAnswer, pc = "read_data", ReadData
    PROVE  /\ pc' = "idle" => ret' # "SUCCESS"
           /\ pc' # "idle" => NoAnswer'
<1> USE FifoAssumption
<1>0. fr \in Frame /\ fr.size \in Nat /\ hdr \in [0 .. HeaderSize - 1 -> Byte]
  BY DEF IInv, TypeOK, BufferTypeOK, Frame
<1>1. FifoByte = Junk /\ UNCHANGED <<dst, rsp>>
  BY DEF NoAnswer, FifoByte, ReadData, FifoAdvances
<1> DEFINE h == [hdr EXCEPT ![fr.size] = Junk]
<1>2. h[0] = Junk
  BY <1>0 DEF NoAnswer
<1>3. Junk # <<rsp.cmd, 0>>
  BY DEF Junk
<1>4. DeclaredSize(h) = BufSize + 1
  <2>1. 0 \in 0 .. HeaderSize - 1
    OBVIOUS
  <2>2. h # [i \in 0 .. HeaderSize - 1 |-> <<rsp.cmd, i>>]
    BY <1>2, <1>3, <2>1
  <2> QED
    BY <2>2 DEF DeclaredSize
<1>5. LoopIndex(fr.size) = fr.size /\ ReadSize = HeaderSize
  BY DEF NoAnswer, LoopIndex, ReadSize
<1>6. \/ pc' = "idle" /\ ret' # "SUCCESS"
      \/ /\ fr.size + 1 < HeaderSize /\ hdr' = h /\ fr'.size = fr.size + 1
         /\ fr'.part = fr.part /\ pc' \in {"read_data", "burst_lo"}
  <2>1. CASE LateError
    BY <2>1 DEF LateError, Fail, Return
  <2>2. CASE fr.size + 1 >= HeaderSize /\ HeaderReceived(h)
    BY <1>4, <2>2 DEF HeaderReceived, Fail, Return
  <2>3. CASE /\ fr.size + 1 < HeaderSize /\ hdr' = h
             /\ IF fr.burst - 1 > 0 /\ LoopIndex(fr.size + 1) < ReadSize
                  THEN fr' = [fr EXCEPT !.size = fr.size + 1, !.burst = @ - 1]
                ELSE fr' = [fr EXCEPT !.size = fr.size + 1, !.burst = 0]
             /\ pc' \in {"read_data", "burst_lo"}
    BY <1>0, <2>3 DEF Frame
  <2> HIDE DEF h
  <2> QED
    BY <1>0, <1>1, <1>5, <2>1, <2>2, <2>3 DEF ReadData, NoAnswer, h
<1>7. CASE /\ fr.size + 1 < HeaderSize /\ hdr' = h /\ fr'.size = fr.size + 1
           /\ fr'.part = fr.part /\ pc' \in {"read_data", "burst_lo"}
  <2>1. hdr'[0] = Junk
    BY <1>2, <1>7
  <2>2. dst' = "idle" /\ fr'.part = "header" /\ fr'.size < HeaderSize
    BY <1>1, <1>7 DEF NoAnswer
  <2> QED
    BY <1>7, <2>1, <2>2 DEF NoAnswer
<1> QED
  BY <1>6, <1>7

\* A byte read while the TPM holds the answer: the next one, or ones behind the end.
LEMMA AnswerByte ==
    ASSUME IInv, OwnerInv, calls \in Calls, Answered, FifoAdvances, UNCHANGED calls
    PROVE  /\ Answered' /\ rsp'.size = rsp.size
           /\ rsp.pos < ResponseBytes =>
                FifoByte = <<calls, rsp.pos>> /\ rsp'.pos = rsp.pos + 1
           /\ ~(rsp.pos < ResponseBytes) => rsp' = rsp
<1>1. /\ rsp \in [cmd : 0 .. MaxCalls, size : Nat, pos : Nat]
      /\ Mine /\ dst = "completion" /\ rsp.cmd = calls /\ UNCHANGED <<dst, execs>>
  BY DEF IInv, TypeOK, TpmTypeOK, OwnerInv, Answered, FifoAdvances
<1>2. <<calls, rsp.pos>> # Junk
  <2>1. calls # 0
    BY FifoAssumption DEF Calls
  <2> QED
    BY <2>1 DEF Junk
<1>3. CASE rsp.pos < ResponseBytes
  <2>1. FifoByte = <<calls, rsp.pos>> /\ rsp' = [rsp EXCEPT !.pos = @ + 1]
    BY <1>1, <1>2, <1>3 DEF FifoByte, FifoAdvances
  <2>2. rsp'.pos = rsp.pos + 1 /\ rsp'.size = rsp.size /\ rsp'.cmd = rsp.cmd
    BY <1>1, <2>1
  <2> QED
    BY <1>1, <1>3, <2>1, <2>2 DEF Answered
<1>4. CASE ~(rsp.pos < ResponseBytes)
  <2>1. rsp' = rsp
    BY <1>4 DEF FifoByte, FifoAdvances
  <2> QED
    BY <1>1, <1>4, <2>1 DEF Answered
<1> QED
  BY <1>3, <1>4

\* What the library is left with after reading one more byte of the answer.
ByteOutcome ==
    \/ pc' = "idle" /\ ret' # "SUCCESS"
    \/ pc' = "idle" /\ Answered' /\ rsp'.size <= BufSize /\ Received(BufSize)'
    \/ pc' # "idle" /\ (HeaderRead' \/ RestRead')

LEMMA ReadHeader ==
    ASSUME IInv, OwnerInv, calls \in Calls, HeaderRead, pc = "read_data", ReadData
    PROVE  ByteOutcome
<1> USE FifoAssumption
<1>0. /\ fr \in Frame /\ fr.size \in Nat /\ hdr \in [0 .. HeaderSize - 1 -> Byte]
      /\ rsp.size \in Nat /\ rsp.pos = fr.size /\ fr.size < HeaderSize /\ rsp.cmd = calls
      /\ fr.part = "header"
  BY DEF IInv, TypeOK, BufferTypeOK, TpmTypeOK, Frame, HeaderRead, Answered
<1>1. ResponseBytes \in Nat /\ ResponseBytes >= HeaderSize
  BY <1>0 DEF ResponseBytes
<1>2. UNCHANGED calls /\ FifoAdvances
  BY DEF ReadData
<1>3. /\ Answered' /\ rsp'.size = rsp.size /\ UNCHANGED calls
      /\ FifoByte = <<calls, fr.size>> /\ rsp'.pos = fr.size + 1
  BY <1>0, <1>1, <1>2, AnswerByte DEF HeaderRead
<1> DEFINE h == [hdr EXCEPT ![fr.size] = <<calls, fr.size>>]
<1>4. \A i \in 0 .. HeaderSize - 1 : i < fr.size + 1 => h[i] = <<calls, i>>
  BY <1>0 DEF HeaderRead, Received
<1>5. h \in [0 .. HeaderSize - 1 -> Byte]
  <2>1. <<calls, fr.size>> \in Byte
    BY <1>0 DEF IInv, TypeOK, HostTypeOK, Byte
  <2> QED
    BY <1>0, <2>1
<1> HIDE DEF h
<1>6. CASE LateError
  BY <1>6 DEF LateError, Fail, Return, ByteOutcome
<1>7. CASE fr.size + 1 >= HeaderSize /\ HeaderReceived(h)
  <2>1. h = [i \in 0 .. HeaderSize - 1 |-> <<rsp.cmd, i>>]
    <3>1. \A i \in 0 .. HeaderSize - 1 : h[i] = <<rsp.cmd, i>>
      BY <1>0, <1>4, <1>7
    <3> QED
      BY <1>5, <3>1
  <2>2. DeclaredSize(h) = rsp.size
    BY <2>1 DEF DeclaredSize
  <2>3. CASE rsp.size > BufSize
    BY <1>7, <2>2, <2>3 DEF HeaderReceived, Fail, Return, ByteOutcome
  <2>4. CASE rsp.size <= BufSize
    <3>1. /\ hdr' = h
          /\ IF rsp.size = HeaderSize THEN pc' = "idle"
             ELSE /\ pc' = "wait_avail"
                  /\ fr' = [NoFrame EXCEPT !.part = "rest", !.size = HeaderSize,
                                           !.expected = rsp.size]
      BY <1>0, <1>7, <2>2, <2>4 DEF HeaderReceived, Return
    <3>2. \A i \in 0 .. HeaderSize - 1 : hdr'[i] = <<calls', i>>
      BY <1>0, <1>3, <1>4, <1>7, <3>1
    <3>3. CASE rsp.size = HeaderSize
      <4>1. pc' = "idle" /\ rsp'.size <= BufSize
        BY <1>3, <2>4, <3>1, <3>3
      <4>2. Received(BufSize)'
        BY <1>3, <3>2, <3>3 DEF Received
      <4> QED
        BY <1>3, <4>1, <4>2 DEF ByteOutcome
    <3>4. CASE rsp.size # HeaderSize
      <4>1. pc' = "wait_avail" /\ fr'.part = "rest" /\ fr'.size = HeaderSize
            /\ fr'.expected = rsp.size
        BY <3>1, <3>4 DEF NoFrame
      <4>2. Received(HeaderSize)'
        BY <3>2 DEF Received
      <4>3. ResponseBytes' = ResponseBytes /\ rsp'.pos = HeaderSize
        BY <1>0, <1>3, <1>7 DEF ResponseBytes
      <4>4. rsp'.pos = IF fr'.size < ResponseBytes' THEN fr'.size ELSE ResponseBytes'
        BY <1>1, <4>1, <4>3
      <4> QED
        BY <1>3, <2>4, <4>1, <4>2, <4>4 DEF ByteOutcome, RestRead
    <3> QED
      BY <3>3, <3>4
  <2> QED
    BY <1>0, <2>3, <2>4
<1>8. CASE /\ fr.size + 1 < HeaderSize /\ hdr' = h /\ UNCHANGED data
           /\ \/ fr' = [fr EXCEPT !.size = fr.size + 1, !.burst = @ - 1]
              \/ fr' = [fr EXCEPT !.size = fr.size + 1, !.burst = 0]
           /\ pc' \in {"read_data", "burst_lo"}
  <2>1. fr'.size = fr.size + 1 /\ fr'.part = "header"
    BY <1>0, <1>8 DEF Frame
  <2>2. \A i \in 0 .. HeaderSize - 1 : i < fr'.size => hdr'[i] = <<calls', i>>
    BY <1>3, <1>4, <1>8, <2>1
  <2>3. Received(fr.size)'
    BY <1>0, <1>8, <2>1, <2>2 DEF Received
  <2>4. HeaderRead'
    BY <1>3, <1>8, <2>1, <2>3 DEF HeaderRead
  <2> QED
    BY <1>8, <2>4 DEF ByteOutcome
<1>9. LoopIndex(fr.size) = fr.size /\ ReadSize = HeaderSize
  BY <1>0 DEF LoopIndex, ReadSize
<1> QED
  BY <1>0, <1>3, <1>6, <1>7, <1>8, <1>9 DEF ReadData, h

LEMMA ReadRest ==
    ASSUME IInv, OwnerInv, calls \in Calls, RestRead, pc = "read_data", ReadData
    PROVE  ByteOutcome
<1> USE FifoAssumption
<1>0. /\ fr \in Frame /\ fr.size \in Nat /\ data \in [0 .. BufSize - 1 -> Byte]
      /\ rsp.size \in Nat /\ fr.size >= HeaderSize /\ fr.part = "rest"
      /\ fr.expected = rsp.size /\ rsp.size <= BufSize
      /\ fr.size - HeaderSize \in 0 .. BufSize - 1 /\ rsp.pos \in Nat
      /\ rsp.pos = IF fr.size < ResponseBytes THEN fr.size ELSE ResponseBytes
  <2>1. /\ fr \in Frame /\ data \in [0 .. BufSize - 1 -> Byte]
        /\ rsp.size \in Nat /\ rsp.pos \in Nat
    BY DEF IInv, TypeOK, BufferTypeOK, TpmTypeOK
  <2>2. fr.size \in Nat
    BY <2>1 DEF Frame
  <2>3. /\ fr.size >= HeaderSize /\ fr.part = "rest" /\ fr.expected = rsp.size
        /\ rsp.size <= BufSize /\ fr.size - HeaderSize < fr.expected
        /\ rsp.pos = IF fr.size < ResponseBytes THEN fr.size ELSE ResponseBytes
    BY DEF RestRead
  <2> QED
    BY <2>1, <2>2, <2>3
<1>1. /\ ResponseBytes \in Nat /\ rsp.size <= ResponseBytes
      /\ fr.size < ResponseBytes => fr.size < rsp.size
  BY <1>0 DEF ResponseBytes
<1>2. UNCHANGED calls /\ FifoAdvances
  BY DEF ReadData
<1>3. /\ Answered' /\ rsp'.size = rsp.size /\ UNCHANGED calls
      /\ rsp.pos < ResponseBytes => FifoByte = <<calls, rsp.pos>> /\ rsp'.pos = rsp.pos + 1
      /\ ~(rsp.pos < ResponseBytes) => rsp' = rsp
  BY <1>2, AnswerByte DEF RestRead
<1>4. /\ fr.size < rsp.size => FifoByte = <<calls, fr.size>>
      /\ rsp'.pos = IF fr.size + 1 < ResponseBytes' THEN fr.size + 1 ELSE ResponseBytes'
  <2>1. ResponseBytes' = ResponseBytes
    BY <1>3 DEF ResponseBytes
  <2> QED
    BY SMTT(30), <1>0, <1>1, <1>3, <2>1
<1> DEFINE d == [data EXCEPT ![fr.size - HeaderSize] = FifoByte]
<1>5. \A i \in 0 .. BufSize - 1 :
        HeaderSize + i < fr.size + 1 /\ HeaderSize + i < rsp.size =>
          d[i] = <<calls, HeaderSize + i>>
  <2> SUFFICES ASSUME NEW i \in 0 .. BufSize - 1,
                      HeaderSize + i < fr.size + 1, HeaderSize + i < rsp.size
               PROVE  d[i] = <<calls, HeaderSize + i>>
    OBVIOUS
  <2>1. CASE i = fr.size - HeaderSize
    <3>1. HeaderSize + i = fr.size /\ fr.size < rsp.size
      BY <1>0, <2>1
    <3> QED
      BY <1>0, <1>4, <2>1, <3>1
  <2>2. CASE i # fr.size - HeaderSize
    <3>1. HeaderSize + i < fr.size
      BY <1>0, <2>2
    <3> QED
      BY <1>0, <2>2, <3>1 DEF RestRead, Received
  <2> QED
    BY <2>1, <2>2
<1> HIDE DEF d
<1>6. CASE LateError
  BY <1>6 DEF LateError, Fail, Return, ByteOutcome
<1>7. CASE data' = d /\ UNCHANGED hdr
  <2>1. \A i \in 0 .. HeaderSize - 1 : hdr'[i] = <<calls', i>>
    BY <1>0, <1>3, <1>7 DEF RestRead, Received
  <2>2. CASE \/ /\ fr' = [fr EXCEPT !.size = fr.size + 1, !.burst = @ - 1]
                /\ pc' = "read_data" /\ fr.size + 1 - HeaderSize < fr.expected
             \/ /\ fr' = [fr EXCEPT !.size = fr.size + 1, !.burst = 0]
                /\ pc' = "burst_lo" /\ fr.size + 1 < fr.expected
    <3>1. fr'.size = fr.size + 1 /\ fr'.part = "rest" /\ fr'.expected = fr.expected
      BY <1>0, <2>2 DEF Frame
    <3>2. fr.expected \in Nat /\ fr.size + 1 - HeaderSize < fr.expected
      BY <1>0, <2>2
    <3>3. fr'.size - HeaderSize < fr'.expected /\ fr'.size >= HeaderSize /\ pc' # "idle"
      BY <1>0, <2>2, <3>1, <3>2
    <3>4. Received(fr.size)'
      BY <1>3, <1>5, <1>7, <2>1, <3>1 DEF Received
    <3>5. rsp'.pos = IF fr'.size < ResponseBytes' THEN fr'.size ELSE ResponseBytes'
      BY <1>4, <3>1
    <3>6. RestRead'
      BY <1>0, <1>3, <3>1, <3>3, <3>4, <3>5 DEF RestRead
    <3> QED
      BY <3>3, <3>6 DEF ByteOutcome
  <2>3. CASE Return("SUCCESS") /\ ~(fr.size + 1 < fr.expected)
    <3>1. ASSUME NEW i \in 0 .. BufSize - 1, HeaderSize + i < rsp'.size
          PROVE  data'[i] = <<calls', HeaderSize + i>>
      <4>1. HeaderSize + i < fr.size + 1 /\ HeaderSize + i < rsp.size
        BY <1>0, <1>3, <2>3, <3>1
      <4> QED
        BY <1>3, <1>5, <1>7, <4>1
    <3>2. Received(BufSize)'
      BY <2>1, <3>1 DEF Received
    <3> QED
      BY <1>0, <1>3, <2>3, <3>2 DEF ByteOutcome, Return
  <2>4. /\ LoopIndex(fr.size + 1) = fr.size + 1 - HeaderSize /\ ReadSize = fr.expected
        /\ fr.part # "header"
    BY <1>0 DEF LoopIndex, ReadSize
  <2> QED
    BY <1>6, <2>2, <2>3, <2>4 DEF ReadData
<1>8. LoopIndex(fr.size) = fr.size - HeaderSize /\ fr.part # "header"
  BY <1>0 DEF LoopIndex
<1> QED
  BY <1>6, <1>7, <1>8 DEF ReadData, d

\* What WaitAvail sees: the TPM does not offer an answer it does not have.
LEMMA AvailMeansAnswer ==
    ASSUME ExecInv, AnswerInv, WaitAvail
    PROVE  NoAnswer \/ HeaderRead \/ RestRead
<1>1. Reading
  BY DEF WaitAvail, Reading
<1>2. ~Awaited
  <2> SUFFICES ASSUME Awaited PROVE FALSE
    OBVIOUS
  <2>1. Mine /\ dst # "completion"
    BY DEF Awaited, ExecInv, OwnerInv
  <2>2. \A s \in StatusReads : s.avail = FALSE
    BY <2>1 DEF StatusReads
  <2> QED
    BY <2>2 DEF WaitAvail
<1> QED
  BY <1>1, <1>2 DEF AnswerInv

\* The TPM's own steps while the library waits for an answer or reads it.
LEMMA TpmKeepsAnswer ==
    ASSUME IInv, ExecInv, PlaceInv, AnswerInv, TpmStep \/ UNCHANGED vars
    PROVE  AnswerInv'
<1> SUFFICES ASSUME Reading' PROVE (NoAnswer \/ Awaited \/ HeaderRead \/ RestRead)'
  BY DEF AnswerInv
<1>1. UNCHANGED <<pc, fr, calls, hdr, data, locality>>
  BY DEF TpmStep, TpmBecomesReady, TpmExecutes, TpmGrants, OtherRequests, OtherRelinquishes,
         host, vars
<1>2. Reading /\ calls \in Calls
  BY <1>1 DEF Reading, PlaceInv
<1>3. NoAnswer \/ Awaited \/ HeaderRead \/ RestRead
  BY <1>2 DEF AnswerInv
<1>4. CASE UNCHANGED <<dst, rx, rsp, execs>>
  BY <1>1, <1>3, <1>4 DEF NoAnswer, Awaited, HeaderRead, RestRead, Answered, Received,
                          ResponseBytes
<1>5. CASE TpmExecutes
  <2>1. Awaited
    BY <1>3, <1>5 DEF TpmExecutes, NoAnswer, HeaderRead, RestRead, Answered
  <2>2. /\ rx.ok /\ execs[calls] = 0 /\ rx.cmd = calls
        /\ execs \in [0 .. MaxCalls -> Nat] /\ calls \in 0 .. MaxCalls
    BY <2>1 DEF Awaited, ExecInv, ReceivedInv, IInv, TypeOK, HostTypeOK, TpmTypeOK
  <2>3. dst' = "completion" /\ execs' = [execs EXCEPT ![calls] = @ + 1]
    BY <1>5, <2>2 DEF TpmExecutes
  <2>4. rsp'.cmd = calls /\ rsp'.pos = 0
    BY <1>5, <2>2 DEF TpmExecutes
  <2>5. Answered'
    BY <1>1, <2>2, <2>3, <2>4 DEF Answered
  <2>6. fr'.part = "header" /\ fr'.size = 0
    BY <1>1, <2>1 DEF Awaited
  <2>7. Received(fr.size)'
    BY <2>6, FifoAssumption DEF Received
  <2> QED
    BY <2>4, <2>5, <2>6, <2>7, FifoAssumption DEF HeaderRead
<1>6. CASE TpmBecomesReady
  BY <1>3, <1>6 DEF TpmBecomesReady, NoAnswer, Awaited, HeaderRead, RestRead, Answered
<1>7. CASE TpmGrants \/ OtherRelinquishes
  <2>1. ~Mine
    BY <1>7, FifoAssumption
       DEF TpmGrants, OtherRelinquishes, Mine, IInv, TypeOK, HostTypeOK, NoLocality
  <2>2. dst = "idle" /\ dst' = "idle"
    BY <1>7, <2>1 DEF TpmGrants, OtherRelinquishes, ExecInv, OwnerInv
  <2> QED
    BY <1>1, <1>3, <2>2 DEF NoAnswer, Awaited, HeaderRead, RestRead, Answered
<1>8. CASE OtherRequests \/ UNCHANGED vars
  BY <1>4, <1>8 DEF OtherRequests, vars
<1> QED
  BY <1>5, <1>6, <1>7, <1>8 DEF TpmStep

LEMMA NextAnswer ==
    IInv /\ ExecInv /\ PlaceInv /\ AnswerInv /\ [Next]_vars => AnswerInv'
<1> SUFFICES ASSUME IInv, ExecInv, PlaceInv, AnswerInv, [Next]_vars PROVE AnswerInv'
  OBVIOUS
<1> USE FifoAssumption
<1>0. FrameInv /\ OwnerInv /\ SubmitInv /\ fr \in Frame
  BY DEF IInv, ExecInv, TypeOK
<1>1. ASSUME ~Reading' PROVE AnswerInv'
  BY <1>1 DEF AnswerInv
<1>2. CASE \/ AccessFails \/ WaitTimesOut \/ BurstTimesOut \/ GetInfo \/ Relinquish
           \/ InterfaceInitRefused
           \/ (\E l \in Localities : InterfaceInit(l) \/ InterfaceClose(l))
           \/ RequestUse \/ ActiveLocality \/ ReadAccess
           \/ (\E n \in CmdSizes : Xfer(n)) \/ ReadStatus \/ Prepare \/ WaitReady
           \/ WaitValid
  BY <1>1, <1>2
     DEF AccessFails, WaitTimesOut, BurstTimesOut, GetInfo, Relinquish, InterfaceInitRefused,
         InterfaceInit, InterfaceClose, RequestUse, ActiveLocality, ReadAccess, Xfer,
         ReadStatus, Prepare, WaitReady, WaitValid, LateError, Fail, Return, Reading
<1>3. CASE WriteHeader \/ WriteData
  <2>1. Sending
    BY <1>3 DEF WriteHeader, WriteData, Sending
  <2>2. fr.part = "send"
    BY <1>0, <2>1 DEF FrameInv
  <2>3. pc' = "idle" \/ (pc' \notin {"wait_avail", "read_data"} /\ fr'.part = "send")
    BY <1>0, <1>3, <2>2 DEF WriteHeader, WriteData, LateError, Fail, Return, Frame
  <2> QED
    BY <1>1, <2>3 DEF Reading
<1>4. CASE WriteGo
  <2>1. CASE pc' = "idle"
    BY <1>1, <2>1 DEF Reading
  <2>2. CASE pc' # "idle"
    <3>1. /\ pc' = "wait_avail" /\ fr' = [NoFrame EXCEPT !.part = "header"] /\ Sending
          /\ fr.index = fr.len /\ fr.len \in HeaderSize .. BufSize
          /\ UNCHANGED <<rx, calls>> /\ Go
      BY <1>0, <1>4, <2>2 DEF WriteGo, Go, LateError, Fail, Return, Sending, FrameInv,
                              PlaceInv
    <3>2. fr'.part = "header" /\ fr'.size = 0
      BY <3>1 DEF NoFrame
    <3>3. dst = "idle" \/ (dst = "reception" /\ rx.cmd = calls /\ rx.n = rx.len)
      BY <1>0, <3>1 DEF SubmitInv
    <3>4. CASE dst = "idle"
      <4>1. dst' = "idle"
        BY <3>1, <3>4 DEF Go
      <4> QED
        BY <3>2, <4>1 DEF AnswerInv, NoAnswer
    <3>5. CASE dst = "reception" /\ rx.cmd = calls /\ rx.n = rx.len
      <4>1. dst' = "execution" /\ rx'.cmd = calls'
        BY <1>0, <3>1, <3>5 DEF Go, OwnerInv
      <4> QED
        BY <3>1, <3>2, <4>1 DEF AnswerInv, Awaited
    <3> QED
      BY <3>3, <3>4, <3>5
  <2> QED
    BY <2>1, <2>2
<1>5. CASE BurstLow \/ BurstHigh
  <2>1. CASE fr.part = "send"
    <3>1. fr'.part = "send" /\ pc' \in {"burst_lo", "burst_hi", "write_data"}
      BY <1>0, <1>5, <2>1 DEF BurstLow, BurstHigh, Frame
    <3> QED
      BY <1>1, <3>1 DEF Reading
  <2>2. CASE fr.part # "send"
    <3>1. Reading /\ pc # "wait_avail"
      BY <1>5, <2>2 DEF BurstLow, BurstHigh, Reading
    <3>2. NoAnswer \/ HeaderRead \/ RestRead
      BY <3>1 DEF AnswerInv, Awaited
    <3>3. /\ fr'.part = fr.part /\ fr'.size = fr.size /\ fr'.expected = fr.expected
          /\ UNCHANGED <<dst, rsp, execs, calls, hdr, data>> /\ pc' # "wait_avail"
      BY <1>0, <1>5 DEF BurstLow, BurstHigh, tpm, Frame
    <3>4. ResponseBytes' = ResponseBytes /\ (Received(fr.size) => Received(fr.size)')
      BY <3>3 DEF ResponseBytes, Received
    <3>5. NoAnswer => NoAnswer'
      BY <3>3 DEF NoAnswer
    <3>6. HeaderRead => HeaderRead'
      BY <3>3, <3>4 DEF HeaderRead, Answered
    <3>7. RestRead => RestRead'
      BY <3>1, <3>3, <3>4 DEF RestRead, Answered
    <3> QED
      BY <3>2, <3>5, <3>6, <3>7 DEF AnswerInv
  <2> QED
    BY <2>1, <2>2
<1>6. CASE WaitAvail
  <2>1. CASE pc' = "idle"
    BY <1>1, <2>1 DEF Reading
  <2>2. CASE pc' # "idle"
    <3>1. /\ NoAnswer \/ HeaderRead \/ RestRead
          /\ UNCHANGED <<fr, dst, rsp, execs, calls, hdr, data>> /\ fr.size < ReadSize
      BY <1>6, <2>2, AvailMeansAnswer DEF WaitAvail, Return, tpm
    <3>2. RestRead => fr.size - HeaderSize < fr.expected
      BY <1>0, <3>1 DEF RestRead, ReadSize, Frame
    <3> QED
      BY <3>1, <3>2 DEF AnswerInv, NoAnswer, HeaderRead, RestRead, Answered, Received,
                        ResponseBytes
  <2> QED
    BY <2>1, <2>2
<1>7. CASE ReadData
  <2>1. Reading /\ pc = "read_data"
    BY <1>7 DEF ReadData, Reading
  <2>2. calls \in Calls /\ (NoAnswer \/ HeaderRead \/ RestRead)
    BY <2>1 DEF PlaceInv, AnswerInv, Awaited
  <2>3. CASE pc' = "idle"
    BY <1>1, <2>3 DEF Reading
  <2>4. CASE pc' # "idle"
    BY <1>0, <1>7, <2>1, <2>2, <2>4, ReadNoAnswer, ReadHeader, ReadRest
       DEF ByteOutcome, AnswerInv
  <2> QED
    BY <2>3, <2>4
<1>8. CASE TpmStep \/ UNCHANGED vars
  BY <1>8, TpmKeepsAnswer
<1> QED
  BY <1>2, <1>3, <1>4, <1>5, <1>6, <1>7, <1>8 DEF Next, HostStep, CallerStep

LEMMA NextSuccess ==
    IInv /\ ExecInv /\ ReceiveInv /\ [Next]_vars => SuccessInv'
<1> SUFFICES ASSUME IInv, ExecInv, ReceiveInv, [Next]_vars,
                    pc' = "idle", op' = "xfer", ret' = "SUCCESS"
             PROVE  /\ calls' \in Calls /\ Answered' /\ rsp'.size <= BufSize
                    /\ Received(BufSize)'
  BY DEF SuccessInv
<1> USE FifoAssumption
<1>0. PlaceInv /\ AnswerInv /\ SuccessInv /\ OwnerInv
  BY DEF ReceiveInv, ExecInv
<1>1. CASE \/ AccessFails \/ WaitTimesOut \/ BurstTimesOut \/ InterfaceInitRefused
           \/ (\E l \in Localities : InterfaceInit(l) \/ InterfaceClose(l))
           \/ RequestUse \/ ActiveLocality \/ ReadAccess
           \/ (\E n \in CmdSizes : Xfer(n)) \/ ReadStatus \/ Prepare \/ WaitReady
           \/ WaitValid \/ WriteHeader \/ WriteData \/ WriteGo \/ BurstLow \/ BurstHigh
  BY <1>1
     DEF AccessFails, WaitTimesOut, BurstTimesOut, InterfaceInitRefused,
         InterfaceInit, InterfaceClose, RequestUse, ActiveLocality, ReadAccess, Xfer,
         ReadStatus, Prepare, WaitReady, WaitValid, WriteHeader, WriteData, WriteGo,
         BurstLow, BurstHigh, LateError, Fail, Return
<1>2. CASE GetInfo \/ Relinquish
  BY <1>0, <1>2 DEF GetInfo, Relinquish, PlaceInv
<1>3. CASE WaitAvail
  <2>1. /\ NoAnswer \/ HeaderRead \/ RestRead
        /\ UNCHANGED <<dst, rsp, execs, calls, hdr, data>> /\ ~(fr.size < ReadSize)
        /\ calls \in Calls /\ fr \in Frame /\ rsp.size \in Nat
    BY <1>0, <1>3, AvailMeansAnswer
       DEF WaitAvail, Return, tpm, Reading, PlaceInv, IInv, TypeOK, TpmTypeOK
  <2>2. RestRead /\ ~(fr.size < rsp.size) /\ fr.size \in Nat
    BY <2>1 DEF NoAnswer, HeaderRead, RestRead, ReadSize, Frame
  <2>3. Answered' /\ rsp'.size <= BufSize
    BY <2>1, <2>2 DEF RestRead, Answered
  <2>4. Received(BufSize)
    BY <2>1, <2>2 DEF RestRead, Received
  <2>5. Received(BufSize)'
    BY <2>1, <2>4 DEF Received
  <2> QED
    BY <2>1, <2>3, <2>5
<1>4. CASE ReadData
  <2>1. Reading /\ pc = "read_data" /\ UNCHANGED calls
    BY <1>4 DEF ReadData, Reading
  <2>2. calls \in Calls /\ (NoAnswer \/ HeaderRead \/ RestRead)
    BY <1>0, <2>1 DEF PlaceInv, AnswerInv, Awaited
  <2> QED
    BY <1>0, <1>4, <2>1, <2>2, ReadNoAnswer, ReadHeader, ReadRest DEF ByteOutcome
<1>5. CASE TpmStep \/ UNCHANGED vars
  <2>1. UNCHANGED <<pc, op, ret, calls, hdr, data, locality>>
    BY <1>5 DEF TpmStep, TpmBecomesReady, TpmExecutes, TpmGrants, OtherRequests,
                OtherRelinquishes, host, vars
  <2>2. calls \in Calls /\ Answered /\ rsp.size <= BufSize /\ Received(BufSize)
    BY <1>0, <2>1 DEF SuccessInv
  <2>3. Mine
    BY <1>0, <2>2 DEF Answered, OwnerInv
  <2>4. UNCHANGED <<dst, rsp, execs>>
    BY <1>5, <2>2, <2>3
       DEF TpmStep, TpmBecomesReady, TpmExecutes, TpmGrants, OtherRequests,
           OtherRelinquishes, vars, Answered, Mine, IInv, TypeOK, HostTypeOK, NoLocality
  <2> QED
    BY <2>1, <2>2, <2>4 DEF Answered, Received
<1> QED
  BY <1>1, <1>2, <1>3, <1>4, <1>5 DEF Next, HostStep, CallerStep

-----------------------------------------------------------------------------
LEMMA InitReceive == Init => ExecInv /\ ReceiveInv
BY FifoAssumption
   DEF Init, ExecInv, OnceInv, AtMostOnce, Calls, OwnerInv, ReceivedInv, SubmitInv,
       ReceiveInv, PlaceInv, AnswerInv, SuccessInv, Submitting, Sending, Reading

LEMMA Receiving == Spec => [](IInv /\ ExecInv /\ ReceiveInv)
<1>1. IInv /\ ExecInv /\ ReceiveInv /\ [Next]_vars => ExecInv' /\ ReceiveInv'
  BY NextExec, NextPlace, NextAnswer, NextSuccess DEF ReceiveInv
<1> QED
  BY <1>1, InitReceive, Invariance, PTL DEF Spec

\* tpm_xfer reports success only for a command the TPM executed once, with the
\* whole response to this very command in the buffer, for every way in which
\* earlier calls may have failed and left bytes, commands or answers behind.
THEOREM SuccessIsAnswered == Spec => []SuccessMeansAnswered
<1>1. ASSUME IInv, ReceiveInv PROVE SuccessMeansAnswered
  <2> SUFFICES ASSUME pc = "idle", op = "xfer", ret = "SUCCESS"
               PROVE  /\ execs[calls] = 1 /\ rsp.cmd = calls /\ rsp.size <= BufSize
                      /\ \A i \in 0 .. HeaderSize - 1 : hdr[i] = <<calls, i>>
                      /\ \A i \in 0 .. BufSize - 1 :
                           HeaderSize + i < rsp.size => data[i] = <<calls, HeaderSize + i>>
    BY DEF SuccessMeansAnswered
  <2>1. Answered /\ rsp.size <= BufSize /\ rsp.size \in Nat /\ Received(BufSize)
    BY <1>1 DEF ReceiveInv, SuccessInv, IInv, TypeOK, TpmTypeOK
  <2>2. \A i \in 0 .. HeaderSize - 1 : hdr[i] = <<calls, i>>
    BY <2>1, FifoAssumption DEF Received
  <2>3. \A i \in 0 .. BufSize - 1 :
          HeaderSize + i < rsp.size => data[i] = <<calls, HeaderSize + i>>
    BY <2>1, FifoAssumption DEF Received
  <2> QED
    BY <2>1, <2>2, <2>3 DEF Answered
<1> QED
  BY <1>1, Receiving, PTL
-----------------------------------------------------------------------------
(* The transfers seen as a command channel.                                *)

Stat == [k \in Calls |-> StatusOf(k)]
Busy == op = "xfer" /\ pc # "idle"
Answer == IF op = "xfer" /\ pc = "idle" /\ ret = "SUCCESS" THEN hdr[0][1] ELSE 0

\* A command is submitted while it is being sent.
BusyLaw ==
    /\ Busy <=> Submitting \/ Reading
    /\ Submitting => fr.part = "send"
    /\ Reading => fr.part # "send"
    /\ ~(Submitting /\ Reading)

LEMMA BusyPlaces == IInv /\ PlaceInv => BusyLaw
<1> SUFFICES ASSUME IInv, PlaceInv PROVE BusyLaw
  OBVIOUS
<1>1. pc \in Locations /\ FrameInv
  BY DEF IInv, TypeOK, HostTypeOK
<1>2. Submitting => fr.part = "send"
  BY <1>1 DEF Submitting, FrameInv
<1>3. Reading => fr.part # "send"
  BY <1>1 DEF Reading, FrameInv
<1>4. Submitting \/ Reading => Busy
  BY DEF Submitting, Sending, Reading, PlaceInv, Busy
<1>5. Busy => Submitting \/ Reading
  BY <1>1 DEF Busy, Locations, PlaceInv, Submitting, Sending, Reading
<1> QED
  BY <1>2, <1>3, <1>4, <1>5 DEF BusyLaw

\* What has become of a command, in terms of the invariants: exactly one of these.
StatusLaw ==
    \A k \in Calls :
        /\ StatusOf(k) \in {"new", "submitted", "started", "executed", "lost"}
        /\ StatusOf(k) = "new" <=> k > calls
        /\ StatusOf(k) = "executed" <=> k <= calls /\ execs[k] > 0
        /\ StatusOf(k) = "started" <=> dst = "execution" /\ rx.cmd = k
        /\ StatusOf(k) = "submitted" <=> k = calls /\ Submitting

LEMMA StatusMeaning == IInv /\ ExecInv /\ PlaceInv => StatusLaw
<1> SUFFICES ASSUME IInv, ExecInv, PlaceInv, NEW k \in Calls
             PROVE  /\ StatusOf(k) \in {"new", "submitted", "started", "executed", "lost"}
                    /\ StatusOf(k) = "new" <=> k > calls
                    /\ StatusOf(k) = "executed" <=> k <= calls /\ execs[k] > 0
                    /\ StatusOf(k) = "started" <=> dst = "execution" /\ rx.cmd = k
                    /\ StatusOf(k) = "submitted" <=> k = calls /\ Submitting
  BY DEF StatusLaw
<1>1. /\ calls \in 0 .. MaxCalls /\ execs[k] \in Nat
      /\ OnceInv /\ ReceivedInv /\ SubmitInv
  BY FifoAssumption DEF IInv, TypeOK, HostTypeOK, TpmTypeOK, ExecInv, Calls
<1>2. Submitting <=> op = "xfer" /\ pc # "idle" /\ fr.part = "send"
  BY BusyPlaces DEF Busy, BusyLaw
<1>3. dst = "execution" /\ rx.cmd = k => k <= calls /\ execs[k] = 0 /\ ~(k = calls /\ Submitting)
  <2> SUFFICES ASSUME dst = "execution", rx.cmd = k
               PROVE  k <= calls /\ execs[k] = 0 /\ ~(k = calls /\ Submitting)
    OBVIOUS
  <2>1. k <= calls /\ execs[k] = 0
    BY <1>1 DEF ReceivedInv
  <2>2. ~(k = calls /\ Submitting)
    BY <1>1 DEF SubmitInv, Submitting
  <2> QED
    BY <2>1, <2>2
<1>4. Submitting => execs[calls] = 0
  BY <1>1 DEF SubmitInv
<1> QED
  BY <1>1, <1>2, <1>3, <1>4, FifoAssumption DEF StatusOf, Calls

FullInv == IInv /\ ExecInv /\ ReceiveInv /\ BusyLaw /\ StatusLaw

LEMMA FullInvariance == Spec => []FullInv
<1>1. IInv /\ ExecInv /\ ReceiveInv => FullInv
  BY BusyPlaces, StatusMeaning DEF FullInv, ReceiveInv
<1> QED
  BY <1>1, Receiving, PTL

\* Commands stay what they are ...
LEMMA StatusKept ==
    ASSUME StatusLaw, StatusLaw', UNCHANGED <<calls, execs>>, Submitting' <=> Submitting,
           dst = "execution" => UNCHANGED <<dst, rx>>,
           dst' = "execution" => dst = "execution"
    PROVE  \A k \in Calls : StatusOf(k)' = StatusOf(k)
<1> SUFFICES ASSUME NEW k \in Calls PROVE StatusOf(k)' = StatusOf(k)
  OBVIOUS
<1>1. /\ StatusOf(k) = "new" <=> StatusOf(k)' = "new"
      /\ StatusOf(k) = "executed" <=> StatusOf(k)' = "executed"
      /\ StatusOf(k) = "started" <=> StatusOf(k)' = "started"
      /\ StatusOf(k) = "submitted" <=> StatusOf(k)' = "submitted"
  BY DEF StatusLaw
<1> QED
  BY <1>1 DEF StatusLaw

\* ... unless the TPM stops executing one, which is lost then.
LEMMA StatusAborted ==
    ASSUME StatusLaw, StatusLaw', UNCHANGED <<calls, execs>>, Submitting' <=> Submitting,
           dst = "execution", dst' # "execution", rx.cmd \in Calls
    PROVE  \A k \in Calls : StatusOf(k)' = IF k = rx.cmd THEN "lost" ELSE StatusOf(k)
<1> SUFFICES ASSUME NEW k \in Calls
             PROVE  StatusOf(k)' = IF k = rx.cmd THEN "lost" ELSE StatusOf(k)
  OBVIOUS
<1>1. /\ StatusOf(k) = "new" <=> StatusOf(k)' = "new"
      /\ StatusOf(k) = "executed" <=> StatusOf(k)' = "executed"
      /\ StatusOf(k) = "submitted" <=> StatusOf(k)' = "submitted"
      /\ StatusOf(k)' # "started"
      /\ StatusOf(k) = "started" <=> k = rx.cmd
  BY DEF StatusLaw
<1> QED
  BY <1>1 DEF StatusLaw

LEMMA StatFunctions ==
    ASSUME NEW j \in Calls, NEW v,
           \A k \in Calls : StatusOf(k)' = IF k = j THEN v ELSE StatusOf(k)
    PROVE  Stat' = [Stat EXCEPT ![j] = v]
BY DEF Stat

LEMMA StatSame ==
    ASSUME \A k \in Calls : StatusOf(k)' = StatusOf(k)
    PROVE  Stat' = Stat
BY DEF Stat

\* The channel's steps, over these names.
LEMMA SubmitStep ==
    ASSUME ~Busy, calls < MaxCalls, calls' = calls + 1, Busy', Answer' = 0,
           Stat' = [Stat EXCEPT ![calls + 1] = "submitted"]
    PROVE  Channel!Submit
BY DEF Channel!Submit, Busy, Answer, Stat

LEMMA StartStep ==
    ASSUME Busy, Stat[calls] = "submitted", \A k \in Calls : Stat[k] # "started",
           Stat' = [Stat EXCEPT ![calls] = "started"], UNCHANGED <<calls, Answer>>, Busy'
    PROVE  Channel!StartCommand
BY DEF Channel!StartCommand, Busy, Answer, Stat, Calls

LEMMA ExecuteStep ==
    ASSUME NEW k \in Calls, Stat[k] = "started", Stat' = [Stat EXCEPT ![k] = "executed"],
           UNCHANGED <<calls, Answer>>, Busy' <=> Busy
    PROVE  Channel!Execute
BY DEF Channel!Execute, Busy, Answer, Stat, Calls

LEMMA AbandonStep ==
    ASSUME NEW k \in Calls, Stat[k] \in {"submitted", "started"},
           Stat' = [Stat EXCEPT ![k] = "lost"], UNCHANGED <<calls, Answer>>, Busy' <=> Busy
    PROVE  Channel!Abandon
BY DEF Channel!Abandon, Busy, Answer, Stat, Calls

LEMMA SucceedStep ==
    ASSUME Busy, Stat[calls] = "executed", ~Busy', Answer' = calls, UNCHANGED <<calls, Stat>>
    PROVE  Channel!Succeed
BY DEF Channel!Succeed, Busy, Answer, Stat

LEMMA FailStep ==
    ASSUME Busy, ~Busy', Answer' = 0, UNCHANGED calls, Stat' \in [Calls -> Channel!Status],
           \A k \in Calls :
             \/ Stat'[k] = Stat[k] /\ Stat[k] # "submitted"
             \/ Stat[k] \in {"submitted", "started"} /\ Stat'[k] = "lost"
             \/ /\ Stat[k] = "submitted" /\ Stat'[k] = "started"
                /\ \A j \in Calls : Stat[j] # "started"
    PROVE  Channel!Fail
<1>1. /\ Stat' \in [1 .. MaxCalls -> Channel!Status]
      /\ \A k \in 1 .. MaxCalls :
           \/ Stat'[k] = Stat[k] /\ Stat[k] # "submitted"
           \/ Stat[k] \in {"submitted", "started"} /\ Stat'[k] = "lost"
           \/ /\ Stat[k] = "submitted" /\ Stat'[k] = "started"
              /\ \A j \in 1 .. MaxCalls : Stat[j] # "started"
  BY Zenon DEF Calls
<1>2. (op' = "xfer" /\ pc' # "idle") = FALSE
  BY DEF Busy
<1> QED
  BY <1>1, <1>2, Zenon DEF Channel!Fail, Busy, Answer, Stat

LEMMA ConsumeStep ==
    ASSUME ~Busy, ~Busy', Answer' = 0, UNCHANGED <<calls, Stat>>
    PROVE  Channel!Consume
BY DEF Channel!Consume, Busy, Answer, Stat

LEMMA QuietStep ==
    ASSUME UNCHANGED <<calls, Stat, Answer>>, Busy' <=> Busy
    PROVE  UNCHANGED Channel!chanVars
BY DEF Channel!chanVars, Busy, Answer, Stat

\* Steps outside tpm_xfer.
LEMMA OutsideXfer ==
    ASSUME FullInv, FullInv',
           \/ (\E l \in Localities : InterfaceInit(l) \/ InterfaceClose(l))
           \/ InterfaceInitRefused \/ RequestUse \/ ActiveLocality \/ GetInfo \/ ReadAccess
           \/ (AccessFails \/ WaitTimesOut) /\ op # "xfer"
    PROVE  Channel!Consume
<1>1. /\ op' # "xfer" /\ (op = "xfer" => pc = "idle")
      /\ UNCHANGED <<calls, execs>> /\ UNCHANGED <<dst, rx>>
  BY DEF InterfaceInit, InterfaceClose, InterfaceInitRefused, RequestUse, ActiveLocality,
         GetInfo, ReadAccess, AccessFails, WaitTimesOut, FullInv, ReceiveInv, PlaceInv, tpm
<1>2. ~Busy /\ ~Busy' /\ Answer' = 0
  BY <1>1 DEF Busy, Answer
<1>3. ~Submitting /\ ~Submitting'
  BY <1>2 DEF FullInv, BusyLaw
<1>4. Stat' = Stat
  BY <1>1, <1>3, StatusKept, StatSame DEF FullInv
<1> QED
  BY <1>1, <1>2, <1>4, ConsumeStep

LEMMA RelinquishStep ==
    ASSUME FullInv, FullInv', Relinquish
    PROVE  Channel!Abandon \/ Channel!Consume
<1>1. /\ op = "close" /\ op' = "close" /\ UNCHANGED <<calls, execs>> /\ UNCHANGED rx
      /\ dst' \in {"idle", dst}
  BY DEF Relinquish, FullInv, ReceiveInv, PlaceInv
<1>2. ~Busy /\ ~Busy' /\ Answer' = 0 /\ Answer = 0
  BY <1>1 DEF Busy, Answer
<1>3. ~Submitting /\ ~Submitting'
  BY <1>2 DEF FullInv, BusyLaw
<1>4. CASE dst = "execution" /\ dst' = "idle"
  <2>1. rx.cmd \in Calls
    BY <1>4, FifoAssumption
       DEF FullInv, ExecInv, ReceivedInv, IInv, TypeOK, HostTypeOK, Calls
  <2>2. Stat' = [Stat EXCEPT ![rx.cmd] = "lost"]
    BY <1>1, <1>3, <1>4, <2>1, StatusAborted, StatFunctions DEF FullInv
  <2>3. Stat[rx.cmd] = "started"
    BY <1>4, <2>1 DEF FullInv, StatusLaw, Stat
  <2> QED
    BY <1>1, <1>2, <2>1, <2>2, <2>3, AbandonStep
<1>5. CASE dst # "execution" \/ dst' # "idle"
  <2>1. Stat' = Stat
    BY <1>1, <1>3, <1>5, StatusKept, StatSame DEF FullInv
  <2> QED
    BY <1>1, <1>2, <2>1, ConsumeStep
<1> QED
  BY <1>4, <1>5

LEMMA XferStep ==
    ASSUME FullInv, FullInv', NEW n \in CmdSizes, Xfer(n)
    PROVE  Channel!Submit
<1>1. /\ pc = "idle" /\ op' = "xfer" /\ pc' = "status" /\ calls < MaxCalls
      /\ calls' = calls + 1 /\ UNCHANGED <<dst, rx, execs>>
  BY DEF Xfer, tpm
<1>2. calls \in 0 .. MaxCalls /\ calls + 1 \in Calls
  BY <1>1, FifoAssumption DEF FullInv, IInv, TypeOK, HostTypeOK, Calls
<1>3. ~Busy /\ Busy' /\ Answer' = 0 /\ Submitting'
  BY <1>1 DEF Busy, Answer, Submitting
<1>4. ~Submitting
  BY <1>3 DEF FullInv, BusyLaw
<1>5. ASSUME NEW k \in Calls
      PROVE  StatusOf(k)' = IF k = calls + 1 THEN "submitted" ELSE StatusOf(k)
  <2>1. StatusLaw /\ StatusLaw' /\ k \in Nat /\ execs[calls + 1] = 0
    BY <1>2, FifoAssumption DEF FullInv, Calls, ExecInv, OnceInv
  <2>2. CASE k = calls + 1
    BY <1>1, <1>3, <2>1, <2>2 DEF StatusLaw
  <2>3. CASE k # calls + 1
    <3>1. k > calls <=> k > calls'
      BY <1>1, <1>2, <2>1, <2>3
    <3>2. k <= calls <=> k <= calls'
      BY <1>1, <1>2, <2>1, <2>3
    <3>3. /\ StatusOf(k) = "new" <=> StatusOf(k)' = "new"
          /\ StatusOf(k) = "executed" <=> StatusOf(k)' = "executed"
          /\ StatusOf(k) = "started" <=> StatusOf(k)' = "started"
          /\ StatusOf(k) # "submitted" /\ StatusOf(k)' # "submitted"
      BY <1>1, <1>4, <2>1, <2>3, <3>1, <3>2 DEF StatusLaw
    <3> QED
      BY <2>1, <2>3, <3>3 DEF StatusLaw
  <2> QED
    BY <2>2, <2>3
<1>6. Stat' = [Stat EXCEPT ![calls + 1] = "submitted"]
  BY <1>2, <1>5, FifoAssumption DEF Stat
<1> QED
  BY <1>1, <1>3, <1>6, SubmitStep

\* A transfer fails.
LEMMA XferFails ==
    ASSUME FullInv, FullInv', op = "xfer",
           \/ AccessFails \/ WaitTimesOut \/ BurstTimesOut
           \/ pc' = "idle" /\ ret' # "SUCCESS"
              /\ (Prepare \/ WriteHeader \/ WriteData \/ WaitValid \/ WriteGo \/ WaitAvail
                  \/ ReadData)
    PROVE  Channel!Fail
<1>1. pc # "idle" /\ pc' = "idle" /\ ret' # "SUCCESS" /\ UNCHANGED calls
  <2>1. CASE AccessFails \/ WaitTimesOut \/ BurstTimesOut
    BY <2>1 DEF AccessFails, WaitTimesOut, BurstTimesOut, Fail, Return
  <2>2. CASE Prepare \/ WriteHeader \/ WriteData \/ WaitValid \/ WriteGo \/ WaitAvail \/ ReadData
    BY <2>2 DEF AccessFails, WaitTimesOut, BurstTimesOut, Fail, Return, Prepare, WriteHeader,
                WriteData, WaitValid, WriteGo, WaitAvail, ReadData
  <2> QED
    BY <2>1, <2>2
<1>2. Busy /\ ~Busy' /\ Answer' = 0 /\ ~Submitting' /\ StatusLaw /\ StatusLaw'
  BY <1>1 DEF Busy, Answer, FullInv, BusyLaw
<1>3. /\ UNCHANGED execs
      /\ \/ UNCHANGED <<dst, rx>>
         \/ dst' # "execution" /\ UNCHANGED rx
         \/ dst # "execution" /\ dst' # "execution"
         \/ dst # "execution" /\ Submitting /\ rx'.cmd = calls
  <2>1. CASE AccessFails \/ WaitTimesOut \/ BurstTimesOut \/ WaitValid \/ WaitAvail \/ ReadData
    BY <2>1 DEF AccessFails, WaitTimesOut, BurstTimesOut, WaitValid, WaitAvail, ReadData,
                FifoAdvances, tpm
  <2>2. CASE Prepare
    BY <2>2 DEF Prepare, CommandReady
  <2>3. CASE WriteHeader \/ WriteData
    <3>1. Sending /\ FifoAccepts(calls, fr.index, fr.len)
      BY <2>3 DEF WriteHeader, WriteData, Sending
    <3>2. dst \in {"idle", "ready", "reception"}
      BY <3>1 DEF FullInv, ExecInv, SubmitInv
    <3> QED
      BY <3>1, <3>2 DEF FifoAccepts
  <2>4. CASE WriteGo
    <3>1. Sending /\ Go /\ Submitting
      BY <2>4 DEF WriteGo, Sending, Submitting
    <3>2. /\ dst \in {"idle", "ready", "reception"}
          /\ dst = "reception" => rx.cmd = calls
      BY <3>1 DEF FullInv, ExecInv, SubmitInv
    <3> QED
      BY <3>1, <3>2 DEF Go
  <2> QED
    BY <2>1, <2>2, <2>3, <2>4
<1>4. ASSUME NEW k \in Calls
      PROVE  /\ StatusOf(k)' \in Channel!Status
             /\ \/ StatusOf(k)' = StatusOf(k) /\ StatusOf(k) # "submitted"
                \/ StatusOf(k) \in {"submitted", "started"} /\ StatusOf(k)' = "lost"
                \/ /\ StatusOf(k) = "submitted" /\ StatusOf(k)' = "started"
                   /\ \A j \in Calls : StatusOf(j) # "started"
  <2>1. /\ StatusOf(k)' \in {"new", "submitted", "started", "executed", "lost"}
        /\ StatusOf(k) \in {"new", "submitted", "started", "executed", "lost"}
        /\ StatusOf(k) = "new" <=> StatusOf(k)' = "new"
        /\ StatusOf(k) = "executed" <=> StatusOf(k)' = "executed"
        /\ StatusOf(k)' # "submitted"
    BY <1>1, <1>2, <1>3 DEF StatusLaw
  <2>2. StatusOf(k)' = "started" =>
          \/ StatusOf(k) = "started"
          \/ StatusOf(k) = "submitted" /\ dst # "execution"
    BY <1>1, <1>2, <1>3 DEF StatusLaw
  <2>3. dst # "execution" => \A j \in Calls : StatusOf(j) # "started"
    BY <1>2 DEF StatusLaw
  <2>4. StatusOf(k)' \in Channel!Status
    BY <2>1 DEF Channel!Status
  <2> QED
    BY <2>1, <2>2, <2>3, <2>4
<1>5. Stat' \in [Calls -> Channel!Status]
  BY <1>4 DEF Stat
<1>6. \A k \in Calls : Stat[k] = StatusOf(k) /\ Stat'[k] = StatusOf(k)'
  BY DEF Stat
<1> QED
  BY <1>1, <1>2, <1>4, <1>5, <1>6, FailStep

\* A transfer succeeds: with the answer to its own command.
LEMMA XferSucceeds ==
    ASSUME FullInv, FullInv', WaitAvail \/ ReadData, pc' = "idle", ret' = "SUCCESS"
    PROVE  Channel!Succeed
<1>1. /\ Reading /\ UNCHANGED <<calls, execs>> /\ UNCHANGED <<dst, rx>> /\ UNCHANGED op
  BY DEF WaitAvail, ReadData, FifoAdvances, tpm, Reading
<1>2. Busy /\ ~Submitting /\ op = "xfer"
  BY <1>1 DEF FullInv, BusyLaw, Busy
<1>3. ~Busy' /\ ~Submitting'
  BY DEF Busy, FullInv, BusyLaw
<1>4. Stat' = Stat
  BY <1>1, <1>2, <1>3, StatusKept, StatSame DEF FullInv
<1>5. calls' \in Calls /\ Answered' /\ Received(BufSize)'
  BY <1>1, <1>2 DEF FullInv, ReceiveInv, SuccessInv
<1>6. hdr'[0] = <<calls, 0>>
  BY <1>1, <1>5, FifoAssumption DEF Received
<1>7. Answer' = calls
  BY <1>1, <1>2, <1>6 DEF Answer
<1>8. Stat[calls] = "executed"
  <2>1. calls \in Calls /\ calls \in Nat /\ execs[calls] = 1
    BY <1>1, <1>5, FifoAssumption DEF Answered, Calls
  <2>2. StatusOf(calls) = "executed"
    BY <2>1 DEF FullInv, StatusLaw
  <2> QED
    BY <2>1, <2>2 DEF Stat
<1> QED
  BY <1>1, <1>2, <1>3, <1>4, <1>7, <1>8, SucceedStep

\* Steps of a transfer that goes on and leaves the TPM doing what it does.
LEMMA XferGoesOn ==
    ASSUME FullInv, FullInv', pc' # "idle",
           \/ ReadStatus \/ WaitReady \/ WriteHeader \/ WriteData \/ BurstLow \/ BurstHigh
           \/ WaitValid \/ WaitAvail \/ ReadData
    PROVE  UNCHANGED Channel!chanVars
<1>0. FrameInv /\ FrameInv' /\ fr \in Frame /\ fr' \in Frame
  BY DEF FullInv, IInv, TypeOK
<1>1. /\ pc # "idle" /\ UNCHANGED <<calls, op, execs>>
      /\ \/ UNCHANGED <<dst, rx>>
         \/ dst # "execution" /\ dst' # "execution"
  <2>1. CASE ReadStatus \/ WaitReady \/ BurstLow \/ BurstHigh \/ WaitValid \/ WaitAvail
             \/ ReadData
    BY <2>1 DEF ReadStatus, WaitReady, BurstLow, BurstHigh, WaitValid, WaitAvail, ReadData,
                FifoAdvances, tpm
  <2>2. CASE WriteHeader \/ WriteData
    <3>1. Sending /\ FifoAccepts(calls, fr.index, fr.len)
      BY <2>2 DEF WriteHeader, WriteData, Sending
    <3>2. dst \in {"idle", "ready", "reception"}
      BY <3>1 DEF FullInv, ExecInv, SubmitInv
    <3> QED
      BY <2>2, <3>1, <3>2 DEF WriteHeader, WriteData, FifoAccepts
  <2> QED
    BY <2>1, <2>2
<1>2. Submitting' <=> Submitting
  <2>1. CASE ReadStatus \/ WaitReady \/ WriteHeader \/ WriteData \/ WaitValid
    <3>1. Submitting
      BY <2>1 DEF ReadStatus, WaitReady, WriteHeader, WriteData, WaitValid, Submitting,
                  Sending
    <3>2. fr.part = "send"
      BY <3>1 DEF FullInv, BusyLaw
    <3>3. fr'.part = "send" /\ pc' \in {"prepare", "write_header", "burst_lo", "wait_valid",
                                        "write_data", "write_go"}
      BY <1>0, <2>1, <3>2
         DEF ReadStatus, WaitReady, WriteHeader, WriteData, WaitValid, LateError, Fail,
             Return, Frame
    <3> QED
      BY <3>1, <3>3 DEF Submitting, Sending
  <2>2. CASE BurstLow \/ BurstHigh
    <3>1. fr'.part = fr.part
      BY <1>0, <2>2 DEF BurstLow, BurstHigh, Frame
    <3> QED
      BY <2>2, <3>1 DEF BurstLow, BurstHigh, Submitting, Sending
  <2>3. CASE WaitAvail \/ ReadData
    <3>1. Reading /\ fr.part # "send"
      BY <2>3 DEF WaitAvail, ReadData, Reading, FullInv, BusyLaw
    <3>2. /\ pc' \in {"burst_lo", "read_data", "wait_avail"}
          /\ pc' = "burst_lo" => fr'.part # "send"
      BY <1>0, <2>3, <3>1 DEF WaitAvail, ReadData, HeaderReceived, LateError, Fail, Return,
                              Frame
    <3>3. ~Submitting'
      BY <3>2 DEF Submitting, Sending
    <3> QED
      BY <3>1, <3>3 DEF FullInv, BusyLaw
  <2> QED
    BY <2>1, <2>2, <2>3
<1>3. Stat' = Stat
  BY <1>1, <1>2, StatusKept, StatSame DEF FullInv
<1>4. Answer' = Answer /\ (Busy' <=> Busy)
  BY <1>1 DEF Answer, Busy
<1> QED
  BY <1>1, <1>3, <1>4, QuietStep

\* tpm2_fifo_prepare aborts what an earlier call left behind.
LEMMA PrepareStep ==
    ASSUME FullInv, FullInv', Prepare, pc' # "idle"
    PROVE  Channel!Abandon \/ UNCHANGED Channel!chanVars
<1>1. /\ pc = "prepare" /\ pc' = "wait_ready" /\ UNCHANGED <<calls, op, execs>>
      /\ UNCHANGED rx /\ dst' \in {dst, "to_ready"}
  BY DEF Prepare, CommandReady, LateError, Fail, Return
<1>2. Submitting /\ Submitting'
  BY <1>1 DEF Submitting
<1>3. Answer' = Answer /\ (Busy' <=> Busy)
  BY <1>1 DEF Answer, Busy
<1>4. CASE dst = "execution" /\ dst' = "to_ready"
  <2>1. rx.cmd \in Calls
    BY <1>4, FifoAssumption
       DEF FullInv, ExecInv, ReceivedInv, IInv, TypeOK, HostTypeOK, Calls
  <2>2. Stat' = [Stat EXCEPT ![rx.cmd] = "lost"]
    BY <1>1, <1>2, <1>4, <2>1, StatusAborted, StatFunctions DEF FullInv
  <2>3. Stat[rx.cmd] = "started"
    BY <1>4, <2>1 DEF FullInv, StatusLaw, Stat
  <2> QED
    BY <1>1, <1>3, <2>1, <2>2, <2>3, AbandonStep
<1>5. CASE dst # "execution" \/ dst' = dst
  <2>1. Stat' = Stat
    BY <1>1, <1>2, <1>5, StatusKept, StatSame DEF FullInv
  <2> QED
    BY <1>1, <1>3, <2>1, QuietStep
<1> QED
  BY <1>1, <1>4, <1>5

\* The write of GO starts the command, or finds a TPM that has lost it.
LEMMA GoStep ==
    ASSUME FullInv, FullInv', WriteGo, pc' # "idle"
    PROVE  Channel!StartCommand \/ Channel!Abandon
<1>1. /\ pc = "write_go" /\ pc' = "wait_avail" /\ UNCHANGED <<calls, op, execs>>
      /\ UNCHANGED rx /\ Go
  BY DEF WriteGo, Go, LateError, Fail, Return
<1>2. /\ Sending /\ Submitting /\ Reading' /\ ~Submitting'
  BY <1>1 DEF Submitting, Sending, Reading
<1>3. Answer' = Answer /\ Busy /\ Busy' /\ calls \in Calls
  BY <1>1, <1>2 DEF Answer, FullInv, BusyLaw, ReceiveInv, PlaceInv
<1>4. StatusLaw /\ StatusLaw' /\ dst # "execution" /\ (dst' = "execution" => rx.cmd = calls)
  BY <1>1, <1>2 DEF FullInv, ExecInv, SubmitInv, Go
<1>5. StatusOf(calls) = "submitted" /\ \A k \in Calls : StatusOf(k) # "started"
  BY <1>2, <1>3, <1>4 DEF StatusLaw
<1>6. Stat[calls] = "submitted" /\ \A k \in Calls : Stat[k] # "started"
  BY <1>3, <1>5 DEF Stat
<1>7. ASSUME NEW k \in Calls, k # calls PROVE StatusOf(k)' = StatusOf(k)
  <2>1. /\ StatusOf(k) = "new" <=> StatusOf(k)' = "new"
        /\ StatusOf(k) = "executed" <=> StatusOf(k)' = "executed"
        /\ StatusOf(k)' # "started" /\ StatusOf(k) # "started"
        /\ StatusOf(k)' # "submitted" /\ StatusOf(k) # "submitted"
    BY <1>1, <1>4, <1>7 DEF StatusLaw
  <2> QED
    BY <1>4, <2>1 DEF StatusLaw
<1>8. /\ StatusOf(calls) # "executed" /\ StatusOf(calls) # "new"
      /\ dst' = "execution" => Stat'[calls] = "started"
      /\ dst' # "execution" => Stat'[calls] = "lost"
  <2>1. /\ StatusOf(calls) # "executed" /\ StatusOf(calls) # "new"
    BY <1>5
  <2>2. ASSUME NEW k \in Calls, k = calls
        PROVE  /\ StatusOf(k)' \in {"started", "lost"}
               /\ StatusOf(k)' = "started" <=> dst' = "execution"
    <3>1. StatusOf(k) # "executed" /\ StatusOf(k) # "new"
      BY <2>1, <2>2
    <3>2. StatusOf(k)' # "executed" /\ StatusOf(k)' # "new" /\ StatusOf(k)' # "submitted"
      BY <1>1, <1>2, <1>4, <2>2, <3>1 DEF StatusLaw
    <3>3. StatusOf(k)' = "started" <=> dst' = "execution"
      BY <1>1, <1>4, <2>2 DEF StatusLaw
    <3> QED
      BY <1>4, <3>2, <3>3 DEF StatusLaw
  <2>3. \A k \in Calls : Stat'[k] = StatusOf(k)'
    BY DEF Stat
  <2> QED
    BY <1>3, <2>1, <2>2, <2>3
<1>9. Stat' = [Stat EXCEPT ![calls] = Stat'[calls]]
  BY <1>3, <1>7 DEF Stat
<1>10. CASE dst' = "execution"
  BY <1>1, <1>3, <1>6, <1>8, <1>9, <1>10, StartStep
<1>11. CASE dst' # "execution"
  BY <1>1, <1>3, <1>6, <1>8, <1>9, <1>11, AbandonStep
<1> QED
  BY <1>10, <1>11

\* The TPM's steps.
LEMMA TpmChannelStep ==
    ASSUME FullInv, FullInv', TpmStep \/ UNCHANGED vars
    PROVE  Channel!Execute \/ UNCHANGED Channel!chanVars
<1>1. UNCHANGED <<pc, op, ret, calls, fr, hdr, locality>>
  BY DEF TpmStep, TpmBecomesReady, TpmExecutes, TpmGrants, OtherRequests, OtherRelinquishes,
         host, vars
<1>2. Answer' = Answer /\ (Busy' <=> Busy) /\ (Submitting' <=> Submitting)
  BY <1>1 DEF Answer, Busy, Submitting, Sending
<1>3. CASE TpmExecutes
  <2>1. /\ rx.cmd \in Calls /\ rx.ok /\ execs[rx.cmd] = 0 /\ rx.cmd <= calls
        /\ execs \in [0 .. MaxCalls -> Nat] /\ Calls \subseteq 0 .. MaxCalls
    <3>1. ReceivedInv /\ calls \in 0 .. MaxCalls /\ execs \in [0 .. MaxCalls -> Nat]
      BY DEF FullInv, ExecInv, IInv, TypeOK, HostTypeOK, TpmTypeOK
    <3>2. dst = "execution"
      BY <1>3 DEF TpmExecutes
    <3>3. rx.cmd \in 1 .. calls /\ rx.ok /\ execs[rx.cmd] = 0
      BY <3>1, <3>2 DEF ReceivedInv
    <3> QED
      BY <3>1, <3>3, FifoAssumption DEF Calls
  <2>2. /\ dst = "execution" /\ dst' = "completion" /\ UNCHANGED rx
        /\ execs' = [execs EXCEPT ![rx.cmd] = @ + 1]
    BY <1>3, <2>1 DEF TpmExecutes
  <2>3. ASSUME NEW k \in Calls
        PROVE  StatusOf(k)' = IF k = rx.cmd THEN "executed" ELSE StatusOf(k)
    <3>1. StatusLaw /\ StatusLaw'
      BY DEF FullInv
    <3>2. CASE k = rx.cmd
      BY <1>1, <2>1, <2>2, <3>1, <3>2 DEF StatusLaw
    <3>3. CASE k # rx.cmd
      <4>1. execs'[k] = execs[k]
        BY <2>1, <2>2, <3>3
      <4>2. /\ StatusOf(k) = "new" <=> StatusOf(k)' = "new"
            /\ StatusOf(k) = "executed" <=> StatusOf(k)' = "executed"
            /\ StatusOf(k)' # "started" /\ StatusOf(k) # "started"
            /\ StatusOf(k) = "submitted" <=> StatusOf(k)' = "submitted"
        BY <1>1, <1>2, <2>2, <3>1, <3>3, <4>1 DEF StatusLaw
      <4> QED
        BY <3>1, <3>3, <4>2 DEF StatusLaw
    <3> QED
      BY <3>2, <3>3
  <2>4. Stat' = [Stat EXCEPT ![rx.cmd] = "executed"]
    BY <2>1, <2>3 DEF Stat
  <2>5. Stat[rx.cmd] = "started"
    BY <2>1, <2>2 DEF FullInv, StatusLaw, Stat
  <2> QED
    BY <1>1, <1>2, <2>1, <2>4, <2>5, ExecuteStep
<1>4. CASE \/ TpmBecomesReady \/ TpmGrants \/ OtherRequests \/ OtherRelinquishes
           \/ UNCHANGED vars
  <2>1. /\ UNCHANGED execs
        /\ \/ UNCHANGED <<dst, rx>>
           \/ dst # "execution" /\ dst' # "execution"
    <3>1. CASE TpmBecomesReady \/ TpmGrants \/ OtherRequests \/ UNCHANGED vars
      BY <3>1 DEF TpmBecomesReady, TpmGrants, OtherRequests, vars
    <3>2. CASE OtherRelinquishes
      <4>1. ~Mine
        BY <3>2, FifoAssumption
           DEF OtherRelinquishes, Mine, FullInv, IInv, TypeOK, HostTypeOK, NoLocality
      <4> QED
        BY <3>2, <4>1 DEF OtherRelinquishes, FullInv, ExecInv, OwnerInv
    <3> QED
      BY <1>4, <3>1, <3>2
  <2>2. Stat' = Stat
    BY <1>1, <1>2, <2>1, StatusKept, StatSame DEF FullInv
  <2> QED
    BY <1>1, <1>2, <2>2, QuietStep
<1> QED
  BY <1>3, <1>4 DEF TpmStep

LEMMA NextRefines ==
    FullInv /\ FullInv' /\ [Next]_vars => [Channel!ChanNext]_(Channel!chanVars)
<1> SUFFICES ASSUME FullInv, FullInv', [Next]_vars
             PROVE  [Channel!ChanNext]_(Channel!chanVars)
  OBVIOUS
<1> USE DEF Channel!ChanNext
<1>1. CASE \/ (\E l \in Localities : InterfaceInit(l) \/ InterfaceClose(l))
           \/ InterfaceInitRefused \/ RequestUse \/ ActiveLocality \/ GetInfo \/ ReadAccess
           \/ (AccessFails \/ WaitTimesOut) /\ op # "xfer"
  BY <1>1, OutsideXfer
<1>2. CASE Relinquish
  BY <1>2, RelinquishStep
<1>3. CASE \E n \in CmdSizes : Xfer(n)
  BY <1>3, XferStep
<1>4. CASE \/ (AccessFails \/ WaitTimesOut) /\ op = "xfer"
           \/ BurstTimesOut
  <2>1. op = "xfer"
    BY <1>4 DEF BurstTimesOut, Submitting, Sending, Reading, FullInv, ReceiveInv, PlaceInv
  <2> QED
    BY <1>4, <2>1, XferFails
<1>5. CASE \/ ReadStatus \/ Prepare \/ WaitReady \/ WriteHeader \/ BurstLow \/ BurstHigh
           \/ WriteData \/ WaitValid \/ WriteGo \/ WaitAvail \/ ReadData
  <2>1. op = "xfer"
    <3>1. Submitting \/ Reading
      BY <1>5 DEF ReadStatus, Prepare, WaitReady, WriteHeader, BurstLow, BurstHigh, WriteData,
                  WaitValid, WriteGo, WaitAvail, ReadData, Submitting, Sending, Reading
    <3> QED
      BY <3>1 DEF FullInv, ReceiveInv, PlaceInv
  <2>2. CASE pc' # "idle"
    BY <1>5, <2>2, XferGoesOn, PrepareStep, GoStep
  <2>3. CASE pc' = "idle" /\ ret' = "SUCCESS"
    <3>1. WaitAvail \/ ReadData
      BY <1>5, <2>3
         DEF ReadStatus, Prepare, WaitReady, WriteHeader, BurstLow, BurstHigh, WriteData,
             WaitValid, WriteGo, LateError, Fail, Return
    <3> QED
      BY <2>3, <3>1, XferSucceeds
  <2>4. CASE pc' = "idle" /\ ret' # "SUCCESS"
    <3>1. ~(ReadStatus \/ WaitReady \/ BurstLow \/ BurstHigh)
      BY <2>4 DEF ReadStatus, WaitReady, BurstLow, BurstHigh
    <3> QED
      BY <1>5, <2>1, <2>4, <3>1, XferFails
  <2> QED
    BY <2>2, <2>3, <2>4
<1>6. CASE TpmStep \/ UNCHANGED vars
  BY <1>6, TpmChannelStep
<1> QED
  BY <1>1, <1>2, <1>3, <1>4, <1>5, <1>6 DEF Next, HostStep, CallerStep

LEMMA InitRefines == Init => Channel!ChanInit
<1> SUFFICES ASSUME Init PROVE Channel!ChanInit
  OBVIOUS
<1>1. calls = 0 /\ op = "none"
  BY DEF Init
<1>2. \A k \in 1 .. MaxCalls : StatusOf(k) = "new"
  BY <1>1, FifoAssumption DEF StatusOf
<1>3. (op = "xfer" /\ pc # "idle") = FALSE
  BY <1>1
<1> QED
  BY <1>1, <1>2, <1>3 DEF Channel!ChanInit, Calls

\* tpm_xfer keeps the promise the command functions rely on (CommandChannel): one
\* command at a time, each executed at most once, and a success that is the answer
\* to the command just sent, through the FIFO protocol with every failure in it.
THEOREM XferImplementsChannel == Spec => RefinesCommandChannel
BY InitRefines, NextRefines, FullInvariance, PTL
   DEF Spec, RefinesCommandChannel, Channel!ChanSpec
=============================================================================
