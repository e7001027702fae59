------------------------ MODULE FifoInterfaceProofs -------------------------
(***************************************************************************)
(* Proofs about FifoInterface, for every set of localities, every size of  *)
(* header, buffer, commands and responses, and any number of calls.        *)
(***************************************************************************)
EXTENDS FifoInterface, TLAPS

\* Where the library is in tpm2_fifo_send, once the TPM is ready for a command.
Sending ==
    \/ pc \in {"write_header", "write_data", "wait_valid", "write_go"}
    \/ pc \in {"burst_lo", "burst_hi"} /\ fr.part = "send"

\* The locals of the running call, location by location.
FrameInv ==
    /\ pc \in {"request_use", "wait_active", "get_vendid", "get_revid", "read_access",
              "relinquish"} =>
         fr.arg \in Localities
    /\ pc \in {"status", "prepare", "wait_ready"} =>
         fr.part = "send" /\ fr.index = 0 /\ fr.len \in HeaderSize .. BufSize
    /\ Sending => fr.part = "send" /\ fr.len \in HeaderSize .. BufSize
    /\ pc = "write_header" => fr.index < HeaderSize
    /\ pc \in {"burst_lo", "burst_hi", "write_data"} /\ fr.part = "send" => fr.index < fr.len
    /\ pc \in {"write_data", "read_data"} => fr.burst > 0
    /\ pc \in {"wait_avail", "read_data"} => fr.part \in {"header", "rest"}

-----------------------------------------------------------------------------
\* Two register values make a burst count of two digits.
LEMMA TwoDigits ==
    ASSUME NEW hi \in 0 .. Radix - 1, NEW lo \in 0 .. Radix - 1
    PROVE  hi * Radix + lo \in 0 .. Radix * Radix - 1
<1>1. Radix \in Nat /\ hi \in Nat /\ lo \in Nat /\ hi <= Radix - 1 /\ lo <= Radix - 1
  BY FifoAssumption
<1>2. hi * Radix <= (Radix - 1) * Radix
  BY <1>1
<1>3. (Radix - 1) * Radix = Radix * Radix - Radix
  BY <1>1
<1>4. hi * Radix \in Nat /\ Radix * Radix \in Nat
  BY <1>1
<1> QED
  BY <1>1, <1>2, <1>3, <1>4

\* The values calls start and fail with.
LEMMA Values ==
    /\ NoFrame \in Frame
    /\ Unread \in [0 .. HeaderSize - 1 -> Byte]
    /\ Blank \in [0 .. BufSize - 1 -> Byte]
    /\ Junk \in Byte
<1>1. 0 \in 0 .. BufSize /\ 0 \in 0 .. Radix - 1 /\ 0 \in 0 .. MaxCalls
  BY FifoAssumption
<1>2. 0 * Radix + 0 \in 0 .. Radix * Radix - 1
  BY <1>1, TwoDigits, Zenon
<1>3. 0 \in 0 .. Radix * Radix - 1
  BY <1>2, FifoAssumption
<1>4. Zero \in Byte /\ Junk \in Byte
  BY <1>1 DEF Zero, Junk, Byte
<1> QED
  BY <1>1, <1>3, <1>4 DEF NoFrame, Frame, Unread, Blank

LEMMA InitType == Init => TypeOK
<1> SUFFICES ASSUME Init PROVE TypeOK
  OBVIOUS
<1>1. HostTypeOK
  <2>1. 0 \in 0 .. MaxCalls
    BY FifoAssumption
  <2> QED
    BY <2>1 DEF Init, HostTypeOK, Locations
<1>2. TpmTypeOK
  BY FifoAssumption DEF Init, TpmTypeOK, Reception
<1> QED
  BY <1>1, <1>2, Values DEF Init, TypeOK, BufferTypeOK

LEMMA InitFrame == Init => FrameInv
BY DEF Init, FrameInv, Sending

\* Every step preserves the types of the control state ...
LEMMA NextHostType == TypeOK /\ FrameInv /\ [Next]_vars => HostTypeOK'
<1> SUFFICES ASSUME HostTypeOK, FrameInv, [Next]_vars PROVE HostTypeOK'
  BY DEF TypeOK
<1> USE FifoAssumption
<1>1. ASSUME \/ AccessFails \/ WaitTimesOut \/ BurstTimesOut
      PROVE  HostTypeOK'
  BY HostTypeOK, <1>1
     DEF AccessFails, Fail, Return, WaitTimesOut, BurstTimesOut, HostTypeOK, Locations,
         Errors, host
<1>2. ASSUME \/ (\E l \in Localities : InterfaceInit(l)) \/ InterfaceInitRefused
             \/ RequestUse \/ GetInfo
      PROVE  HostTypeOK'
  BY HostTypeOK, <1>2
     DEF InterfaceInit, NoFrame, InterfaceInitRefused, RequestUse, LateError, Fail,
         Return, GetInfo, HostTypeOK, Locations, Errors, host
<1>3. ASSUME ActiveLocality PROVE HostTypeOK'
  BY HostTypeOK, FrameInv, <1>3
     DEF ActiveLocality, HostTypeOK, Locations, Errors, host, FrameInv
<1>4. ASSUME \/ (\E l \in Localities : InterfaceClose(l)) \/ ReadAccess
             \/ Relinquish
      PROVE  HostTypeOK'
  BY HostTypeOK, <1>4
     DEF InterfaceClose, NoFrame, ReadAccess, Fail, Return, Relinquish, LateError,
         HostTypeOK, Locations, Errors, host, NoLocality
<1>5. ASSUME NEW n \in CmdSizes, Xfer(n) PROVE HostTypeOK'
  BY HostTypeOK, <1>5 DEF Xfer, NoFrame, HostTypeOK, Locations, Errors, host
<1>6. ASSUME \/ ReadStatus \/ Prepare \/ WaitReady
      PROVE  HostTypeOK'
  BY HostTypeOK, <1>6
     DEF ReadStatus, Prepare, CommandReady, LateError, Fail, Return, WaitReady,
         HostTypeOK, Locations, Errors, host
<1>7. ASSUME \/ WriteHeader \/ WriteData
      PROVE  HostTypeOK'
  BY HostTypeOK, <1>7
     DEF WriteHeader, FifoAccepts, LateError, Fail, Return, WriteData, HostTypeOK,
         Locations, Errors, host
<1>8. ASSUME \/ BurstLow \/ BurstHigh
      PROVE  HostTypeOK'
  BY HostTypeOK, <1>8 DEF BurstLow, BurstHigh, HostTypeOK, Locations, Errors, host
<1>9. ASSUME \/ WaitValid \/ WriteGo \/ WaitAvail
      PROVE  HostTypeOK'
  BY HostTypeOK, <1>9
     DEF WaitValid, Fail, Return, WriteGo, Go, NoFrame, LateError, WaitAvail, HostTypeOK,
         Locations, Errors, host
<1>10. ASSUME ReadData PROVE HostTypeOK'
  BY HostTypeOK, <1>10
     DEF ReadData, FifoAdvances, LateError, Fail, Return, HostTypeOK, Locations, Errors,
         host, HeaderReceived
<1>11. ASSUME \/ TpmBecomesReady \/ TpmExecutes \/ TpmGrants \/ OtherRequests
              \/ OtherRelinquishes \/ UNCHANGED vars
      PROVE  HostTypeOK'
  <2>1. UNCHANGED host
    BY <1>11 DEF TpmBecomesReady, TpmExecutes, TpmGrants, OtherRequests, OtherRelinquishes,
                 vars, host
  <2> QED
    BY HostTypeOK, <2>1 DEF HostTypeOK, host
<1> QED
  BY <1>1, <1>2, <1>3, <1>4, <1>5, <1>6, <1>7, <1>8, <1>9, <1>10, <1>11
     DEF Next, HostStep, TpmStep, CallerStep

\* ... of the locals ...
LEMMA NextFrameType == TypeOK /\ FrameInv /\ [Next]_vars => (fr \in Frame)'
<1> SUFFICES ASSUME fr \in Frame, TpmTypeOK, FrameInv, [Next]_vars PROVE (fr \in Frame)'
  BY DEF TypeOK
<1> USE FifoAssumption
<1>1. ASSUME NEW l \in Localities, InterfaceInit(l) \/ InterfaceClose(l) PROVE (fr \in Frame)'
  BY Values, <1>1 DEF InterfaceInit, InterfaceClose, Frame
<1>2. ASSUME NEW n \in CmdSizes, Xfer(n) PROVE (fr \in Frame)'
  <2>1. n \in 0 .. BufSize
    OBVIOUS
  <2> QED
    BY Values, <1>2, <2>1 DEF Xfer, Frame
<1>3. ASSUME WriteHeader PROVE (fr \in Frame)'
  <2>1. fr.index + 1 \in 0 .. BufSize
    BY <1>3 DEF WriteHeader, FrameInv, Frame
  <2>2. fr' \in {NoFrame, [fr EXCEPT !.index = @ + 1]}
    BY <1>3 DEF WriteHeader, LateError, Fail, Return
  <2>3. [fr EXCEPT !.index = @ + 1] \in Frame
    BY <2>1 DEF Frame
  <2> QED
    BY <2>2, <2>3, Values
<1>4. ASSUME BurstLow PROVE (fr \in Frame)'
  <2>1. PICK b \in BurstReads : fr' = [fr EXCEPT !.lo = b]
    BY <1>4 DEF BurstLow
  <2>2. b \in 0 .. Radix - 1
    BY DEF BurstReads
  <2> QED
    BY <2>1, <2>2 DEF Frame
<1>5. ASSUME BurstHigh PROVE (fr \in Frame)'
  <2>1. PICK b \in BurstReads :
          \/ fr' = [fr EXCEPT !.lo = 0]
          \/ fr' = [fr EXCEPT !.lo = 0, !.burst = b * Radix + fr.lo]
    BY <1>5 DEF BurstHigh
  <2>2. b \in 0 .. Radix - 1 /\ fr.lo \in 0 .. Radix - 1 /\ 0 \in 0 .. Radix - 1
    BY DEF BurstReads, Frame
  <2>3. b * Radix + fr.lo \in 0 .. Radix * Radix - 1
    BY <2>2, TwoDigits, Zenon
  <2> QED
    BY <2>1, <2>2, <2>3 DEF Frame
<1>6. ASSUME WriteData PROVE (fr \in Frame)'
  <2>1. fr.index + 1 \in 0 .. BufSize
    BY <1>6 DEF WriteData, FrameInv, Sending, Frame
  <2>2. fr.burst - 1 \in 0 .. Radix * Radix - 1
    <3>1. Radix * Radix \in Nat /\ fr.burst \in 0 .. Radix * Radix - 1 /\ fr.burst > 0
      BY <1>6 DEF WriteData, FrameInv, Frame
    <3> QED
      BY <3>1
  <2>3. fr' \in {NoFrame, [fr EXCEPT !.index = @ + 1, !.burst = @ - 1]}
    BY <1>6 DEF WriteData, LateError, Fail, Return
  <2>4. [fr EXCEPT !.index = @ + 1, !.burst = @ - 1] \in Frame
    BY <2>1, <2>2 DEF Frame
  <2> QED
    BY <2>3, <2>4, Values
<1>7. ASSUME WriteGo PROVE (fr \in Frame)'
  BY Values, <1>7 DEF WriteGo, LateError, Fail, Return, Frame
<1>8. ASSUME ReadData PROVE (fr \in Frame)'
  <2>1. fr.burst - 1 \in 0 .. Radix * Radix - 1 /\ 0 \in 0 .. Radix * Radix - 1
    <3>1. Radix * Radix \in Nat /\ fr.burst \in 0 .. Radix * Radix - 1 /\ fr.burst > 0
      BY <1>8 DEF ReadData, FrameInv, Frame
    <3> QED
      BY <3>1
  <2>2. ASSUME NEW h PROVE DeclaredSize(h) \in Nat
    BY DEF DeclaredSize, TpmTypeOK
  <2>3. \/ fr' = NoFrame
        \/ \E h : fr' = [NoFrame EXCEPT !.part = "rest", !.size = HeaderSize,
                                        !.expected = DeclaredSize(h)]
        \/ fr' = [fr EXCEPT !.size = fr.size + 1, !.burst = @ - 1]
        \/ fr' = [fr EXCEPT !.size = fr.size + 1, !.burst = 0]
    BY <1>8 DEF ReadData, HeaderReceived, LateError, Fail, Return
  <2>4. ASSUME NEW h
        PROVE  [NoFrame EXCEPT !.part = "rest", !.size = HeaderSize,
                               !.expected = DeclaredSize(h)] \in Frame
    <3>1. DeclaredSize(h) \in Nat /\ HeaderSize \in Nat
      BY <2>2
    <3> QED
      BY <3>1, Values DEF Frame
  <2>5. fr.size + 1 \in Nat
    BY DEF Frame
  <2>6. [fr EXCEPT !.size = fr.size + 1, !.burst = @ - 1] \in Frame
    BY <2>1, <2>5 DEF Frame
  <2>7. [fr EXCEPT !.size = fr.size + 1, !.burst = 0] \in Frame
    BY <2>1, <2>5 DEF Frame
  <2> QED
    BY ZenonT(60), <2>3, <2>4, <2>6, <2>7, Values
<1>9. ASSUME \/ AccessFails \/ WaitTimesOut \/ InterfaceInitRefused \/ RequestUse
             \/ ActiveLocality \/ GetInfo \/ ReadAccess \/ Relinquish \/ ReadStatus
             \/ Prepare \/ WaitReady \/ BurstTimesOut \/ WaitValid \/ WaitAvail
             \/ TpmBecomesReady \/ TpmExecutes \/ TpmGrants \/ OtherRequests
             \/ OtherRelinquishes \/ UNCHANGED vars
      PROVE  (fr \in Frame)'
  BY Values, <1>9
     DEF AccessFails, Fail, Return, WaitTimesOut, InterfaceInitRefused, RequestUse,
         LateError, ActiveLocality, GetInfo, ReadAccess, Relinquish, ReadStatus, Prepare,
         CommandReady, WaitReady, BurstTimesOut, WaitValid, WaitAvail, TpmBecomesReady,
         TpmExecutes, TpmGrants, OtherRequests, OtherRelinquishes, vars, host
<1> QED
  BY <1>1, <1>2, <1>3, <1>4, <1>5, <1>6, <1>7, <1>8, <1>9
     DEF Next, HostStep, TpmStep, CallerStep

\* ... of the response buffer ...
LEMMA NextBufferType == TypeOK /\ FrameInv /\ [Next]_vars => BufferTypeOK'
<1> SUFFICES ASSUME BufferTypeOK, TpmTypeOK, [Next]_vars PROVE BufferTypeOK'
  BY DEF TypeOK
<1>1. ASSUME ReadData PROVE BufferTypeOK'
  <2>1. FifoByte \in Byte
    BY Values DEF FifoByte, TpmTypeOK, Byte
  <2>2. ASSUME NEW i
        PROVE  /\ [hdr EXCEPT ![i] = FifoByte] \in [0 .. HeaderSize - 1 -> Byte]
               /\ [data EXCEPT ![i] = FifoByte] \in [0 .. BufSize - 1 -> Byte]
    BY <2>1 DEF BufferTypeOK
  <2>3. /\ hdr' \in {hdr, Unread, [hdr EXCEPT ![LoopIndex(fr.size)] = FifoByte]}
        /\ data' \in {data, Blank, [data EXCEPT ![LoopIndex(fr.size)] = FifoByte]}
    BY <1>1 DEF ReadData, HeaderReceived, LateError, Fail
  <2> QED
    BY <2>2, <2>3, Values DEF BufferTypeOK
<1>2. ASSUME \/ AccessFails \/ WaitTimesOut \/ RequestUse \/ ReadAccess
             \/ Relinquish \/ (\E n \in CmdSizes : Xfer(n)) \/ Prepare
             \/ WriteHeader \/ BurstTimesOut \/ WriteData \/ WaitValid \/ WriteGo
      PROVE  BufferTypeOK'
  BY Values, <1>2
     DEF AccessFails, Fail, Return, WaitTimesOut, RequestUse, LateError, ReadAccess,
         Relinquish, Xfer, NoFrame, Prepare, CommandReady, WriteHeader, FifoAccepts,
         BurstTimesOut, WriteData, WaitValid, WriteGo, Go, host, BufferTypeOK
<1>3. ASSUME \/ (\E l \in Localities : InterfaceInit(l)) \/ InterfaceInitRefused
             \/ ActiveLocality \/ GetInfo
             \/ (\E l \in Localities : InterfaceClose(l)) \/ ReadStatus \/ WaitReady
             \/ BurstLow \/ BurstHigh \/ WaitAvail \/ TpmBecomesReady \/ TpmExecutes
             \/ TpmGrants \/ OtherRequests \/ OtherRelinquishes \/ UNCHANGED vars
      PROVE  BufferTypeOK'
  BY Values, <1>3
     DEF InterfaceInit, NoFrame, InterfaceInitRefused, ActiveLocality, GetInfo, Return,
         InterfaceClose, ReadStatus, WaitReady, BurstLow, BurstHigh, WaitAvail,
         TpmBecomesReady, TpmExecutes, TpmGrants, OtherRequests, OtherRelinquishes, vars,
         host, BufferTypeOK
<1> QED
  BY <1>1, <1>2, <1>3 DEF Next, HostStep, TpmStep, CallerStep

\* ... and of the TPM.
LEMMA NextTpmType == TypeOK /\ FrameInv /\ [Next]_vars => TpmTypeOK'
<1> SUFFICES ASSUME HostTypeOK, fr \in Frame, TpmTypeOK, FrameInv, [Next]_vars PROVE TpmTypeOK'
  BY DEF TypeOK
<1> USE FifoAssumption
<1>1. ASSUME RequestUse PROVE TpmTypeOK'
  BY TpmTypeOK, FrameInv, <1>1
     DEF RequestUse, LateError, Fail, Return, tpm, TpmTypeOK, Reception, FrameInv
<1>2. ASSUME Relinquish PROVE TpmTypeOK'
  BY TpmTypeOK, <1>2 DEF Relinquish, LateError, Fail, Return, tpm, TpmTypeOK, Reception
<1>3. ASSUME \/ Prepare \/ WriteGo
      PROVE  TpmTypeOK'
  BY TpmTypeOK, <1>3
     DEF Prepare, CommandReady, LateError, Fail, Return, WriteGo, Go, NoFrame, tpm,
         TpmTypeOK, Reception
<1>4. ASSUME WriteHeader \/ WriteData PROVE TpmTypeOK'
  <2>1. FifoAccepts(calls, fr.index, fr.len)
    BY <1>4 DEF WriteHeader, WriteData
  <2>2. calls \in 0 .. MaxCalls /\ fr.len \in 0 .. BufSize
    BY DEF HostTypeOK, Frame
  <2>3. (rx \in Reception)'
    <3>1. \/ rx' = rx
          \/ rx' = [cmd |-> calls, n |-> 1, len |-> fr.len, ok |-> fr.index = 0]
          \/ rx' = [rx EXCEPT !.n = @ + 1, !.ok = @ /\ rx.cmd = calls /\ rx.n = fr.index]
      BY <2>1 DEF FifoAccepts
    <3>2. ASSUME NEW o \in BOOLEAN, NEW m \in Nat
          PROVE  /\ [cmd |-> calls, n |-> m, len |-> fr.len, ok |-> o] \in Reception
                 /\ [rx EXCEPT !.n = m, !.ok = o] \in Reception
      BY <2>2 DEF TpmTypeOK, Reception
    <3>3. 1 \in Nat /\ rx.n + 1 \in Nat
      BY DEF TpmTypeOK, Reception
    <3>4. (fr.index = 0) \in BOOLEAN /\ (rx.ok /\ rx.cmd = calls /\ rx.n = fr.index) \in BOOLEAN
      OBVIOUS
    <3>5. [cmd |-> calls, n |-> 1, len |-> fr.len, ok |-> fr.index = 0] \in Reception
      BY <3>2, <3>3, <3>4, Zenon
    <3>6. [rx EXCEPT !.n = rx.n + 1, !.ok = rx.ok /\ rx.cmd = calls /\ rx.n = fr.index]
            \in Reception
      BY <3>2, <3>3, <3>4, Zenon
    <3> QED
      BY <3>1, <3>5, <3>6, Zenon DEF TpmTypeOK
  <2> QED
    BY <2>1, <2>3 DEF FifoAccepts, TpmTypeOK
<1>5. ASSUME ReadData PROVE TpmTypeOK'
  BY SMTT(30), TpmTypeOK, <1>5
     DEF ReadData, FifoAdvances, LateError, Fail, Return, tpm, TpmTypeOK, Reception
<1>6. ASSUME TpmExecutes PROVE TpmTypeOK'
  <2>1. (execs \in [0 .. MaxCalls -> Nat])'
    <3> DEFINE k == IF rx.ok THEN rx.cmd ELSE 0
    <3>1. execs' = [execs EXCEPT ![k] = @ + 1]
      BY <1>6 DEF TpmExecutes
    <3>2. k \in 0 .. MaxCalls
      BY DEF TpmTypeOK, Reception
    <3> HIDE DEF k
    <3> QED
      BY <3>1, <3>2 DEF TpmTypeOK
  <2>2. (rsp \in [cmd : 0 .. MaxCalls, size : Nat, pos : Nat])'
    BY <1>6 DEF TpmExecutes, TpmTypeOK, Reception
  <2> QED
    BY <1>6, <2>1, <2>2 DEF TpmExecutes, TpmTypeOK
<1>7. ASSUME \/ TpmBecomesReady \/ TpmGrants \/ OtherRequests \/ OtherRelinquishes
      PROVE  TpmTypeOK'
  BY TpmTypeOK, <1>7
     DEF TpmBecomesReady, TpmGrants, OtherRequests, OtherRelinquishes, tpm, TpmTypeOK,
         Reception
<1>8. ASSUME \/ AccessFails \/ WaitTimesOut
             \/ (\E l \in Localities : InterfaceInit(l)) \/ InterfaceInitRefused
             \/ ActiveLocality \/ GetInfo
             \/ (\E l \in Localities : InterfaceClose(l)) \/ ReadAccess
             \/ (\E n \in CmdSizes : Xfer(n)) \/ ReadStatus \/ WaitReady \/ BurstLow
             \/ BurstHigh \/ BurstTimesOut \/ WaitValid \/ WaitAvail
             \/ UNCHANGED vars
      PROVE  TpmTypeOK'
  BY TpmTypeOK, <1>8
     DEF AccessFails, WaitTimesOut, InterfaceInit, InterfaceInitRefused, ActiveLocality,
         GetInfo, InterfaceClose, ReadAccess, Xfer, ReadStatus, WaitReady, BurstLow,
         BurstHigh, BurstTimesOut, WaitValid, WaitAvail, vars, tpm, TpmTypeOK, Reception
<1> QED
  BY <1>1, <1>2, <1>3, <1>4, <1>5, <1>6, <1>7, <1>8
     DEF Next, HostStep, TpmStep, CallerStep

\* Every step preserves the frame invariant.
LEMMA NextFrame == TypeOK /\ FrameInv /\ [Next]_vars => FrameInv'
<1> SUFFICES ASSUME fr \in Frame, FrameInv, [Next]_vars PROVE FrameInv'
  BY DEF TypeOK
<1> USE FifoAssumption
<1>1. ASSUME \/ AccessFails \/ WaitTimesOut \/ BurstTimesOut
      PROVE  FrameInv'
  BY FrameInv, <1>1
     DEF AccessFails, Fail, Return, WaitTimesOut, BurstTimesOut, Frame, FrameInv,
         Sending, NoFrame, host
<1>2. ASSUME \/ (\E l \in Localities : InterfaceInit(l)) \/ InterfaceInitRefused
             \/ (\E l \in Localities : InterfaceClose(l))
      PROVE  FrameInv'
  BY FrameInv, <1>2
     DEF InterfaceInit, NoFrame, InterfaceInitRefused, InterfaceClose, Frame, FrameInv,
         Sending, host
<1>3. ASSUME \/ RequestUse \/ ActiveLocality \/ GetInfo
      PROVE  FrameInv'
  BY FrameInv, <1>3
     DEF RequestUse, LateError, Fail, Return, ActiveLocality, GetInfo, Frame, FrameInv,
         Sending, NoFrame, host
<1>4. ASSUME \/ ReadAccess \/ Relinquish
      PROVE  FrameInv'
  BY FrameInv, <1>4
     DEF ReadAccess, Fail, Return, Relinquish, LateError, Frame, FrameInv, Sending,
         NoFrame, host
<1>5. ASSUME NEW n \in CmdSizes, Xfer(n) PROVE FrameInv'
  BY FrameInv, <1>5 DEF Xfer, NoFrame, Frame, FrameInv, Sending, host
<1>6. ASSUME \/ ReadStatus \/ Prepare \/ WaitReady
      PROVE  FrameInv'
  BY FrameInv, <1>6
     DEF ReadStatus, Prepare, CommandReady, LateError, Fail, Return, WaitReady, Frame,
         FrameInv, Sending, NoFrame, host
<1>7. ASSUME WriteHeader PROVE FrameInv'
  BY FrameInv, <1>7
     DEF WriteHeader, FifoAccepts, LateError, Fail, Return, Frame, FrameInv, Sending,
         NoFrame, host
<1>8. ASSUME BurstLow PROVE FrameInv'
  BY FrameInv, <1>8 DEF BurstLow, Frame, FrameInv, Sending, NoFrame, host
<1>9. ASSUME BurstHigh PROVE FrameInv'
  <2>1. PICK b \in BurstReads :
          \/ pc' = "burst_lo" /\ fr' = [fr EXCEPT !.lo = 0]
          \/ /\ b * Radix + fr.lo # 0
             /\ fr' = [fr EXCEPT !.lo = 0, !.burst = b * Radix + fr.lo]
             /\ pc' = IF fr.part = "send" THEN "write_data" ELSE "read_data"
    BY <1>9 DEF BurstHigh
  <2>2. b \in 0 .. Radix - 1 /\ fr.lo \in 0 .. Radix - 1
    BY DEF BurstReads, Frame
  <2>3. b * Radix + fr.lo \in 0 .. Radix * Radix - 1
    BY <2>2, TwoDigits, Zenon
  <2>4. b * Radix + fr.lo # 0 => b * Radix + fr.lo > 0
    BY <2>3
  <2>5. pc = "burst_hi" /\ op' = op
    BY <1>9 DEF BurstHigh
  <2> QED
    BY <2>1, <2>4, <2>5 DEF Frame, FrameInv, Sending
<1>10. ASSUME WriteData PROVE FrameInv'
  <2>1. CASE pc' = "idle"
    BY <1>10, <2>1 DEF WriteData, FrameInv, Sending
  <2>2. CASE /\ fr' = [fr EXCEPT !.index = @ + 1, !.burst = @ - 1]
             /\ pc' = IF fr.index + 1 >= fr.len THEN "wait_valid"
                      ELSE IF fr.burst - 1 > 0 THEN "write_data"
                      ELSE "burst_lo"
    <3>1. /\ fr.index \in Nat /\ fr.len \in Nat /\ fr.burst \in Nat
          /\ fr'.index = fr.index + 1 /\ fr'.burst = fr.burst - 1
          /\ fr'.len = fr.len /\ fr'.part = fr.part
      BY <2>2 DEF Frame
    <3> QED
      BY <1>10, <2>2, <3>1 DEF WriteData, FrameInv, Sending
  <2> QED
    BY <1>10, <2>1, <2>2 DEF WriteData, LateError, Fail, Return
<1>11. ASSUME WaitValid PROVE FrameInv'
  BY FrameInv, <1>11
     DEF WaitValid, Fail, Return, Frame, FrameInv, Sending, NoFrame, host
<1>12. ASSUME WriteGo PROVE FrameInv'
  BY FrameInv, <1>12
     DEF WriteGo, Go, NoFrame, LateError, Fail, Return, Frame, FrameInv, Sending, host
<1>13. ASSUME WaitAvail PROVE FrameInv'
  BY FrameInv, <1>13 DEF WaitAvail, Return, Frame, FrameInv, Sending, NoFrame, host
<1>14. ASSUME ReadData PROVE FrameInv'
  <2>1. CASE pc' = "idle"
    BY <1>14, <2>1 DEF ReadData, FrameInv, Sending
  <2>2. CASE pc' = "wait_avail" /\ fr'.part = "rest"
    BY <1>14, <2>2 DEF ReadData, FrameInv, Sending
  <2>3. CASE pc' = pc /\ fr' = [fr EXCEPT !.size = fr.size + 1, !.burst = @ - 1] /\ fr.burst - 1 > 0
    BY <1>14, <2>3 DEF ReadData, FrameInv, Sending, Frame
  <2>4. CASE pc' = "burst_lo" /\ fr' = [fr EXCEPT !.size = fr.size + 1, !.burst = 0]
    BY <1>14, <2>4 DEF ReadData, FrameInv, Sending, Frame
  <2> QED
    BY <1>14, <2>1, <2>2, <2>3, <2>4
       DEF ReadData, HeaderReceived, LateError, Fail, Return, NoFrame
<1>15. ASSUME \/ TpmBecomesReady \/ TpmExecutes \/ TpmGrants \/ OtherRequests
              \/ OtherRelinquishes \/ UNCHANGED vars
      PROVE  FrameInv'
  BY FrameInv, <1>15
     DEF TpmBecomesReady, TpmExecutes, TpmGrants, OtherRequests, OtherRelinquishes, vars,
         Frame, FrameInv, Sending, NoFrame, host
<1> QED
  BY <1>1, <1>2, <1>3, <1>4, <1>5, <1>6, <1>7, <1>8, <1>9, <1>10, <1>11, <1>12,
     <1>13, <1>14, <1>15
     DEF Next, HostStep, TpmStep, CallerStep
-----------------------------------------------------------------------------
\* What every step preserves: types, given the shape of the locals.
IInv == TypeOK /\ FrameInv

LEMMA Invariance == Spec => []IInv
<1>1. Init => IInv
  BY InitType, InitFrame DEF IInv
<1>2. IInv /\ [Next]_vars => IInv'
  BY NextHostType, NextFrameType, NextBufferType, NextTpmType, NextFrame DEF IInv, TypeOK
<1> QED
  BY <1>1, <1>2, PTL DEF Spec

\* The variables keep their types: tpm2_fifo_send never indexes past the command
\* it was given, burst counts stay within two register values, and the library
\* never addresses a locality that no caller asked for.
THEOREM TypeCorrect == Spec => []TypeOK
BY Invariance, PTL DEF IInv
-----------------------------------------------------------------------------
\* A locality that is being given up has been closed by the caller.
HeldInv ==
    /\ HeldWhileOpen
    /\ pc \in {"read_access", "relinquish"} => open # fr.arg

LEMMA NextHeld == IInv /\ HeldInv /\ [Next]_vars => HeldInv'
<1> SUFFICES ASSUME IInv, HeldInv, [Next]_vars PROVE HeldInv'
  OBVIOUS
<1>0. /\ pc \in {"request_use", "wait_active", "read_access", "relinquish"} =>
           fr.arg \in Localities
      /\ open \in Localities \cup {NoLocality}
      /\ NoLocality \notin Localities
      /\ OtherLocality \notin Localities \cup {NoLocality}
  BY FifoAssumption DEF IInv, TypeOK, HostTypeOK, FrameInv, NoLocality
<1>1. ASSUME ActiveLocality PROVE HeldInv'
  BY <1>0, <1>1 DEF ActiveLocality, HeldInv, HeldWhileOpen, tpm
<1>2. ASSUME NEW l \in Localities, InterfaceClose(l) PROVE HeldInv'
  BY <1>0, <1>2 DEF InterfaceClose, HeldInv, HeldWhileOpen, NoFrame, tpm
<1>3. ASSUME ReadAccess PROVE HeldInv'
  BY <1>0, <1>3 DEF ReadAccess, Fail, Return, HeldInv, HeldWhileOpen, tpm
<1>4. ASSUME Relinquish PROVE HeldInv'
  BY <1>0, <1>4 DEF Relinquish, LateError, Fail, Return, HeldInv, HeldWhileOpen
<1>5. ASSUME TpmGrants \/ OtherRelinquishes \/ TpmBecomesReady \/ TpmExecutes \/ OtherRequests
      PROVE  HeldInv'
  BY <1>0, <1>5 DEF TpmGrants, OtherRelinquishes, TpmBecomesReady, TpmExecutes,
                    OtherRequests, HeldInv, HeldWhileOpen, host
<1>6. ASSUME \/ AccessFails \/ WaitTimesOut \/ BurstTimesOut
             \/ (\E l \in Localities : InterfaceInit(l)) \/ InterfaceInitRefused
             \/ RequestUse \/ GetInfo \/ UNCHANGED vars
      PROVE  HeldInv'
  BY <1>6 DEF AccessFails, WaitTimesOut, BurstTimesOut, InterfaceInit, InterfaceInitRefused,
              RequestUse, LateError, GetInfo, Fail, Return, HeldInv, HeldWhileOpen, tpm, vars
<1>7. ASSUME \/ (\E n \in CmdSizes : Xfer(n)) \/ ReadStatus \/ Prepare \/ WaitReady
             \/ WriteHeader \/ BurstLow \/ BurstHigh \/ WriteData \/ WaitValid \/ WriteGo
             \/ WaitAvail \/ ReadData
      PROVE  /\ pc' \notin {"read_access", "relinquish"}
             /\ UNCHANGED <<open, active, locality>>
  BY <1>7 DEF Xfer, ReadStatus, Prepare, CommandReady, WaitReady, WriteHeader, FifoAccepts,
              BurstLow, BurstHigh, WriteData, WaitValid, WriteGo, Go, WaitAvail, ReadData,
              HeaderReceived, FifoAdvances, LateError, Fail, Return, tpm
<1> QED
  BY <1>1, <1>2, <1>3, <1>4, <1>5, <1>6, <1>7
     DEF Next, HostStep, TpmStep, CallerStep, HeldInv, HeldWhileOpen

\* A locality obtained by tpm_interface_init stays active, and stays the one
\* the library addresses, until tpm_interface_close is called for it, however
\* many calls for other localities fail or time out in between.
THEOREM LocalityHeld == Spec => []HeldWhileOpen
<1>1. Init => HeldInv
  BY DEF Init, HeldInv, HeldWhileOpen
<1> QED
  BY <1>1, NextHeld, Invariance, PTL DEF Spec, HeldInv
-----------------------------------------------------------------------------
\* A locality that is being requested has been asked for.
ReleasedInv ==
    /\ ClosedMeansReleased
    /\ pc \in {"request_use", "wait_active"} => fr.arg \in asked

LEMMA NextReleased == IInv /\ ReleasedInv /\ [Next]_vars => ReleasedInv'
<1> SUFFICES ASSUME IInv, ReleasedInv, [Next]_vars PROVE ReleasedInv'
  OBVIOUS
<1>0. /\ NoLocality \notin Localities
      /\ OtherLocality \notin Localities
  BY FifoAssumption DEF NoLocality
<1>1. ASSUME NEW l \in Localities, InterfaceInit(l) PROVE ReleasedInv'
  BY <1>1 DEF InterfaceInit, ReleasedInv, ClosedMeansReleased, NoFrame, tpm
<1>2. ASSUME RequestUse PROVE ReleasedInv'
  BY <1>2 DEF RequestUse, LateError, Fail, Return, ReleasedInv, ClosedMeansReleased
<1>3. ASSUME Relinquish PROVE ReleasedInv'
  BY <1>0, <1>3 DEF Relinquish, LateError, Fail, Return, ReleasedInv, ClosedMeansReleased
<1>4. ASSUME TpmGrants \/ OtherRelinquishes \/ TpmBecomesReady \/ TpmExecutes \/ OtherRequests
      PROVE  ReleasedInv'
  BY <1>0, <1>4 DEF TpmGrants, OtherRelinquishes, TpmBecomesReady, TpmExecutes,
                    OtherRequests, ReleasedInv, ClosedMeansReleased, host
<1>5. ASSUME \/ AccessFails \/ WaitTimesOut \/ BurstTimesOut \/ InterfaceInitRefused
             \/ (\E l \in Localities : InterfaceClose(l))
             \/ ActiveLocality \/ GetInfo \/ ReadAccess \/ UNCHANGED vars
      PROVE  ReleasedInv'
  BY <1>5 DEF AccessFails, WaitTimesOut, BurstTimesOut, InterfaceInitRefused, InterfaceClose,
              ActiveLocality, GetInfo, ReadAccess, Fail, Return, ReleasedInv,
              ClosedMeansReleased, tpm, vars
<1>6. ASSUME \/ (\E n \in CmdSizes : Xfer(n)) \/ ReadStatus \/ Prepare \/ WaitReady
             \/ WriteHeader \/ BurstLow \/ BurstHigh \/ WriteData \/ WaitValid \/ WriteGo
             \/ WaitAvail \/ ReadData
      PROVE  /\ pc' \notin {"request_use", "wait_active"}
             /\ UNCHANGED <<asked, active, pending>>
  BY <1>6 DEF Xfer, ReadStatus, Prepare, CommandReady, WaitReady, WriteHeader, FifoAccepts,
              BurstLow, BurstHigh, WriteData, WaitValid, WriteGo, Go, WaitAvail, ReadData,
              HeaderReceived, FifoAdvances, LateError, Fail, Return, tpm
<1> QED
  BY <1>1, <1>2, <1>3, <1>4, <1>5, <1>6
     DEF Next, HostStep, TpmStep, CallerStep, ReleasedInv, ClosedMeansReleased

\* After a tpm_interface_close that succeeded, the TPM neither serves the locality
\* nor can grant it late, whatever an earlier tpm_interface_init that failed or
\* timed out had left behind, until the locality is asked for again.
THEOREM CloseReleases == Spec => []ClosedMeansReleased
<1>1. Init => ReleasedInv
  BY FifoAssumption DEF Init, ReleasedInv, ClosedMeansReleased, NoLocality
<1> QED
  BY <1>1, NextReleased, Invariance, PTL DEF Spec, ReleasedInv
-----------------------------------------------------------------------------
\* Where the library is from the start of tpm_xfer to the write of GO.
Submitting == pc \in {"status", "prepare", "wait_ready"} \/ Sending

\* A command not yet issued has not run.
OnceInv ==
    /\ AtMostOnce
    /\ \A k \in Calls : k > calls => execs[k] = 0

\* Only the locality the library addresses gets the TPM out of its idle state.
OwnerInv == dst # "idle" => Mine

\* What the TPM is receiving or executing was sent by one of the calls so far;
\* what it executes is one whole command that has not run before.
ReceivedInv ==
    /\ dst \in {"reception", "execution"} => rx.cmd \in 1 .. calls
    /\ dst = "execution" => rx.ok /\ execs[rx.cmd] = 0

\* The command being submitted has not run.  An earlier one may still run until
\* tpm2_fifo_prepare aborts it; from then on the TPM holds what was sent so far.
SubmitInv ==
    /\ Submitting => calls \in Calls /\ execs[calls] = 0
    /\ pc \in {"status", "prepare"} /\ dst = "execution" => rx.cmd # calls
    /\ pc = "wait_ready" => dst \in {"idle", "to_ready", "ready"}
    /\ Sending =>
         \/ dst = "idle"
         \/ dst = "ready" /\ fr.index = 0
         \/ /\ dst = "reception" /\ rx.cmd = calls /\ rx.ok
            /\ rx.n = fr.index /\ rx.len = fr.len

ExecInv == OnceInv /\ OwnerInv /\ ReceivedInv /\ SubmitInv


\* Every step preserves the history of what has run.
LEMMA NextExec == IInv /\ ExecInv /\ [Next]_vars => ExecInv'
<1> SUFFICES ASSUME IInv, ExecInv, [Next]_vars PROVE ExecInv'
  OBVIOUS
<1> USE FifoAssumption
<1>0. TypeOK /\ FrameInv /\ OnceInv /\ OwnerInv /\ ReceivedInv /\ SubmitInv
  BY DEF IInv, ExecInv
<1>1. /\ calls \in 0 .. MaxCalls /\ execs \in [0 .. MaxCalls -> Nat]
      /\ rx \in Reception /\ fr \in Frame
  BY <1>0 DEF TypeOK, HostTypeOK, TpmTypeOK
<1>2. ASSUME pc' \notin {"status", "prepare", "wait_ready", "write_header", "burst_lo",
                         "burst_hi", "write_data", "wait_valid", "write_go"},
             UNCHANGED <<calls, locality>>, UNCHANGED <<active, dst, rx, execs>>
      PROVE  ExecInv'
  BY <1>0, <1>2 DEF ExecInv, OnceInv, AtMostOnce, OwnerInv, Mine, ReceivedInv, SubmitInv,
                    Submitting, Sending
<1>3. ASSUME \/ AccessFails \/ WaitTimesOut \/ BurstTimesOut
             \/ (\E l \in Localities : InterfaceInit(l) \/ InterfaceClose(l))
             \/ InterfaceInitRefused \/ RequestUse \/ GetInfo \/ ReadAccess
      PROVE  ExecInv'
  <2>1. /\ pc' \in {"idle", "request_use", "wait_active", "get_revid", "read_access",
                    "relinquish"}
        /\ UNCHANGED <<calls, locality>> /\ UNCHANGED <<active, dst, rx, execs>>
    BY <1>3 DEF AccessFails, WaitTimesOut, BurstTimesOut, InterfaceInit, InterfaceClose,
                InterfaceInitRefused, RequestUse, LateError, GetInfo, ReadAccess, Fail,
                Return, tpm
  <2> QED
    BY <1>2, <2>1
<1>4. ASSUME ActiveLocality PROVE ExecInv'
  BY <1>0, <1>4 DEF ActiveLocality, tpm, ExecInv, OnceInv, AtMostOnce, OwnerInv, Mine,
                    ReceivedInv, SubmitInv, Submitting, Sending
<1>5. ASSUME Relinquish PROVE ExecInv'
  BY <1>0, <1>5 DEF Relinquish, LateError, Fail, Return, ExecInv, OnceInv, AtMostOnce,
                    OwnerInv, Mine, ReceivedInv, SubmitInv, Submitting, Sending
<1>6. ASSUME NEW n \in CmdSizes, Xfer(n) PROVE ExecInv'
  BY <1>0, <1>1, <1>6 DEF Xfer, tpm, Calls, ExecInv, OnceInv, AtMostOnce, OwnerInv, Mine,
                          ReceivedInv, SubmitInv, Submitting, Sending
<1>7. ASSUME ReadStatus \/ WaitReady PROVE ExecInv'
  <2>1. pc' = "write_header" => dst \in {"idle", "ready"} /\ fr.index = 0
    BY <1>0, <1>7 DEF ReadStatus, WaitReady, StatusReads, OwnerInv, FrameInv
  <2> QED
    BY <1>0, <1>7, <2>1 DEF ReadStatus, WaitReady, tpm, ExecInv, OnceInv, AtMostOnce,
                            OwnerInv, Mine, ReceivedInv, SubmitInv, Submitting, Sending
<1>8. ASSUME Prepare PROVE ExecInv'
  BY <1>0, <1>8 DEF Prepare, CommandReady, LateError, Fail, Return, ExecInv, OnceInv,
                    AtMostOnce, OwnerInv, Mine, ReceivedInv, SubmitInv, Submitting, Sending
<1>9. ASSUME WriteHeader \/ WriteData PROVE ExecInv'
  <2>1. /\ Sending /\ fr.index \in Nat /\ fr.len \in Nat /\ fr.index < fr.len
        /\ FifoAccepts(calls, fr.index, fr.len)
        /\ UNCHANGED <<calls, locality>>
    BY <1>0, <1>1, <1>9 DEF WriteHeader, WriteData, Sending, FrameInv, Frame
  <2>2. \/ pc' = "idle"
        \/ fr'.index = fr.index + 1 /\ fr'.len = fr.len
    BY <1>1, <1>9 DEF WriteHeader, WriteData, LateError, Fail, Return, Frame
  <2>3. pc' \notin {"status", "prepare", "wait_ready"}
    BY <1>9 DEF WriteHeader, WriteData, LateError, Fail, Return
  <2>4. \/ dst = "idle" /\ dst' = "idle"
        \/ /\ dst # "idle"
           /\ dst' = "reception" /\ rx'.cmd = calls /\ rx'.ok
           /\ rx'.n = fr.index + 1 /\ rx'.len = fr.len
    <3>1. CASE dst = "idle"
      BY <2>1, <3>1 DEF FifoAccepts
    <3>2. CASE dst = "ready" /\ fr.index = 0
      <4>1. /\ dst' = "reception"
            /\ rx' = [cmd |-> calls, n |-> 1, len |-> fr.len, ok |-> fr.index = 0]
        BY <1>0, <2>1, <3>2 DEF FifoAccepts, OwnerInv
      <4>2. rx'.ok
        BY <3>2, <4>1, Zenon
      <4> QED
        BY <3>2, <4>1, <4>2
    <3>3. CASE /\ dst = "reception" /\ rx.cmd = calls /\ rx.ok
               /\ rx.n = fr.index /\ rx.len = fr.len
      <4>1. /\ dst' = "reception"
            /\ rx' = [rx EXCEPT !.n = @ + 1, !.ok = @ /\ rx.cmd = calls /\ rx.n = fr.index]
        BY <1>0, <2>1, <3>3 DEF FifoAccepts, OwnerInv
      <4>2. rx'.ok = (rx.ok /\ rx.cmd = calls /\ rx.n = fr.index)
        BY <1>1, <4>1 DEF Reception
      <4>3. rx'.ok
        BY <3>3, <4>2, Zenon
      <4>4. rx'.cmd = calls /\ rx'.n = fr.index + 1 /\ rx'.len = fr.len
        BY <1>1, <3>3, <4>1 DEF Reception
      <4> QED
        BY <3>3, <4>1, <4>3, <4>4
    <3> QED
      BY <1>0, <2>1, <3>1, <3>2, <3>3 DEF SubmitInv
  <2>5. calls \in 1 .. calls /\ execs[calls] = 0 /\ calls \in Calls
    BY <1>0, <1>1, <2>1 DEF SubmitInv, Submitting, Calls
  <2>6. UNCHANGED <<active, execs>>
    BY <2>1 DEF FifoAccepts
  <2>7. OnceInv' /\ OwnerInv'
    BY <1>0, <2>1, <2>4, <2>6 DEF OnceInv, AtMostOnce, OwnerInv, Mine, SubmitInv
  <2>8. ReceivedInv'
    BY <2>1, <2>4, <2>5 DEF ReceivedInv
  <2>9. SubmitInv'
    BY <2>1, <2>2, <2>3, <2>4, <2>5, <2>6 DEF SubmitInv, Submitting, Sending
  <2> QED
    BY <2>7, <2>8, <2>9 DEF ExecInv
<1>10. ASSUME BurstLow \/ BurstHigh \/ WaitValid PROVE ExecInv'
  <2>1. /\ UNCHANGED <<calls, locality>> /\ UNCHANGED <<active, dst, rx, execs>>
        /\ pc' \notin {"status", "prepare", "wait_ready"}
        /\ Sending' => Sending /\ fr'.index = fr.index /\ fr'.len = fr.len
    BY <1>1, <1>10 DEF BurstLow, BurstHigh, WaitValid, Fail, Return, Sending, Frame, tpm
  <2> QED
    BY <1>0, <2>1 DEF ExecInv, OnceInv, AtMostOnce, OwnerInv, Mine, ReceivedInv, SubmitInv,
                      Submitting
<1>11. ASSUME WriteGo PROVE ExecInv'
  <2>1. /\ pc' \in {"idle", "wait_avail"} /\ UNCHANGED <<calls, locality>>
        /\ UNCHANGED <<active, rx, execs>>
    BY <1>11 DEF WriteGo, Go, LateError, Fail, Return
  <2>2. dst' \in {dst, "execution"} /\ (dst' = "execution" => dst = "reception")
    BY <1>0, <1>11 DEF WriteGo, Go, SubmitInv, Sending
  <2>3. Sending /\ Submitting
    BY <1>11 DEF WriteGo, Sending, Submitting
  <2> QED
    BY <1>0, <2>1, <2>2, <2>3 DEF ExecInv, OnceInv, AtMostOnce, OwnerInv, Mine,
                                  ReceivedInv, SubmitInv, Submitting, Sending
<1>12. ASSUME WaitAvail \/ ReadData PROVE ExecInv'
  <2>1. /\ fr.part # "send"
        /\ UNCHANGED <<calls, locality>> /\ UNCHANGED <<active, dst, rx, execs>>
        /\ pc' \in {"idle", "wait_avail", "burst_lo", "read_data"}
    BY <1>0, <1>12 DEF WaitAvail, ReadData, FifoAdvances, HeaderReceived, LateError, Fail,
                       Return, FrameInv, tpm
  <2>2. pc' = "burst_lo" => fr'.part # "send"
    BY <1>1, <1>12, <2>1 DEF WaitAvail, ReadData, HeaderReceived, LateError, Fail, Return,
                             Frame
  <2> QED
    BY <1>0, <2>1, <2>2 DEF ExecInv, OnceInv, AtMostOnce, OwnerInv, Mine, ReceivedInv,
                            SubmitInv, Submitting, Sending
<1>13. ASSUME TpmExecutes PROVE ExecInv'
  <2>1. /\ dst = "execution" /\ dst' = "completion" /\ rx.cmd \in 1 .. calls
        /\ execs[rx.cmd] = 0 /\ ~Sending /\ pc # "wait_ready"
    BY <1>0, <1>13 DEF TpmExecutes, ReceivedInv, SubmitInv
  <2>2. execs' = [execs EXCEPT ![rx.cmd] = @ + 1]
    BY <1>0, <1>13 DEF TpmExecutes, ReceivedInv
  <2>3. UNCHANGED <<pc, fr, calls, locality, active, rx>>
    BY <1>13 DEF TpmExecutes, host
  <2>4. OnceInv'
    BY <1>0, <1>1, <2>1, <2>2, <2>3 DEF OnceInv, AtMostOnce, Calls
  <2>5. OwnerInv' /\ ReceivedInv'
    BY <1>0, <2>1, <2>3 DEF OwnerInv, Mine, ReceivedInv
  <2>6. SubmitInv'
    BY <1>0, <1>1, <2>1, <2>2, <2>3 DEF SubmitInv, Submitting, Sending, Calls
  <2> QED
    BY <2>4, <2>5, <2>6 DEF ExecInv
<1>14. ASSUME TpmBecomesReady \/ OtherRequests \/ UNCHANGED vars PROVE ExecInv'
  BY <1>0, <1>14 DEF TpmBecomesReady, OtherRequests, host, vars, ExecInv, OnceInv,
                     AtMostOnce, OwnerInv, Mine, ReceivedInv, SubmitInv, Submitting, Sending
<1>15. ASSUME TpmGrants \/ OtherRelinquishes PROVE ExecInv'
  <2>1. dst' = "idle" /\ UNCHANGED <<pc, fr, calls, locality, rx, execs>>
    BY <1>0, <1>15 DEF TpmGrants, OtherRelinquishes, host, OwnerInv, Mine
  <2> QED
    BY <1>0, <2>1 DEF ExecInv, OnceInv, AtMostOnce, OwnerInv, ReceivedInv, SubmitInv,
                      Submitting, Sending
<1> QED
  BY <1>3, <1>4, <1>5, <1>6, <1>7, <1>8, <1>9, <1>10, <1>11, <1>12, <1>13, <1>14, <1>15
     DEF Next, HostStep, TpmStep, CallerStep

\* A command handed to tpm_xfer runs at most once, and the TPM never runs a
\* mixture of two: whatever step of an earlier call failed, was late or timed
\* out, and wherever it left the TPM.
THEOREM CommandsAtMostOnce == Spec => []AtMostOnce
<1>1. Init => ExecInv
  BY FifoAssumption DEF Init, ExecInv, OnceInv, AtMostOnce, Calls, OwnerInv, ReceivedInv,
                        SubmitInv, Submitting, Sending
<1> QED
  BY <1>1, NextExec, Invariance, PTL DEF Spec, ExecInv, OnceInv
=============================================================================
