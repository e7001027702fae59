------------------------- MODULE SpiTransportProofs -------------------------
(***************************************************************************)
(* Proofs about SpiTransport, for every set of registers, lengths and      *)
(* error codes and every RETRY_COUNT.                                      *)
(***************************************************************************)
EXTENDS SpiTransport, TLAPS

\* The result of the access is settled once the transaction has to be ended.
Settled == {"stop", "release_access", "idle"}

\* The polling loop counts down what polls counts up.
PollInv ==
    /\ pc = "wait" => retries > 0 /\ polls + retries = RETRY_COUNT
    /\ pc \in {"get_access", "start", "header"} => polls = 0
    /\ pc \in Settled /\ rc = "ERR_TIMEOUT" => polls = RETRY_COUNT

\* A platform error ends the transaction and is the one that was recorded.
FaultInv ==
    /\ pc \notin Settled => fault = 0 /\ rc = "NONE"
    /\ pc \in Settled =>
         IF rc = "ERR_TRANSFER" THEN fault # 0 /\ lastErr = fault ELSE fault = 0

\* What the TPM decoded is what was asked for, and it acts on it in the data
\* phase only.
AccessInv ==
    /\ pc # "idle" => LengthAccepted(req)
    /\ pc \in {"wait", "data"} => target = req
    /\ pc \in {"header", "wait", "data"} => cs
    /\ pc = "release_access" => ~cs
    /\ pc = "data" => slave = "open"
    /\ performed \in {<<>>, <<req>>}
    /\ pc \notin Settled => performed = <<>>
    /\ pc \in Settled =>
         /\ rc = "SUCCESS" => performed = <<req>>
         /\ rc \in {"ERR_TIMEOUT", "INVALID_PARAM"} => performed = <<>>
    /\ pc \in {"stop", "release_access"} => rc # "NONE"

IInv == TypeOK /\ BusDiscipline /\ PollInv /\ FaultInv /\ AccessInv

-----------------------------------------------------------------------------
\* The fields of a request.
LEMMA RequestFields ==
    ASSUME NEW r \in Requests
    PROVE  /\ r = [access |-> r.access, reg |-> r.reg, len |-> r.len]
           /\ r.access \in Access
           /\ r.reg \in Address
<1>1. Registers \subseteq Address
  BY SpiAssumption
<1>2. CASE r \in [access : {"WRITE"}, reg : Registers, len : {1}]
  BY <1>1, <1>2 DEF Access
<1>3. CASE r \in [access : {"READ"}, reg : Registers, len : {1} \cup ChunkLengths]
  BY <1>1, <1>3 DEF Access
<1> QED
  BY <1>2, <1>3 DEF Requests

\* The header that tpm2_spi_start_transaction builds for an accepted length
\* tells the TPM the direction, the register and the length of the access.
LEMMA HeaderDecodes ==
    ASSUME NEW r \in Requests, LengthAccepted(r)
    PROVE  Decode(Header(r)) = r
<1>1. r.len \in {1, 2, 4}
  BY DEF LengthAccepted
<1>2. ASSUME NEW a \in Address
      PROVE  (256 * (a \div 256) + (a % 256)) % 65536 = a
  <2>1. a \in Nat /\ a < 65536
    BY SMT DEF Address
  <2>2. a = 256 * (a \div 256) + (a % 256)
    BY <2>1, SMT
  <2>3. a % 65536 = a
    BY <2>1, SMT
  <2> QED
    BY <2>2, <2>3, SMT
<1>3. ((r.len - 1) % 64) + 1 = r.len /\ ((128 + (r.len - 1)) % 64) + 1 = r.len
  BY <1>1, SMT
<1>4. ~((r.len - 1) >= 128) /\ 128 + (r.len - 1) >= 128
  BY <1>1, SMT
<1>5. CASE r.access = "READ"
  <2>1. Header(r) = <<128 + (r.len - 1), TPM_SPI_ADDR_PREFIX, r.reg \div 256, r.reg % 256>>
    BY <1>5, SMT DEF Header
  <2>2. Decode(Header(r)) = [access |-> "READ", reg |-> r.reg, len |-> r.len]
    <3> DEFINE h == Header(r)
    <3>1. h[1] = 128 + (r.len - 1) /\ h[3] = r.reg \div 256 /\ h[4] = r.reg % 256
      BY <2>1, SMT
    <3>2. (256 * h[3] + h[4]) % 65536 = r.reg
      BY <3>1, <1>2, RequestFields, SMT
    <3> QED
      BY <3>1, <3>2, <1>3, <1>4, SMT DEF Decode
  <2> QED
    BY <2>2, <1>5, RequestFields
<1>6. CASE r.access = "WRITE"
  <2>1. Header(r) = <<(r.len - 1), TPM_SPI_ADDR_PREFIX, r.reg \div 256, r.reg % 256>>
    BY <1>1, <1>6, SMT DEF Header
  <2>2. Decode(Header(r)) = [access |-> "WRITE", reg |-> r.reg, len |-> r.len]
    <3> DEFINE h == Header(r)
    <3>1. h[1] = (r.len - 1) /\ h[3] = r.reg \div 256 /\ h[4] = r.reg % 256
      BY <2>1, SMT
    <3>2. (256 * h[3] + h[4]) % 65536 = r.reg
      BY <3>1, <1>2, RequestFields, SMT
    <3> QED
      BY <3>1, <3>2, <1>3, <1>4, SMT DEF Decode
  <2> QED
    BY <2>2, <1>6, RequestFields
<1> QED
  BY <1>5, <1>6, RequestFields DEF Access

\* A request has the type of what the TPM decodes once its length is accepted.
LEMMA AcceptedRequest ==
    ASSUME NEW r \in Requests, LengthAccepted(r)
    PROVE  r \in Expressible
<1>1. r.len \in 1 .. 64
  BY SMT DEF LengthAccepted
<1> QED
  BY <1>1, RequestFields DEF Expressible

LEMMA InitIInv == Init => IInv
<1> SUFFICES ASSUME Init PROVE IInv
  OBVIOUS
<1>1. LengthAccepted(req)
  BY DEF Init, LengthAccepted
<1>2. req \in Requests /\ req \in Expressible /\ RETRY_COUNT \in Nat
  BY <1>1, AcceptedRequest, SpiAssumption DEF Init
<1>3. <<>> \in Seq(Expressible)
  OBVIOUS
<1>4. TypeOK
  <2>1. pc \in Locations /\ rc \in Codes \cup {"NONE"} /\ cs \in BOOLEAN
    BY DEF Init, Locations
  <2>2. 0 \in 0 .. RETRY_COUNT
    BY <1>2
  <2> QED
    BY <2>1, <2>2, <1>2, <1>3 DEF Init, TypeOK
<1>5. BusDiscipline /\ PollInv /\ FaultInv /\ AccessInv
  BY DEF Init, BusDiscipline, Locations, PollInv, FaultInv, AccessInv, Settled
<1> QED
  BY <1>4, <1>5 DEF IInv

\* Every step of the library, the other master and the TPM preserves IInv.
LEMMA NextIInv == IInv /\ [Next]_vars => IInv'
<1> SUFFICES ASSUME IInv, [Next]_vars PROVE IInv'
  OBVIOUS
<1> USE SpiAssumption
<1>0. TypeOK /\ BusDiscipline /\ PollInv /\ FaultInv /\ AccessInv
  BY DEF IInv
<1>1. ASSUME NEW r \in Requests, Call(r) PROVE IInv'
  <2>1. TypeOK'
    BY <1>0, <1>1 DEF Call, LengthAccepted, TypeOK, Locations, Codes, AccessInv
  <2>2. BusDiscipline'
    BY <1>0, <1>1 DEF Call, LengthAccepted, BusDiscipline, Locations, TypeOK
  <2>3. PollInv'
    BY <1>0, <1>1 DEF Call, LengthAccepted, PollInv, Settled, TypeOK
  <2>4. FaultInv'
    BY <1>0, <1>1 DEF Call, FaultInv
  <2>5. AccessInv'
    BY <1>0, <1>1 DEF Call, AccessInv
  <2> QED
    BY <2>1, <2>2, <2>3, <2>4, <2>5 DEF IInv
<1>2. ASSUME NEW r \in Requests, CallRefused(r) PROVE IInv'
  <2>1. TypeOK'
    BY <1>0, <1>2 DEF CallRefused, TypeOK, Codes
  <2>2. BusDiscipline'
    BY <1>0, <1>2 DEF CallRefused, BusDiscipline
  <2>3. PollInv'
    BY <1>0, <1>2 DEF CallRefused, PollInv
  <2>4. FaultInv'
    BY <1>0, <1>2 DEF CallRefused, FaultInv, Settled
  <2>5. AccessInv'
    BY <1>0, <1>2 DEF CallRefused, AccessInv
  <2> QED
    BY <2>1, <2>2, <2>3, <2>4, <2>5 DEF IInv
<1>3. ASSUME GetAccess PROVE IInv'
  <2>1. TypeOK'
    BY <1>0, <1>3 DEF GetAccess, TypeOK, Locations
  <2>2. BusDiscipline'
    BY <1>0, <1>3 DEF GetAccess, BusDiscipline
  <2>3. PollInv'
    BY <1>0, <1>3 DEF GetAccess, PollInv, Settled
  <2>4. FaultInv'
    BY <1>0, <1>3 DEF GetAccess, FaultInv, Settled
  <2>5. AccessInv'
    BY <1>0, <1>3 DEF GetAccess, AccessInv, Settled
  <2> QED
    BY <2>1, <2>2, <2>3, <2>4, <2>5 DEF IInv
<1>4. ASSUME GetAccessFails PROVE IInv'
  <2>1. TypeOK'
    BY <1>0, <1>4 DEF GetAccessFails, TypeOK, Locations, Codes
  <2>2. BusDiscipline'
    BY <1>0, <1>4 DEF GetAccessFails, BusDiscipline
  <2>3. PollInv'
    BY <1>0, <1>4 DEF GetAccessFails, PollInv
  <2>4. FaultInv'
    BY <1>0, <1>4 DEF GetAccessFails, FaultInv, Settled
  <2>5. AccessInv'
    BY <1>0, <1>4 DEF GetAccessFails, AccessInv, Settled
  <2> QED
    BY <2>1, <2>2, <2>3, <2>4, <2>5 DEF IInv
<1>5. ASSUME Start PROVE IInv'
  <2>1. TypeOK'
    BY <1>0, <1>5 DEF Start, TypeOK, Locations
  <2>2. BusDiscipline'
    BY <1>0, <1>5 DEF Start, BusDiscipline, TypeOK
  <2>3. PollInv'
    BY <1>0, <1>5 DEF Start, PollInv, Settled
  <2>4. FaultInv'
    BY <1>0, <1>5 DEF Start, FaultInv, Settled
  <2>5. AccessInv'
    BY <1>0, <1>5 DEF Start, AccessInv, Settled
  <2> QED
    BY <2>1, <2>2, <2>3, <2>4, <2>5 DEF IInv
<1>6. ASSUME SendHeader PROVE IInv'
  <2>0. /\ ~(req.len > ENCODE_LIMIT)
        /\ Decode(Header(req)) = req
        /\ req \in Expressible
    <3>1. req \in Requests /\ LengthAccepted(req)
      BY <1>0, <1>6 DEF SendHeader, TypeOK, AccessInv
    <3> QED
      BY <3>1, HeaderDecodes, AcceptedRequest, SMT DEF LengthAccepted
  <2>1. TypeOK'
    BY <1>0, <1>6, <2>0 DEF SendHeader, TypeOK, Locations
  <2>2. BusDiscipline'
    BY <1>0, <1>6 DEF SendHeader, EndWith, BusDiscipline, TypeOK
  <2>3. PollInv'
    BY <1>0, <1>6 DEF SendHeader, EndWith, PollInv, Settled
  <2>4. FaultInv'
    BY <1>0, <1>6 DEF SendHeader, EndWith, FaultInv, Settled
  <2>5. AccessInv'
    BY <1>0, <1>6, <2>0 DEF SendHeader, AccessInv, Settled
  <2> QED
    BY <2>1, <2>2, <2>3, <2>4, <2>5 DEF IInv
<1>7. ASSUME SendHeaderFails PROVE IInv'
  <2>1. TypeOK'
    BY <1>0, <1>7 DEF SendHeaderFails, TransferFails, EndWith, TypeOK, Locations, Codes
  <2>2. BusDiscipline'
    BY <1>0, <1>7 DEF SendHeaderFails, TransferFails, EndWith, BusDiscipline, TypeOK
  <2>3. PollInv'
    BY <1>0, <1>7 DEF SendHeaderFails, TransferFails, EndWith, PollInv
  <2>4. FaultInv'
    BY <1>0, <1>7 DEF SendHeaderFails, TransferFails, EndWith, FaultInv, Settled
  <2>5. AccessInv'
    BY <1>0, <1>7 DEF SendHeaderFails, TransferFails, EndWith, AccessInv, Settled
  <2> QED
    BY <2>1, <2>2, <2>3, <2>4, <2>5 DEF IInv
<1>8. ASSUME PollWaitState PROVE IInv'
  <2>1. TypeOK'
    BY <1>0, <1>8 DEF PollWaitState, PollUntil, EndWith, TypeOK, Locations, Codes, PollInv
  <2>2. BusDiscipline'
    BY <1>0, <1>8 DEF PollWaitState, PollUntil, EndWith, BusDiscipline, TypeOK
  <2>3. PollInv'
    BY <1>0, <1>8 DEF PollWaitState, PollUntil, EndWith, PollInv, Settled, TypeOK
  <2>4. FaultInv'
    BY <1>0, <1>8 DEF PollWaitState, PollUntil, EndWith, FaultInv, Settled
  <2>5. AccessInv'
    BY <1>0, <1>8 DEF PollWaitState, PollUntil, EndWith, AccessInv, Settled
  <2> QED
    BY <2>1, <2>2, <2>3, <2>4, <2>5 DEF IInv
<1>9. ASSUME PollFails PROVE IInv'
  <2>1. TypeOK'
    BY <1>0, <1>9 DEF PollFails, TransferFails, EndWith, TypeOK, Locations, Codes, PollInv
  <2>2. BusDiscipline'
    BY <1>0, <1>9 DEF PollFails, TransferFails, EndWith, BusDiscipline, TypeOK
  <2>3. PollInv'
    BY <1>0, <1>9 DEF PollFails, TransferFails, EndWith, PollInv
  <2>4. FaultInv'
    BY <1>0, <1>9 DEF PollFails, TransferFails, EndWith, FaultInv, Settled
  <2>5. AccessInv'
    BY <1>0, <1>9 DEF PollFails, TransferFails, EndWith, AccessInv, Settled
  <2> QED
    BY <2>1, <2>2, <2>3, <2>4, <2>5 DEF IInv
<1>10. ASSUME TransferData PROVE IInv'
  <2>1. TypeOK'
    BY <1>0, <1>10 DEF TransferData, DataClocked, EndWith, TypeOK, Locations, Codes
  <2>2. BusDiscipline'
    BY <1>0, <1>10 DEF TransferData, EndWith, BusDiscipline, TypeOK
  <2>3. PollInv'
    BY <1>0, <1>10 DEF TransferData, EndWith, PollInv
  <2>4. FaultInv'
    BY <1>0, <1>10 DEF TransferData, EndWith, FaultInv, Settled
  <2>5. AccessInv'
    BY <1>0, <1>10 DEF TransferData, DataClocked, EndWith, AccessInv, Settled
  <2> QED
    BY <2>1, <2>2, <2>3, <2>4, <2>5 DEF IInv
<1>11. ASSUME TransferDataFails PROVE IInv'
  <2>1. TypeOK'
    BY <1>0, <1>11 DEF TransferDataFails, DataClocked, TransferFails, EndWith, TypeOK, Locations, Codes
  <2>2. BusDiscipline'
    BY <1>0, <1>11 DEF TransferDataFails, TransferFails, EndWith, BusDiscipline, TypeOK
  <2>3. PollInv'
    BY <1>0, <1>11 DEF TransferDataFails, TransferFails, EndWith, PollInv
  <2>4. FaultInv'
    BY <1>0, <1>11 DEF TransferDataFails, TransferFails, EndWith, FaultInv, Settled
  <2>5. AccessInv'
    BY <1>0, <1>11 DEF TransferDataFails, DataClocked, TransferFails, EndWith, AccessInv, Settled
  <2> QED
    BY <2>1, <2>2, <2>3, <2>4, <2>5 DEF IInv
<1>12. ASSUME Stop PROVE IInv'
  <2>1. TypeOK'
    BY <1>0, <1>12 DEF Stop, TypeOK, Locations
  <2>2. BusDiscipline'
    BY <1>0, <1>12 DEF Stop, BusDiscipline, TypeOK
  <2>3. PollInv'
    BY <1>0, <1>12 DEF Stop, PollInv, Settled
  <2>4. FaultInv'
    BY <1>0, <1>12 DEF Stop, FaultInv, Settled
  <2>5. AccessInv'
    BY <1>0, <1>12 DEF Stop, AccessInv, Settled
  <2> QED
    BY <2>1, <2>2, <2>3, <2>4, <2>5 DEF IInv
<1>13. ASSUME ReleaseAccess PROVE IInv'
  <2>1. TypeOK'
    BY <1>0, <1>13 DEF ReleaseAccess, TypeOK, Locations
  <2>2. BusDiscipline'
    BY <1>0, <1>13 DEF ReleaseAccess, BusDiscipline, AccessInv
  <2>3. PollInv'
    BY <1>0, <1>13 DEF ReleaseAccess, PollInv, Settled
  <2>4. FaultInv'
    BY <1>0, <1>13 DEF ReleaseAccess, FaultInv, Settled
  <2>5. AccessInv'
    BY <1>0, <1>13 DEF ReleaseAccess, AccessInv, Settled
  <2> QED
    BY <2>1, <2>2, <2>3, <2>4, <2>5 DEF IInv
<1>14. ASSUME OtherTakes PROVE IInv'
  <2>1. TypeOK'
    BY <1>0, <1>14 DEF OtherTakes, TypeOK
  <2>2. BusDiscipline'
    BY <1>0, <1>14 DEF OtherTakes, BusDiscipline
  <2>3. PollInv'
    BY <1>0, <1>14 DEF OtherTakes, PollInv
  <2>4. FaultInv'
    BY <1>0, <1>14 DEF OtherTakes, FaultInv
  <2>5. AccessInv'
    BY <1>0, <1>14 DEF OtherTakes, AccessInv
  <2> QED
    BY <2>1, <2>2, <2>3, <2>4, <2>5 DEF IInv
<1>15. ASSUME OtherReleases PROVE IInv'
  <2>1. TypeOK'
    BY <1>0, <1>15 DEF OtherReleases, TypeOK, Locations, Codes, AccessInv
  <2>2. BusDiscipline'
    BY <1>0, <1>15 DEF OtherReleases, BusDiscipline, Locations, TypeOK
  <2>3. PollInv'
    BY <1>0, <1>15 DEF OtherReleases, PollInv, Settled, TypeOK
  <2>4. FaultInv'
    BY <1>0, <1>15 DEF OtherReleases, FaultInv, Settled, TypeOK
  <2>5. AccessInv'
    BY <1>0, <1>15 DEF OtherReleases, AccessInv, Settled, FaultInv
  <2> QED
    BY <2>1, <2>2, <2>3, <2>4, <2>5 DEF IInv
<1>16. CASE UNCHANGED vars
  BY <1>0, <1>16 DEF vars, IInv, TypeOK, BusDiscipline, PollInv, FaultInv, AccessInv, LengthAccepted
<1> QED
  BY <1>1, <1>2, <1>3, <1>4, <1>5, <1>6, <1>7, <1>8, <1>9, <1>10, <1>11, <1>12, <1>13, <1>14, <1>15, <1>16 DEF Next, InCall
-----------------------------------------------------------------------------
\* The invariant holds in every state of every behaviour.
THEOREM Invariance == Spec => []IInv
BY InitIInv, NextIInv, PTL DEF Spec

\* Every variable of the SPI layer keeps its type: in particular the polling
\* counter of tpm2_spi_start_transaction never wraps.
THEOREM TypeCorrect == Spec => []TypeOK
<1>1. IInv => TypeOK
  BY DEF IInv
<1> QED
  BY <1>1, Invariance, PTL

\* Every way out of tpm2_fifo_io gives the bus back, and the TPM is selected
\* only while the library holds it.
THEOREM BusIsGivenBack == Spec => []BusDiscipline
<1>1. IInv => BusDiscipline
  BY DEF IInv
<1> QED
  BY <1>1, Invariance, PTL

\* ERR_TIMEOUT is returned after exactly RETRY_COUNT polls.
THEOREM TimeoutBudget == Spec => []TimeoutUsesWholeBudget
<1>1. IInv => TimeoutUsesWholeBudget
  BY DEF IInv, PollInv, Settled, TimeoutUsesWholeBudget
<1> QED
  BY <1>1, Invariance, PTL

\* tpm_get_last_transport_error explains the last access that failed with
\* ERR_TRANSFER.
THEOREM LastErrorIsTheFault == Spec => []LastErrorExplains
<1>1. IInv => LastErrorExplains
  BY DEF IInv, FaultInv, Settled, LastErrorExplains
<1> QED
  BY <1>1, Invariance, PTL
-----------------------------------------------------------------------------
(* The SPI transaction implements the abstract register access.            *)

LEMMA InitRefines == Init => Abstract!AbsInit
BY DEF Init, Abstract!AbsInit

\* A step of the library is an abstract step or leaves what the FIFO layer
\* sees unchanged: the data phase is Perform, leaving tpm2_fifo_io is Finish.
LEMMA NextRefines == IInv /\ [Next]_vars => [Abstract!AbsNext]_(Abstract!absVars)
<1> SUFFICES ASSUME IInv, [Next]_vars PROVE [Abstract!AbsNext]_(Abstract!absVars)
  OBVIOUS
<1>0. TypeOK /\ FaultInv /\ AccessInv
  BY DEF IInv
<1>1. ASSUME NEW r \in Requests, Call(r) PROVE Abstract!Invoke(r)
  BY <1>1 DEF Call, Abstract!Invoke
<1>2. ASSUME NEW r \in Requests, CallRefused(r) PROVE Abstract!Refuse(r)
  BY <1>2 DEF CallRefused, Abstract!Refuse
<1>3. ASSUME GetAccessFails PROVE Abstract!Finish("ERR_TRANSFER")
  BY <1>0, <1>3 DEF GetAccessFails, Abstract!Finish
<1>4. ASSUME ReleaseAccess PROVE Abstract!Finish(rc)
  BY <1>0, <1>4 DEF ReleaseAccess, Abstract!Finish, AccessInv, Settled
<1>5. ASSUME TransferData PROVE Abstract!Perform
  BY <1>0, <1>5 DEF TransferData, DataClocked, EndWith, AccessInv, Settled, Abstract!Perform
<1>6. ASSUME TransferDataFails PROVE Abstract!Perform \/ UNCHANGED Abstract!absVars
  BY <1>0, <1>6 DEF TransferDataFails, DataClocked, TransferFails, EndWith, AccessInv,
                    Settled, Abstract!Perform, Abstract!absVars
<1>7. ASSUME \/ GetAccess \/ Start \/ SendHeader \/ SendHeaderFails \/ PollWaitState
             \/ PollFails \/ Stop \/ OtherTakes \/ OtherReleases \/ UNCHANGED vars
      PROVE  UNCHANGED Abstract!absVars
  BY <1>0, <1>7 DEF GetAccess, Start, SendHeader, SendHeaderFails, PollWaitState, PollUntil,
                    PollFails, TransferFails, EndWith, Stop, OtherTakes, OtherReleases, vars,
                    Abstract!absVars
<1>8. ReleaseAccess => rc \in Codes
  BY <1>0 DEF ReleaseAccess, TypeOK, AccessInv
<1> QED
  BY <1>1, <1>2, <1>3, <1>4, <1>5, <1>6, <1>7, <1>8
     DEF Next, InCall, Abstract!AbsNext, Codes

\* What tpm2_fifo_write_byte, _read_byte and _read_chunk promise (module
\* RegisterAccess) is what the SPI transaction does, whatever the platform
\* operations, the other master and the wait states of the TPM do.
THEOREM SpiImplementsRegisterAccess == Spec => RefinesRegisterAccess
BY InitRefines, NextRefines, Invariance, PTL
   DEF Spec, RefinesRegisterAccess, Abstract!AbsSpec
=============================================================================
