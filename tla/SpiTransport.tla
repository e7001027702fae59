---------------------------- MODULE SpiTransport ----------------------------
(***************************************************************************)
(* tpm2_fifo_spi.c: one register access of the TPM as an SPI transaction.  *)
(* The library takes the bus (get_access), selects the TPM (start), sends  *)
(* a four-byte header, polls the wait state, moves the data, deselects the *)
(* TPM (stop) and gives the bus back (release_access).  Each call of a     *)
(* platform operation is one step, because another master may use the bus  *)
(* whenever the library does not hold it.                                  *)
(*                                                                         *)
(* External: the platform's tpm_spi_ops (they may fail with any error      *)
(* code), the other master of the bus, and the SPI side of the TPM, which  *)
(* decodes the header, stretches the wait state as long as it likes and    *)
(* performs the access when data is clocked after the wait state.          *)
(***************************************************************************)
EXTENDS Naturals, Sequences

Address == {a \in Nat : a < 65536}      \* uint16_t

CONSTANTS
    Registers,      \* register addresses the FIFO layer uses (uint16_t)
    ChunkLengths,   \* lengths passed to tpm2_fifo_read_chunk (uint8_t)
    XferErrors,     \* nonzero codes a platform operation may return
    RETRY_COUNT,    \* wait-state polls (50 in the code)
    ENCODE_LIMIT    \* largest length the header can encode (64 in the code)

ASSUME SpiAssumption ==
    /\ Registers \subseteq Address
    /\ ChunkLengths \subseteq 1 .. 255
    /\ XferErrors \subseteq Nat \ {0}
    /\ RETRY_COUNT \in Nat \ {0}
    /\ ENCODE_LIMIT = 64

Access == {"READ", "WRITE"}

\* An access as the header can express it.
Expressible == [access : Access, reg : Address, len : 1 .. 64]

\* write_byte and read_byte move one byte; only read_chunk chooses a length.
Requests ==
    [access : {"WRITE"}, reg : Registers, len : {1}]
        \cup [access : {"READ"}, reg : Registers, len : {1} \cup ChunkLengths]

Codes == {"SUCCESS", "ERR_TRANSFER", "ERR_TIMEOUT", "INVALID_PARAM"}

VARIABLES
    pc,         \* where the library is in tpm2_fifo_io
    req,        \* arguments of the current (or last) access
    rc,         \* value of rc in tpm2_fifo_io; at "idle", what was returned
    retries,    \* loop counter of tpm2_spi_start_transaction
    lastErr,    \* tpm_last_transport_error
    owner,      \* who holds the bus
    cs,         \* the TPM is selected (between start and stop)
    slave,      \* SPI side of the TPM: deselected, in a wait state, or open
    target,     \* access the TPM decoded from the header
    performed,  \* accesses the TPM performed during this call
    polls,      \* history: wait-state polls of this call
    fault       \* history: error code a platform operation returned, or 0

vars == <<pc, req, rc, retries, lastErr, owner, cs, slave, target, performed,
          polls, fault>>

Locations == {"idle", "get_access", "start", "header", "wait", "data", "stop",
              "release_access"}

TypeOK ==
    /\ pc \in Locations
    /\ req \in Requests
    /\ rc \in Codes \cup {"NONE"}
    /\ retries \in 0 .. RETRY_COUNT
    /\ lastErr \in {0} \cup XferErrors
    /\ owner \in {"none", "lib", "other"}
    /\ cs \in BOOLEAN
    /\ slave \in {"deselected", "waiting", "open"}
    /\ target \in Expressible
    /\ performed \in Seq(Expressible)
    /\ polls \in 0 .. RETRY_COUNT
    /\ fault \in {0} \cup XferErrors

Init ==
    /\ pc = "idle"
    /\ req \in Requests
    /\ req.len = 1
    /\ rc = "NONE"
    /\ retries = 0
    /\ lastErr = 0
    /\ owner = "none"
    /\ cs = FALSE
    /\ slave = "deselected"
    /\ target = req
    /\ performed = <<>>
    /\ polls = 0
    /\ fault = 0
-----------------------------------------------------------------------------
(* The header of a transaction and what the TPM makes of it.               *)

TPM_SPI_ADDR_PREFIX == 212      \* 0xD4

\* Fault: the length is encoded as it is, not less one.
HeaderLengthNotReduced(r) ==
    <<(IF r.access = "WRITE" THEN 0 ELSE 128) + r.len, TPM_SPI_ADDR_PREFIX,
      r.reg \div 256, r.reg % 256>>

\* header[0] .. header[3]; len - 1 fits below the direction bit because of
\* the ENCODE_LIMIT check, and each byte is a uint8_t.
Header(r) ==
    <<(IF r.access = "WRITE" THEN 0 ELSE 128) + (r.len - 1),
      TPM_SPI_ADDR_PREFIX,
      r.reg \div 256,
      r.reg % 256>>

\* External: how the TPM reads a header.
Decode(h) ==
    [access |-> IF h[1] >= 128 THEN "READ" ELSE "WRITE",
     reg    |-> (256 * h[3] + h[4]) % 65536,
     len    |-> (h[1] % 64) + 1]
-----------------------------------------------------------------------------
(* The library.                                                            *)

\* tpm2_fifo_read_chunk checks its length; the byte functions pass 1.
LengthAccepted(r) == r.len \in {1, 2, 4}

\* A call that reaches tpm2_fifo_io.
Call(r) ==
    /\ pc = "idle"
    /\ LengthAccepted(r)
    /\ pc' = "get_access"
    /\ req' = r
    /\ rc' = "NONE"
    /\ performed' = <<>>
    /\ polls' = 0
    /\ fault' = 0
    /\ UNCHANGED <<retries, lastErr, owner, cs, slave, target>>

\* A call that tpm2_fifo_read_chunk refuses before touching the bus.
CallRefused(r) ==
    /\ pc = "idle"
    /\ ~LengthAccepted(r)
    /\ req' = r
    /\ rc' = "INVALID_PARAM"
    /\ performed' = <<>>
    /\ polls' = 0
    /\ fault' = 0
    /\ UNCHANGED <<pc, retries, lastErr, owner, cs, slave, target>>

\* tpm2_spi_init, first half: the bus is taken ...
GetAccess ==
    /\ pc = "get_access"
    /\ owner = "none"
    /\ owner' = "lib"
    /\ pc' = "start"
    /\ UNCHANGED <<req, rc, retries, lastErr, cs, slave, target, performed,
                   polls, fault>>

\* Fault: a failed get_access is cleaned up after like a failed transfer.
GetAccessFailsThenEnds ==
    /\ pc = "get_access"
    /\ \E e \in XferErrors : lastErr' = e /\ fault' = e
    /\ rc' = "ERR_TRANSFER"
    /\ pc' = "stop"
    /\ UNCHANGED <<req, retries, owner, cs, slave, target, performed, polls>>

\* ... or not: tpm2_fifo_io returns at once, there is nothing to give back.
GetAccessFails ==
    /\ pc = "get_access"
    /\ \E e \in XferErrors : lastErr' = e /\ fault' = e
    /\ rc' = "ERR_TRANSFER"
    /\ pc' = "idle"
    /\ UNCHANGED <<req, retries, owner, cs, slave, target, performed, polls>>

\* tpm2_spi_init, second half: chip select.
Start ==
    /\ pc = "start"
    /\ cs' = TRUE
    /\ slave' = "deselected"
    /\ pc' = "header"
    /\ UNCHANGED <<req, rc, retries, lastErr, owner, target, performed, polls,
                   fault>>

\* The library leaves the transaction with a code; tpm2_spi_end_transaction
\* still has to run.
EndWith(code) ==
    /\ rc' = code
    /\ pc' = "stop"

\* Fault: the code of the platform is dropped.
TransferFailsSilently ==
    /\ \E e \in XferErrors : fault' = e
    /\ UNCHANGED lastErr
    /\ EndWith("ERR_TRANSFER")

\* tpm2_spi_transfer failed: the code of the platform is kept.
TransferFails ==
    /\ \E e \in XferErrors : lastErr' = e /\ fault' = e
    /\ EndWith("ERR_TRANSFER")

\* tpm2_spi_start_transaction up to the first look at the wait-state bit.  The
\* length check never fires: no caller passes more than four bytes.
SendHeader ==
    /\ pc = "header"
    /\ IF req.len > ENCODE_LIMIT
         THEN EndWith("INVALID_PARAM") /\ UNCHANGED <<retries, slave, target>>
         ELSE /\ target' = Decode(Header(req))
              /\ \/ /\ slave' = "open"
                    /\ pc' = "data"
                    /\ UNCHANGED retries
                 \/ /\ slave' = "waiting"
                    /\ pc' = "wait"
                    /\ retries' = RETRY_COUNT
              /\ UNCHANGED rc
    /\ UNCHANGED <<req, lastErr, owner, cs, performed, polls, fault>>

SendHeaderFails ==
    /\ pc = "header"
    /\ TransferFails
    /\ UNCHANGED <<req, retries, owner, cs, slave, target, performed, polls>>

\* A turn of the polling loop that is the last one when retries - 1 = last.
PollUntil(last) ==
    /\ pc = "wait"
    /\ polls' = polls + 1
    /\ \/ slave' = "open" /\ pc' = "data" /\ UNCHANGED <<rc, retries>>
       \/ /\ UNCHANGED slave
          /\ retries' = retries - 1
          /\ IF retries - 1 = last THEN EndWith("ERR_TIMEOUT") ELSE UNCHANGED <<pc, rc>>
    /\ UNCHANGED <<req, lastErr, owner, cs, target, performed, fault>>

\* Faults: the loop ends one poll early, one poll late, or starts over.
PollEndsEarly == PollUntil(1)
PollEndsLate == PollUntil(0 - 1)
PollStartsOver ==
    /\ pc = "wait"
    /\ \/ slave' = "open" /\ pc' = "data" /\ UNCHANGED <<rc, retries>>
       \/ /\ retries' = IF retries - 1 = 0 THEN RETRY_COUNT ELSE retries - 1
          /\ UNCHANGED <<slave, pc, rc>>
    /\ UNCHANGED <<polls, req, lastErr, owner, cs, target, performed, fault>>

\* One turn of the polling loop: when retries reaches zero it is a timeout.
PollWaitState == PollUntil(0)

PollFails ==
    /\ pc = "wait"
    /\ polls' = polls + 1
    /\ TransferFails
    /\ UNCHANGED <<req, retries, owner, cs, slave, target, performed>>

\* External: the selected TPM performs the access once its wait state is over.
DataClocked ==
    performed' = IF cs /\ slave = "open" THEN Append(performed, target)
                                         ELSE performed

\* The data phase of tpm2_fifo_io.
TransferData ==
    /\ pc = "data"
    /\ DataClocked
    /\ EndWith("SUCCESS")
    /\ UNCHANGED <<req, retries, lastErr, owner, cs, slave, target, polls, fault>>

\* The transfer is reported as failed, whether or not the TPM saw the data.
TransferDataFails ==
    /\ pc = "data"
    /\ DataClocked \/ UNCHANGED performed
    /\ TransferFails
    /\ UNCHANGED <<req, retries, owner, cs, slave, target, polls>>

\* tpm2_spi_end_transaction: deselect the TPM, then give the bus back.
Stop ==
    /\ pc = "stop"
    /\ cs' = FALSE
    /\ slave' = "deselected"
    /\ pc' = "release_access"
    /\ UNCHANGED <<req, rc, retries, lastErr, owner, target, performed, polls,
                   fault>>

ReleaseAccess ==
    /\ pc = "release_access"
    /\ owner' = "none"
    /\ pc' = "idle"
    /\ UNCHANGED <<req, rc, retries, lastErr, cs, slave, target, performed,
                   polls, fault>>
-----------------------------------------------------------------------------
(* External: another master on the same bus.                               *)

OtherTakes ==
    /\ owner = "none"
    /\ owner' = "other"
    /\ UNCHANGED <<pc, req, rc, retries, lastErr, cs, slave, target, performed,
                   polls, fault>>

OtherReleases ==
    /\ owner = "other"
    /\ owner' = "none"
    /\ UNCHANGED <<pc, req, rc, retries, lastErr, cs, slave, target, performed,
                   polls, fault>>
-----------------------------------------------------------------------------
InCall ==
    \/ GetAccess \/ GetAccessFails
    \/ Start
    \/ SendHeader \/ SendHeaderFails
    \/ PollWaitState \/ PollFails
    \/ TransferData \/ TransferDataFails
    \/ Stop \/ ReleaseAccess

Next ==
    \/ \E r \in Requests : Call(r) \/ CallRefused(r)
    \/ InCall
    \/ OtherTakes
    \/ OtherReleases

Spec == Init /\ [][Next]_vars

\* A thread inside tpm2_fifo_io keeps running.  GetAccess either takes the bus
\* or reports an error, so no assumption on the other master is needed.
FairSpec == Spec /\ WF_vars(InCall)
-----------------------------------------------------------------------------
(* Properties.                                                             *)

\* The bus is shared: the TPM is selected only while the library holds the bus,
\* every way out of tpm2_fifo_io gives it back, and after a failed get_access
\* nothing is given back that was not taken (tpm2_spi_init, _end_transaction).
BusDiscipline ==
    /\ cs => owner = "lib"
    /\ pc \in {"idle", "get_access"} => owner # "lib" /\ ~cs
    /\ pc \in Locations \ {"idle", "get_access"} => owner = "lib"

\* An access gives up with ERR_TIMEOUT only after RETRY_COUNT polls, none more
\* and none fewer: a TPM that ends its wait state on the last poll is served.
TimeoutUsesWholeBudget ==
    pc = "idle" /\ rc = "ERR_TIMEOUT" => polls = RETRY_COUNT

\* After an access that failed with ERR_TRANSFER, tpm_get_last_transport_error
\* explains this failure and not an earlier one; an access that did not fail
\* that way met no platform error.
LastErrorExplains ==
    pc = "idle" =>
        IF rc = "ERR_TRANSFER" THEN fault # 0 /\ lastErr = fault ELSE fault = 0

\* Seen from the FIFO layer, the transaction is one access of the register the
\* caller named, performed at most once, and known to have been performed
\* exactly when the call succeeds.
Abstract == INSTANCE RegisterAccess WITH
    busy      <- pc # "idle",
    request   <- req,
    result    <- IF pc = "idle" THEN rc ELSE "NONE",
    performed <- performed

RefinesRegisterAccess == Abstract!AbsSpec

\* Whatever the TPM and the platform do, a register access returns.
AccessReturns == pc # "idle" ~> pc = "idle"
=============================================================================
