--------------------------- MODULE RegisterAccess ---------------------------
(***************************************************************************)
(* What tpm2_fifo_write_byte, tpm2_fifo_read_byte and tpm2_fifo_read_chunk *)
(* promise the FIFO layer above them (the prototypes of tpm2_private.h,    *)
(* lines 133 to 137).  A call names a register access; the TPM performs    *)
(* that access at most once, on the register that was named; success means *)
(* that it did, an expired wait state or a refused length means that it    *)
(* did not, and a transport error leaves it open.                          *)
(***************************************************************************)
EXTENDS Naturals

CONSTANT Requests       \* the register accesses a caller may ask for

VARIABLES
    busy,      \* a call is in progress
    request,   \* the access the current (or last) call asked for
    result,    \* what the last call returned; "NONE" while one is running
    performed  \* the accesses the TPM performed during the call (a sequence)

absVars == <<busy, request, result, performed>>

AbsInit ==
    /\ busy = FALSE
    /\ request \in Requests
    /\ result = "NONE"
    /\ performed = <<>>

\* The FIFO layer calls one of the three functions.
Invoke(r) ==
    /\ ~busy
    /\ busy' = TRUE
    /\ request' = r
    /\ result' = "NONE"
    /\ performed' = <<>>

\* The TPM performs the access that was asked for: once, and during the call.
Perform ==
    /\ busy
    /\ performed = <<>>
    /\ performed' = <<request>>
    /\ UNCHANGED <<busy, request, result>>

\* The call returns; the code tells how much the caller may conclude.
Finish(code) ==
    /\ busy
    /\ code = "SUCCESS" => performed = <<request>>
    /\ code \in {"ERR_TIMEOUT", "INVALID_PARAM"} => performed = <<>>
    /\ busy' = FALSE
    /\ result' = code
    /\ UNCHANGED <<request, performed>>

\* A length read_chunk refuses costs no time on the bus: call and return in one.
Refuse(r) ==
    /\ ~busy
    /\ request' = r
    /\ result' = "INVALID_PARAM"
    /\ performed' = <<>>
    /\ UNCHANGED busy

AbsNext ==
    \/ \E r \in Requests : Invoke(r) \/ Refuse(r)
    \/ Perform
    \/ \E c \in {"SUCCESS", "ERR_TRANSFER", "ERR_TIMEOUT", "INVALID_PARAM"} : Finish(c)

AbsSpec == AbsInit /\ [][AbsNext]_absVars
=============================================================================
