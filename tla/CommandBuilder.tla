--------------------------- MODULE CommandBuilder ---------------------------
(***************************************************************************)
(* The command builder of tpm2_cmds.c and the command functions that use   *)
(* it, up to tpm_xfer: tpm_cmd_init clears the buffer, tpm_update_buffer   *)
(* appends one field in big-endian order or, once the buffer is full,      *)
(* leaves it alone and remembers an error, tpm_builder_finalize tells      *)
(* whether everything went in.  The command functions ignore what          *)
(* tpm_update_buffer returns and rely on tpm_builder_finalize alone.       *)
(*                                                                         *)
(* One step is one call of a builder function.  Commands are built on the  *)
(* stack of the caller, so nothing is shared between two of them.          *)
(***************************************************************************)
EXTENDS Naturals, Sequences, FiniteSets

CONSTANTS
    Commands,         \* calls of the command functions, with their arguments
    TPM_HEADER_SIZE,  \* 10 in the code
    MAX_SIZE_CMDBUF   \* 256 in the code

TPM_RS_PW == 1073741833         \* 0x40000009
TPM_RH_PLATFORM == 1073741836   \* 0x4000000C
TPM_MIN_AUTH_SIZE == 9
TPM_PCR_SELECT_SIZE == 3
TPM_MAX_PCR_SELECTIONS == 8
TPM_ALG_NULL == 16

Byte == 0 .. 255

\* uint8_t, uint16_t and uint32_t: the values of len bytes.
Uint(len) == {v \in Nat : v \div 256 ^ (len - 1) < 256}

BankType == [hash_alg : Uint(2), pcr_select : [1 .. TPM_PCR_SELECT_SIZE -> Byte]]

\* Calls of the command functions; null says that one of the pointers the
\* function checks is NULL.
StartupCall == [api : {"startup"}, null : BOOLEAN, mode : Uint(2)]

GetcapCall ==
    [api : {"getcap"}, null : BOOLEAN, capability : Uint(4), property : Uint(4), count : Uint(4)]

ExtendCall ==
    [api : {"extend"}, null : BOOLEAN, index : Uint(4), algorithm : Uint(2), digest : Seq(Byte)]

PcrReadCall == [api : {"pcr_read"}, null : BOOLEAN, index : Uint(4), algorithm : Uint(2)]

AllocateCall ==
    [api : {"allocate"}, null : BOOLEAN, password : {p \in Seq(Byte) : Len(p) \in Uint(2)},
     banks : Seq(BankType)]

ASSUME BuilderAssumption ==
    /\ TPM_HEADER_SIZE \in Nat
    /\ MAX_SIZE_CMDBUF \in Nat
    /\ TPM_HEADER_SIZE < MAX_SIZE_CMDBUF

ASSUME CommandsAssumption ==
    /\ Commands \subseteq
         StartupCall \cup GetcapCall \cup ExtendCall \cup PcrReadCall \cup AllocateCall
    /\ \A c \in Commands : c.api = "allocate" =>  \* no array ends before the loop over it
         \/ \E k \in DOMAIN c.banks : c.banks[k].hash_alg = TPM_ALG_NULL
         \/ Len(c.banks) >= TPM_MAX_PCR_SELECTIONS

MAX_CMD_DATA == MAX_SIZE_CMDBUF - TPM_HEADER_SIZE

VARIABLES
    pc,      \* "idle", "build" (adding fields) or "xfer" (tpm_xfer has it)
    cmd,     \* the call being served, or the last one
    todo,    \* fields the command function has not yet added
    size,    \* header.cmd_size
    data,    \* data[]
    error,   \* builder.error_state
    ret      \* what the builder made of the last call

vars == <<pc, cmd, todo, size, data, error, ret>>

\* An argument of tpm_update_buffer: new_data and new_len.
F(val, len) == [val |-> val, len |-> len]
Bytes(s) == [i \in 1 .. Len(s) |-> F(s[i], 1)]
-----------------------------------------------------------------------------
(* The fields of each command, in the order the command functions add them. *)

StartupFields(c) == <<F(c.mode, 2)>>

GetcapFields(c) == <<F(c.capability, 4), F(c.property, 4), F(c.count, 4)>>

ExtendFields(c) ==
    <<F(c.index, 4),
      F(TPM_MIN_AUTH_SIZE, 4), F(TPM_RS_PW, 4), F(0, 2), F(0, 1), F(0, 2),
      F(1, 4), F(c.algorithm, 2)>>
        \o Bytes(c.digest)

\* pcr_bitmask is added byte by byte, the lowest first.
PcrReadFields(c) ==
    <<F(1, 4), F(c.algorithm, 2), F(TPM_PCR_SELECT_SIZE, 1)>>
        \o [j \in 1 .. TPM_PCR_SELECT_SIZE |-> F((2 ^ c.index \div 256 ^ (j - 1)) % 256, 1)]

\* Banks before the first TPM_ALG_NULL among the first TPM_MAX_PCR_SELECTIONS.
BankCount(banks) ==
    Cardinality({i \in 1 .. Len(banks) :
                   /\ i <= TPM_MAX_PCR_SELECTIONS
                   /\ \A j \in 1 .. i : banks[j].hash_alg # TPM_ALG_NULL})

BankFields(b) == <<F(b.hash_alg, 2), F(TPM_PCR_SELECT_SIZE, 1)>> \o Bytes(b.pcr_select)

\* The first count banks, one after the other, each with FieldsPerBank fields.
FieldsPerBank == 2 + TPM_PCR_SELECT_SIZE
BanksFields(banks, count) ==
    [k \in 1 .. FieldsPerBank * count |->
       BankFields(banks[(k - 1) \div FieldsPerBank + 1])[((k - 1) % FieldsPerBank) + 1]]

AllocateFields(c) ==
    LET count == BankCount(c.banks)
    IN  <<F(TPM_RH_PLATFORM, 4),
          F(TPM_MIN_AUTH_SIZE + Len(c.password), 4), F(TPM_RS_PW, 4), F(0, 2),
          F(0, 1), F(Len(c.password), 2)>>
            \o Bytes(c.password)
            \o <<F(count, 4)>>
            \o BanksFields(c.banks, count)

Fields(c) ==
    CASE c.api = "startup"  -> StartupFields(c)
      [] c.api = "getcap"   -> GetcapFields(c)
      [] c.api = "extend"   -> ExtendFields(c)
      [] c.api = "pcr_read" -> PcrReadFields(c)
      [] c.api = "allocate" -> AllocateFields(c)

\* Checks on the arguments before a command is built.
ArgumentsOk(c) ==
    /\ ~c.null
    /\ c.api = "pcr_read" => c.index < TPM_PCR_SELECT_SIZE * 8
    /\ c.api = "allocate" => BankCount(c.banks) \in 1 .. TPM_MAX_PCR_SELECTIONS - 1
-----------------------------------------------------------------------------
Init ==
    /\ pc = "idle"
    /\ cmd \in Commands
    /\ todo = <<>>
    /\ size = TPM_HEADER_SIZE
    /\ data = [i \in 0 .. MAX_CMD_DATA - 1 |-> 0]
    /\ error = "SUCCESS"
    /\ ret = "NONE"

\* A command function starts: its checks, then tpm_cmd_init.
CmdInit(c) ==
    /\ pc = "idle"
    /\ ArgumentsOk(c)
    /\ pc' = "build"
    /\ cmd' = c
    /\ todo' = Fields(c)
    /\ size' = TPM_HEADER_SIZE
    /\ data' = [i \in 0 .. MAX_CMD_DATA - 1 |-> 0]
    /\ error' = "SUCCESS"
    /\ ret' = "NONE"

RefuseArguments(c) ==
    /\ pc = "idle"
    /\ ~ArgumentsOk(c)
    /\ cmd' = c
    /\ ret' = "INVALID_PARAM"
    /\ UNCHANGED <<pc, todo, size, data, error>>

\* Fault: the upper bytes of the value are not masked.
BigEndianUnmasked(val, len) == [j \in 0 .. len - 1 |-> val \div 256 ^ (len - 1 - j)]

\* htobe16, htobe32 and the union in tpm_update_buffer: the low len bytes of
\* the value, the highest first.
BigEndian(val, len) == [j \in 0 .. len - 1 |-> (val \div 256 ^ (len - 1 - j)) % 256]

\* Faults: the check looks at the old size, or wastes the last byte.
FitsBefore(f) == size < MAX_SIZE_CMDBUF /\ f.len \in {1, 2, 4}
FitsBelow(f) == size + f.len < MAX_SIZE_CMDBUF /\ f.len \in {1, 2, 4}

Fits(f) == size + f.len <= MAX_SIZE_CMDBUF /\ f.len \in {1, 2, 4}

\* The store loop of tpm_update_buffer and the new cmd_size.
Store(f) ==
    LET start == size - TPM_HEADER_SIZE
        bytes == BigEndian(f.val, f.len)
    IN  /\ data' = [i \in DOMAIN data |->
                      IF i \in start .. start + f.len - 1 THEN bytes[i - start] ELSE data[i]]
        /\ size' = size + f.len

\* Fault: a field that does not fit is dropped without a trace.
UpdateBufferDrops ==
    /\ pc = "build"
    /\ todo # <<>>
    /\ todo' = Tail(todo)
    /\ IF Fits(Head(todo)) THEN Store(Head(todo)) ELSE UNCHANGED <<size, data>>
    /\ UNCHANGED <<pc, cmd, ret, error>>

\* tpm_update_buffer.  After an error the remaining calls do nothing.
UpdateBuffer ==
    /\ pc = "build"
    /\ todo # <<>>
    /\ todo' = Tail(todo)
    /\ IF error # "SUCCESS" THEN UNCHANGED <<size, data, error>>
       ELSE IF Fits(Head(todo)) THEN Store(Head(todo)) /\ UNCHANGED error
       ELSE error' = "INVALID_PARAM" /\ UNCHANGED <<size, data>>
    /\ UNCHANGED <<pc, cmd, ret>>

\* tpm_builder_finalize: the command goes to tpm_xfer, or the call fails.
Finalize ==
    /\ pc = "build"
    /\ todo = <<>>
    /\ IF error = "SUCCESS" THEN pc' = "xfer" /\ UNCHANGED ret
                            ELSE pc' = "idle" /\ ret' = error
    /\ UNCHANGED <<cmd, todo, size, data, error>>

\* tpm_xfer returns, with whatever result; the command buffer is const to it.
XferReturns ==
    /\ pc = "xfer"
    /\ pc' = "idle"
    /\ ret' = "SENT"
    /\ UNCHANGED <<cmd, todo, size, data, error>>

Next ==
    \/ \E c \in Commands : CmdInit(c) \/ RefuseArguments(c)
    \/ UpdateBuffer
    \/ Finalize
    \/ XferReturns

Spec == Init /\ [][Next]_vars
-----------------------------------------------------------------------------
(* External: how a TPM unmarshals a command (TCG TPM 2.0, part 3).         *)

\* The unsigned number in the n bytes at offset at.
U(at, n) ==
    LET byte(i) == data[at + i] * 256 ^ (n - 1 - i)
    IN  CASE n = 1 -> byte(0)
          [] n = 2 -> byte(0) + byte(1)
          [] n = 4 -> byte(0) + byte(1) + byte(2) + byte(3)

Slice(at, n) == [i \in 1 .. n |-> data[at + i - 1]]

DataEnd == size - TPM_HEADER_SIZE

\* The PCRs a pcrSelect of three bytes selects.
Selected(at) == {p \in 0 .. 23 : (data[at + p \div 8] \div 2 ^ (p % 8)) % 2 = 1}

\* The authorisation area of a command with one handle: its size field, one
\* password session with an empty nonce, and a password.
PasswordAreaIs(password) ==
    /\ U(4, 4) = 4 + 2 + 1 + 2 + Len(password)
    /\ U(8, 4) = TPM_RS_PW
    /\ U(12, 2) = 0
    /\ U(15, 2) = Len(password)
    /\ Slice(17, Len(password)) = password

\* The parameters follow the authorisation area.
ParametersAt == 8 + U(4, 4)

TpmUnderstands(c) ==
    CASE c.api = "startup" -> DataEnd = 2 /\ U(0, 2) = c.mode
      [] c.api = "getcap" ->
           /\ DataEnd = 12
           /\ U(0, 4) = c.capability /\ U(4, 4) = c.property /\ U(8, 4) = c.count
      [] c.api = "extend" ->
           /\ U(0, 4) = c.index
           /\ PasswordAreaIs(<<>>)
           /\ U(ParametersAt, 4) = 1
           /\ U(ParametersAt + 4, 2) = c.algorithm
           /\ Slice(ParametersAt + 6, DataEnd - ParametersAt - 6) = c.digest
      [] c.api = "pcr_read" ->
           /\ DataEnd = 10
           /\ U(0, 4) = 1 /\ U(4, 2) = c.algorithm /\ U(6, 1) = 3
           /\ Selected(7) = {c.index}
      [] c.api = "allocate" ->
           /\ U(0, 4) = TPM_RH_PLATFORM
           /\ PasswordAreaIs(c.password)
           /\ DataEnd = ParametersAt + 4 + 6 * U(ParametersAt, 4)
           /\ c.banks[U(ParametersAt, 4) + 1].hash_alg = TPM_ALG_NULL
           /\ \A i \in 1 .. U(ParametersAt, 4) :
                LET at == ParametersAt + 4 + 6 * (i - 1)
                IN  /\ U(at, 2) = c.banks[i].hash_alg
                    /\ c.banks[i].hash_alg # TPM_ALG_NULL
                    /\ U(at + 2, 1) = 3
                    /\ Slice(at + 3, 3) = c.banks[i].pcr_select
-----------------------------------------------------------------------------
(* Properties.                                                             *)

TypeOK ==
    /\ pc \in {"idle", "build", "xfer"}
    /\ cmd \in Commands
    /\ todo \in Seq([val : Nat, len : {1, 2, 4}])
    /\ size \in Nat
    /\ data \in [0 .. MAX_CMD_DATA - 1 -> Byte]
    /\ error \in {"SUCCESS", "INVALID_PARAM"}
    /\ ret \in {"NONE", "INVALID_PARAM", "SENT"}

\* The builder never stores outside data[] and never declares more than the
\* buffer holds: tpm2_fifo_send, which takes its loop bound from cmd_size and
\* reads data[] with it, stays inside (tpm_update_buffer, tpm2_fifo_send).
InBounds == size \in TPM_HEADER_SIZE .. MAX_SIZE_CMDBUF

\* What reaches tpm_xfer is the whole command: a TPM that unmarshals it finds
\* the arguments of the call, in particular an authorisation area of the size
\* that is declared, and exactly the PCR that was asked for.  No command whose
\* last fields did not fit is ever sent.
SentMeansUnderstood == pc = "xfer" => TpmUnderstands(cmd)

\* Bytes the TCG encoding of a call takes behind the header.
Needed(c) ==
    CASE c.api = "startup"  -> 2
      [] c.api = "getcap"   -> 12
      [] c.api = "extend"   -> 23 + Len(c.digest)
      [] c.api = "pcr_read" -> 10
      [] c.api = "allocate" -> 21 + Len(c.password) + 6 * BankCount(c.banks)

\* A command with good arguments is refused only when it does not fit: the
\* last byte of the buffer can be used, the one behind it cannot.
RefusedOnlyIfTooLong ==
    pc = "idle" /\ ret # "NONE" /\ ArgumentsOk(cmd) =>
        (ret = "INVALID_PARAM") = (TPM_HEADER_SIZE + Needed(cmd) > MAX_SIZE_CMDBUF)
=============================================================================
