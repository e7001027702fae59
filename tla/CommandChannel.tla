--------------------------- MODULE CommandChannel ---------------------------
(***************************************************************************)
(* What tpm_xfer promises the command functions of tpm2_cmds.c: commands   *)
(* go to the TPM one at a time and each is executed at most once.  A call  *)
(* that succeeds returns the answer to its own command, which has been     *)
(* executed.  A call that fails says nothing: its command may have been    *)
(* executed, may be lost, or may still be executed after the call has      *)
(* returned, until a later call starts its own command.                    *)
(***************************************************************************)
EXTENDS Naturals

CONSTANT MaxCalls       \* number of commands issued

VARIABLES
    current,   \* number of the last command issued
    busy,      \* tpm_xfer is running for it
    status,    \* what has become of each command
    answer     \* command whose answer the last call returned, or 0

chanVars == <<current, busy, status, answer>>

Status == {"new", "submitted", "started", "executed", "lost"}

ChanInit ==
    /\ current = 0
    /\ busy = FALSE
    /\ status = [k \in 1 .. MaxCalls |-> "new"]
    /\ answer = 0

Submit ==
    /\ ~busy
    /\ current < MaxCalls
    /\ current' = current + 1
    /\ busy' = TRUE
    /\ status' = [status EXCEPT ![current + 1] = "submitted"]
    /\ answer' = 0

\* The TPM starts the command of the running call; no other is under way.
StartCommand ==
    /\ busy
    /\ status[current] = "submitted"
    /\ \A k \in 1 .. MaxCalls : status[k] # "started"
    /\ status' = [status EXCEPT ![current] = "started"]
    /\ UNCHANGED <<current, busy, answer>>

\* The TPM may do so during the call, after it failed, or during the next.
Execute ==
    /\ \E k \in 1 .. MaxCalls :
         /\ status[k] = "started"
         /\ status' = [status EXCEPT ![k] = "executed"]
    /\ UNCHANGED <<current, busy, answer>>

Abandon ==
    /\ \E k \in 1 .. MaxCalls :
         /\ status[k] \in {"submitted", "started"}
         /\ status' = [status EXCEPT ![k] = "lost"]
    /\ UNCHANGED <<current, busy, answer>>

Succeed ==
    /\ busy
    /\ status[current] = "executed"
    /\ busy' = FALSE
    /\ answer' = current
    /\ UNCHANGED <<current, status>>

\* A call fails before it started its command, while or after it did; what an
\* earlier call left behind may be abandoned in the same step.
Fail ==
    /\ busy
    /\ busy' = FALSE
    /\ answer' = 0
    /\ status' \in [1 .. MaxCalls -> Status]
    /\ \A k \in 1 .. MaxCalls :
         \/ status'[k] = status[k] /\ status[k] # "submitted"
         \/ status[k] \in {"submitted", "started"} /\ status'[k] = "lost"
         \/ /\ status[k] = "submitted" /\ status'[k] = "started"
            /\ \A j \in 1 .. MaxCalls : status[j] # "started"
    /\ UNCHANGED current

\* The caller is done with an answer.
Consume ==
    /\ ~busy
    /\ answer' = 0
    /\ UNCHANGED <<current, busy, status>>

ChanNext ==
    \/ Submit \/ StartCommand \/ Execute \/ Abandon \/ Succeed \/ Fail \/ Consume

ChanSpec == ChanInit /\ [][ChanNext]_chanVars
=============================================================================
