----------------------------- MODULE PollTimer ------------------------------
(***************************************************************************)
(* One wait of tpm2_fifo.c (tpm2_wait_reg_bits, and the loop of            *)
(* tpm2_fifo_get_burstcount, which has the same shape) with the deadline   *)
(* of posix_timer_ops.c: look at the register, then at the clock, and      *)
(* again.  The thread may be preempted between any two steps, so the clock *)
(* may jump.  FifoInterface abstracts the wait to "a poll that fails may   *)
(* time out".                                                              *)
(***************************************************************************)
EXTENDS Integers

CONSTANTS
    NsPerUs,     \* 1000
    UsPerSec,    \* 1000000
    Timeouts,    \* lengths of waits in microseconds
    MaxStart,    \* latest start of a wait
    MaxTime      \* the clock stops here; later than every deadline

ASSUME TimerAssumption ==
    /\ NsPerUs \in Nat \ {0} /\ UsPerSec \in Nat \ {0}
    /\ Timeouts \subseteq Nat /\ MaxStart \in Nat /\ MaxTime \in Nat
    /\ MaxStart <= MaxTime
    /\ \A t \in Timeouts : MaxStart + (t + 1) * NsPerUs <= MaxTime

VARIABLES
    now,       \* CLOCK_MONOTONIC in nanoseconds
    ready,     \* the register shows the bits, or a nonzero burst count
    pc,        \* "idle", "read", "check" or "done"
    expiry,    \* timeout_delay
    ret,
    start, usec,     \* when the wait began and for how long (history)
    reads, late      \* register reads, and those after the deadline (history)

vars == <<now, ready, pc, expiry, ret, start, usec, reads, late>>

Init ==
    /\ now \in 0 .. MaxStart /\ ready \in BOOLEAN
    /\ pc = "idle" /\ expiry = 0 /\ ret = "none"
    /\ start = 0 /\ usec = 0 /\ reads = 0 /\ late = 0

\* Fault: nanoseconds are added as they are.
GetTimeUsRaw(t) ==
    LET sec == t \div (NsPerUs * UsPerSec)
        nsec == t % (NsPerUs * UsPerSec)
    IN sec * UsPerSec + nsec

\* tv_sec and tv_nsec are the two parts of the clock.
GetTimeUs(t) ==
    LET sec == t \div (NsPerUs * UsPerSec)
        nsec == t % (NsPerUs * UsPerSec)
    IN sec * UsPerSec + nsec \div NsPerUs

TimeoutElapsed == GetTimeUs(now) >= expiry

TimeoutInit ==
    /\ pc = "idle" /\ now <= MaxStart
    /\ \E t \in Timeouts : usec' = t /\ expiry' = GetTimeUs(now) + t
    /\ start' = now /\ pc' = "read"
    /\ UNCHANGED <<now, ready, ret, reads, late>>

Finish(r) == pc' = "done" /\ ret' = r

ReadRegister ==
    /\ pc = "read"
    /\ reads' = IF reads < 2 THEN reads + 1 ELSE 2
    /\ late' = late + IF TimeoutElapsed THEN 1 ELSE 0
    /\ \/ ready /\ Finish("SUCCESS")
       \/ ~ready /\ pc' = "check" /\ UNCHANGED ret
       \/ Finish("ERR_TRANSFER")
    /\ UNCHANGED <<now, ready, expiry, start, usec>>

\* Fault: the deadline is set anew for each poll.
CheckDeadlineAnew ==
    /\ pc = "check"
    /\ IF TimeoutElapsed THEN Finish("ERR_TIMEOUT") /\ UNCHANGED expiry
       ELSE pc' = "read" /\ expiry' = GetTimeUs(now) + usec /\ UNCHANGED ret
    /\ UNCHANGED <<now, ready, start, usec, reads, late>>

\* Fault: the wait is abandoned only when the clock shows the deadline itself.
CheckDeadlineExactly ==
    /\ pc = "check"
    /\ IF GetTimeUs(now) = expiry THEN Finish("ERR_TIMEOUT")
       ELSE pc' = "read" /\ UNCHANGED ret
    /\ UNCHANGED <<now, ready, expiry, start, usec, reads, late>>

CheckDeadline ==
    /\ pc = "check"
    /\ IF TimeoutElapsed THEN Finish("ERR_TIMEOUT")
       ELSE pc' = "read" /\ UNCHANGED ret
    /\ UNCHANGED <<now, ready, expiry, start, usec, reads, late>>

\* Time passes, by as much as the thread is kept from running (external).
TimePasses ==
    /\ \E t \in now + 1 .. MaxTime : now' = t
    /\ UNCHANGED <<ready, pc, expiry, ret, start, usec, reads, late>>

\* The TPM changes the register at any time (external).
TpmMoves ==
    /\ ready' = ~ready
    /\ UNCHANGED <<now, pc, expiry, ret, start, usec, reads, late>>

Thread == ReadRegister \/ CheckDeadline

Next == TimeoutInit \/ Thread \/ TimePasses \/ TpmMoves

Spec == Init /\ [][Next]_vars

\* The thread keeps running and the clock keeps going.
FairSpec == Spec /\ WF_vars(Thread) /\ WF_vars(TimePasses)

\* Every variable has its type, and no deadline of timeout_init_us lies where
\* the clock never gets.
TypeOK ==
    /\ now \in 0 .. MaxTime /\ ready \in BOOLEAN
    /\ pc \in {"idle", "read", "check", "done"}
    /\ ret \in {"none", "SUCCESS", "ERR_TRANSFER", "ERR_TIMEOUT"}
    /\ expiry \in 0 .. GetTimeUs(MaxTime)
    /\ start \in 0 .. MaxStart /\ usec \in Timeouts \cup {0}
    /\ reads \in 0 .. 2 /\ late \in Nat

\* TPM_ERR_TIMEOUT comes after the TPM has been asked at least once, and less
\* than a microsecond before the time asked for has passed: get_time_us cuts
\* off the nanoseconds of the start and of the end.
TimeoutNotEarly ==
    ret = "ERR_TIMEOUT" => reads >= 1 /\ now - start > (usec - 1) * NsPerUs

\* However often tpm2_wait_reg_bits is preempted, it reads the register at most
\* once after the deadline: the clock may pass it between the look at the clock
\* and the read, and then the next look ends the wait.
OneLatePoll == late <= 1

\* Every wait of tpm2_fifo.c returns, however the register changes: this is
\* the fairness of time-outs that FifoInterface assumes.
WaitReturns == pc = "read" ~> pc = "done"
=============================================================================
