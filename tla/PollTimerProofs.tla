-------------------------- MODULE PollTimerProofs ---------------------------
(***************************************************************************)
(* Proofs about PollTimer, for any division of the clock and any waits;    *)
(* the code has 1000 nanoseconds and 1000000 microseconds.                 *)
(***************************************************************************)
EXTENDS PollTimer, TLAPS

\* Division with remainder.
LEMMA DivMod ==
    ASSUME NEW n \in Nat, NEW d \in Nat, d > 0
    PROVE  /\ n \div d \in Nat /\ n % d \in Nat /\ n % d < d
           /\ n = (n \div d) * d + (n % d)
           /\ (n \div d) * d <= n /\ n < (n \div d) * d + d
<1>1. n \div d \in Nat /\ n % d \in Nat /\ n % d < d
  OBVIOUS
<1>2. n = (n \div d) * d + (n % d)
  OBVIOUS
<1>3. (n \div d) * d \in Nat
  BY <1>1
<1> QED
  BY <1>1, <1>2, <1>3

\* Seconds and nanoseconds put together are the microseconds of the clock,
\* rounded down, although get_time_us never sees the clock as one number.
LEMMA TimeIsRounded ==
    ASSUME NEW t \in Nat
    PROVE  /\ GetTimeUs(t) \in Nat
           /\ GetTimeUs(t) * NsPerUs <= t
           /\ t < (GetTimeUs(t) + 1) * NsPerUs
<1> DEFINE second == NsPerUs * UsPerSec
           sec == t \div second
           nsec == t % second
           us == nsec \div NsPerUs
<1>1. NsPerUs \in Nat /\ NsPerUs > 0 /\ UsPerSec \in Nat /\ UsPerSec > 0
  BY TimerAssumption
<1>2. second \in Nat /\ second > 0
  BY <1>1
<1>3. sec \in Nat /\ nsec \in Nat /\ t = sec * second + nsec
  <2> HIDE DEF second
  <2> QED
    BY <1>2, DivMod
<1>4. us \in Nat /\ us * NsPerUs <= nsec /\ nsec < us * NsPerUs + NsPerUs
  <2>1. nsec \in Nat
    BY <1>3
  <2> HIDE DEF nsec
  <2> QED
    BY <1>1, <2>1, DivMod
<1>5. (sec * UsPerSec + us) * NsPerUs = sec * second + us * NsPerUs
  <2> HIDE DEF sec, us
  <2> QED
    BY <1>1, <1>3, <1>4
<1>6. (sec * UsPerSec + us + 1) * NsPerUs = sec * second + us * NsPerUs + NsPerUs
  <2> HIDE DEF sec, us
  <2> QED
    BY <1>1, <1>3, <1>4
<1>7. GetTimeUs(t) = sec * UsPerSec + us
  BY DEF GetTimeUs
<1>8. sec * UsPerSec \in Nat /\ sec * second \in Nat /\ us * NsPerUs \in Nat
  <2> HIDE DEF sec, us, second
  <2> QED
    BY <1>1, <1>2, <1>3, <1>4
<1> HIDE DEF sec, us, second, nsec
<1> QED
  BY <1>1, <1>3, <1>4, <1>5, <1>6, <1>7, <1>8

\* Multiples of the same number are ordered like their factors.
LEMMA Cancel ==
    ASSUME NEW a \in Int, NEW b \in Int, NEW d \in Nat, d > 0
    PROVE  (a * d < b * d => a < b) /\ (a <= b => a * d <= b * d)
OBVIOUS

\* A later look at the clock shows no earlier time.
LEMMA TimeIsMonotonic ==
    ASSUME NEW t \in Nat, NEW u \in Nat, t <= u
    PROVE  GetTimeUs(t) <= GetTimeUs(u)
<1>1. /\ GetTimeUs(t) \in Nat /\ GetTimeUs(u) \in Nat
      /\ GetTimeUs(t) * NsPerUs <= t /\ u < (GetTimeUs(u) + 1) * NsPerUs
  BY TimeIsRounded
<1>2. NsPerUs \in Nat /\ NsPerUs > 0
  BY TimerAssumption
<1>3. GetTimeUs(t) * NsPerUs \in Nat /\ (GetTimeUs(u) + 1) * NsPerUs \in Nat
  BY <1>1, <1>2
<1>4. GetTimeUs(t) * NsPerUs < (GetTimeUs(u) + 1) * NsPerUs
  BY <1>1, <1>3
<1>5. GetTimeUs(t) < GetTimeUs(u) + 1
  BY <1>1, <1>2, <1>4, Cancel
<1> QED
  BY <1>1, <1>5

\* A deadline that is set in time is reached before the clock of the model stops.
LEMMA DeadlineIsReached ==
    ASSUME NEW t \in 0 .. MaxStart, NEW u \in Timeouts
    PROVE  GetTimeUs(t) + u \in 0 .. GetTimeUs(MaxTime)
<1>1. /\ t \in Nat /\ u \in Nat /\ MaxTime \in Nat /\ NsPerUs \in Nat /\ NsPerUs > 0
      /\ t + (u + 1) * NsPerUs <= MaxTime
  <2>1. (u + 1) * NsPerUs \in Nat /\ MaxStart + (u + 1) * NsPerUs <= MaxTime
    BY TimerAssumption
  <2> QED
    BY <2>1, TimerAssumption
<1>2. /\ GetTimeUs(t) \in Nat /\ GetTimeUs(MaxTime) \in Nat
      /\ GetTimeUs(t) * NsPerUs <= t /\ MaxTime < (GetTimeUs(MaxTime) + 1) * NsPerUs
  BY <1>1, TimeIsRounded
<1>3. (GetTimeUs(t) + u + 1) * NsPerUs = GetTimeUs(t) * NsPerUs + (u + 1) * NsPerUs
  BY <1>1, <1>2
<1>4. /\ GetTimeUs(t) * NsPerUs \in Nat /\ (u + 1) * NsPerUs \in Nat
      /\ (GetTimeUs(MaxTime) + 1) * NsPerUs \in Nat
  BY <1>1, <1>2
<1>5. (GetTimeUs(t) + u + 1) * NsPerUs < (GetTimeUs(MaxTime) + 1) * NsPerUs
  BY <1>1, <1>2, <1>3, <1>4
<1>6. GetTimeUs(t) + u + 1 < GetTimeUs(MaxTime) + 1
  BY <1>1, <1>2, <1>5, Cancel
<1> QED
  BY <1>1, <1>2, <1>6
-----------------------------------------------------------------------------
\* The deadline is the one set at the start, which the clock has not left behind.
DeadlineInv == pc # "idle" => start <= now /\ expiry = GetTimeUs(start) + usec

\* A wait goes back to the register only before its deadline, so a read after it
\* is the last; it gives up only after a read and after the deadline.
PollInv ==
    /\ pc \in {"idle", "read"} => late = 0
    /\ pc = "check" => reads >= 1 /\ late <= 1 /\ (late = 1 => TimeoutElapsed)
    /\ pc = "done" => late <= 1
    /\ ret = "ERR_TIMEOUT" => pc = "done" /\ reads >= 1 /\ TimeoutElapsed

IInv == TypeOK /\ DeadlineInv /\ PollInv

LEMMA InitInv == Init => IInv
<1> SUFFICES ASSUME Init PROVE IInv
  OBVIOUS
<1>1. MaxStart \in Nat /\ MaxTime \in Nat /\ now \in 0 .. MaxTime
  BY TimerAssumption DEF Init
<1>2. GetTimeUs(MaxTime) \in Nat
  BY <1>1, TimeIsRounded
<1> QED
  BY <1>1, <1>2 DEF Init, IInv, TypeOK, DeadlineInv, PollInv

LEMMA NextInv == IInv /\ [Next]_vars => IInv'
<1> SUFFICES ASSUME TypeOK, DeadlineInv, PollInv, [Next]_vars PROVE IInv'
  BY DEF IInv
<1>1. /\ now \in Nat /\ start \in Nat /\ MaxStart \in Nat /\ MaxTime \in Nat
      /\ GetTimeUs(now) \in Nat /\ GetTimeUs(MaxTime) \in Nat /\ expiry \in Nat
  <2>1. MaxStart \in Nat /\ MaxTime \in Nat /\ now \in Nat /\ start \in Nat
    BY TimerAssumption DEF TypeOK
  <2>2. GetTimeUs(now) \in Nat /\ GetTimeUs(MaxTime) \in Nat
    BY <2>1, TimeIsRounded
  <2> QED
    BY <2>1, <2>2 DEF TypeOK
<1>2. ASSUME TimeoutInit PROVE IInv'
  <2>1. PICK t \in Timeouts : usec' = t /\ expiry' = GetTimeUs(now) + t
    BY <1>2 DEF TimeoutInit
  <2>2. now \in 0 .. MaxStart
    BY <1>1, <1>2 DEF TimeoutInit, TypeOK
  <2>3. expiry' \in 0 .. GetTimeUs(MaxTime)
    BY <2>1, <2>2, DeadlineIsReached
  <2> QED
    BY <1>1, <1>2, <2>1, <2>2, <2>3
       DEF TimeoutInit, IInv, TypeOK, DeadlineInv, PollInv, TimeoutElapsed
<1>3. ASSUME ReadRegister PROVE IInv'
  BY <1>1, <1>3 DEF ReadRegister, Finish, IInv, TypeOK, DeadlineInv, PollInv, TimeoutElapsed
<1>4. ASSUME CheckDeadline PROVE IInv'
  BY <1>1, <1>4 DEF CheckDeadline, Finish, IInv, TypeOK, DeadlineInv, PollInv, TimeoutElapsed
<1>5. ASSUME TimePasses PROVE IInv'
  <2>1. now' \in 0 .. MaxTime /\ now <= now' /\ now' \in Nat
    BY <1>1, <1>5 DEF TimePasses
  <2>2. GetTimeUs(now) <= GetTimeUs(now') /\ GetTimeUs(now') \in Nat
    BY <1>1, <2>1, TimeIsMonotonic, TimeIsRounded
  <2>3. TimeoutElapsed => TimeoutElapsed'
    BY <1>1, <1>5, <2>2 DEF TimePasses, TimeoutElapsed
  <2> QED
    BY <1>1, <1>5, <2>1, <2>3 DEF TimePasses, IInv, TypeOK, DeadlineInv, PollInv
<1>6. ASSUME TpmMoves \/ UNCHANGED vars PROVE IInv'
  BY <1>6 DEF TpmMoves, vars, IInv, TypeOK, DeadlineInv, PollInv, TimeoutElapsed
<1> QED
  BY <1>2, <1>3, <1>4, <1>5, <1>6 DEF Next, Thread

LEMMA Invariance == Spec => []IInv
BY InitInv, NextInv, PTL DEF Spec

\* Every variable of a wait keeps its type, and no deadline timeout_init_us sets
\* lies where the clock never gets.
THEOREM TypeCorrect == Spec => []TypeOK
BY Invariance, PTL DEF IInv

\* tpm2_wait_reg_bits gives up only after it has read the register, and less than
\* a microsecond before the time asked for has passed.
THEOREM NotEarly == Spec => []TimeoutNotEarly
<1>1. IInv => TimeoutNotEarly
  <2> SUFFICES ASSUME IInv, ret = "ERR_TIMEOUT"
               PROVE  reads >= 1 /\ now - start > (usec - 1) * NsPerUs
    BY DEF TimeoutNotEarly
  <2>1. /\ pc = "done" /\ reads >= 1 /\ GetTimeUs(now) >= GetTimeUs(start) + usec
    BY DEF IInv, PollInv, DeadlineInv, TimeoutElapsed
  <2>2. /\ now \in Nat /\ start \in Nat /\ usec \in Nat
        /\ NsPerUs \in Nat /\ NsPerUs > 0
    BY TimerAssumption DEF IInv, TypeOK
  <2>3. /\ GetTimeUs(now) \in Nat /\ GetTimeUs(start) \in Nat
        /\ GetTimeUs(now) * NsPerUs <= now /\ start < (GetTimeUs(start) + 1) * NsPerUs
    BY <2>2, TimeIsRounded
  <2>4. (GetTimeUs(start) + usec) * NsPerUs <= GetTimeUs(now) * NsPerUs
    BY <2>1, <2>2, <2>3, Cancel
  <2>5. (GetTimeUs(start) + usec) * NsPerUs
          = (GetTimeUs(start) + 1) * NsPerUs + (usec - 1) * NsPerUs
    BY <2>2, <2>3
  <2>6. /\ (GetTimeUs(start) + 1) * NsPerUs \in Int /\ (usec - 1) * NsPerUs \in Int
        /\ GetTimeUs(now) * NsPerUs \in Int
    BY <2>2, <2>3
  <2> QED
    BY <2>1, <2>2, <2>3, <2>4, <2>5, <2>6
<1> QED
  BY <1>1, Invariance, PTL

\* However the thread is preempted, tpm2_wait_reg_bits reads the register at most
\* once after its deadline.
THEOREM AtMostOneLatePoll == Spec => []OneLatePoll
<1>1. IInv => OneLatePoll
  BY DEF IInv, TypeOK, PollInv, OneLatePoll
<1> QED
  BY <1>1, Invariance, PTL
=============================================================================
