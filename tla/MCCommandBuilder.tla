-------------------------- MODULE MCCommandBuilder --------------------------
(* Calls of the command functions around every limit of the buffer.        *)
EXTENDS CommandBuilder

\* Bytes that differ from their neighbours.
Text(n) == [i \in 1 .. n |-> (7 * i + 3) % 256]

\* 32-bit values are kept below 2^31, TLC's largest integer.
Indexes == {0, 17, 16909060, 2147483647}

Startups == [api : {"startup"}, null : {FALSE}, mode : {0, 1, 258, 65535}]

Getcaps == [api : {"getcap"}, null : {FALSE}, capability : {0, 5},
            property : {0, 16909060, 65536}, count : {1, 16}]

\* 223 bytes are the longest digest that fits.
Extends ==
    {[api |-> "extend", null |-> b, index |-> i, algorithm |-> 11, digest |-> Text(32)] :
       b \in BOOLEAN, i \in Indexes}
      \cup {[api |-> "extend", null |-> FALSE, index |-> 10, algorithm |-> 258,
             digest |-> Text(n)] : n \in {0, 20, 48, 222, 223, 224, 230}}

PcrReads == [api : {"pcr_read"}, null : BOOLEAN, index : {0, 7, 8, 15, 16, 23, 24, 32},
             algorithm : {4, 12}]

Bank(a) == [hash_alg |-> a, pcr_select |-> <<a, 255, 128>>]
Terminator == [hash_alg |-> TPM_ALG_NULL, pcr_select |-> <<0, 0, 0>>]

\* n banks and the terminator; with n = 8 the terminator comes too late.
Banks(n) == [i \in 1 .. n + 1 |-> IF i = n + 1 THEN Terminator ELSE Bank(i + 3)]

\* With seven banks 183 bytes are the longest password, with two 213; with
\* three and 207 bytes the last byte of the last bank is the last in the buffer.
Allocates ==
    {[api |-> "allocate", null |-> b, password |-> Text(p), banks |-> Banks(n)] :
       b \in BOOLEAN, p \in {0, 5}, n \in {0, 1, 2, 7, 8}}
      \cup {[api |-> "allocate", null |-> FALSE, password |-> Text(p[1]), banks |-> Banks(p[2])] :
              p \in {<<183, 7>>, <<184, 7>>, <<213, 2>>, <<214, 2>>, <<218, 1>>,
                     <<220, 1>>, <<225, 1>>, <<226, 1>>, <<240, 1>>}}

MCCommands == Startups \cup Getcaps \cup Extends \cup PcrReads \cup Allocates
=============================================================================
