-------------------------- MODULE MCGetCapability ---------------------------
(* Small TPMs and queries for TLC.                                         *)
EXTENDS GetCapability

Row1 == [val |-> {0}, len |-> 2]
Row2 == [val |-> {0, 1}, len |-> 2]
Row3 == [val |-> {1}, len |-> 2]
RowShort == [val |-> {0}, len |-> 1]
RowLong == [val |-> {0}, len |-> 3]

\* No property, one, some with gaps, more than TPM_MAX_PAGES, a short
\* selection and one that is too long.
MCTables ==
    {<<>>, <<Row3>>, (1 :> Row1 @@ 4 :> Row3), (1 :> Row3 @@ 3 :> RowShort),
     (3 :> RowShort @@ 4 :> RowLong),
     (1 :> Row1 @@ 2 :> Row3 @@ 3 :> Row2 @@ 4 :> RowShort)}

MCMaskValues == {{}, {0}}

\* Ascending, descending, repeated and unknown identifiers, an empty query,
\* entries behind the terminator, and a missing terminator.
MCQueryArrays ==
    {<<1, 4, 2>>, <<4, 1, 2>>, <<3, 3, 2>>, <<3, 2, 1>>, <<2, 1>>, <<0, 2>>,
     <<1, 3, 4>>}

\* For the run with fairness.
MCTwoTables == {<<>>, (1 :> Row3 @@ 3 :> RowShort)}

MCTwoQueries == {<<4, 1, 2>>, <<2, 1>>}
=============================================================================
