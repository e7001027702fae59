------------------------ MODULE GetCapabilityProofs -------------------------
(***************************************************************************)
(* Proofs about GetCapability, for any TPM, any query, any page sizes and  *)
(* any damage to the pages.                                                *)
(***************************************************************************)
EXTENDS GetCapability, SumLemmas, FiniteSetTheorems, TLAPS

-----------------------------------------------------------------------------
(* The inductive invariant.                                                *)

TypeInv ==
    /\ TypeOK
    /\ page.count \in Nat /\ page.size \in Nat /\ page.more \in BOOLEAN

\* What a call has and has not done yet.
CallInv ==
    /\ pc # "done" => ret = "none"
    /\ pc = "entries" /\ api # "get_alg_props" => loop.pages < TPM_MAX_PAGES
    /\ pc # "entries" \/ api = "get_alg_props" => parsed = 0
    /\ api = "has_alg" => Len(query) = 2
    /\ pc # "done" =>
         out = IF api = "get_alg_props" /\ pc = "entries" THEN Unsupported ELSE Untouched

\* A page received without a fault lists what is there from the property asked
\* for, and all banks come with the first page.
PageInv ==
    clean /\ pc # "done" =>
        /\ pc = "entries" =>
             /\ page.count = Len(page.entries)
             /\ SoundList(page.entries, page.more)
             /\ parsed > 0 => loop.last = page.entries[parsed].id
        /\ Cap(api) = "pcrs" => loop.property = 0 /\ loop.pages = 0

\* What the call has been told of: what the pages before listed, and the
\* entries already read of this one.
Seen == {d \in DOMAIN table : d < loop.property}
            \cup {page.entries[j].id : j \in 1 .. parsed}

\* The query tells what was seen, and nothing else.
QueryInv ==
    clean /\ pc # "done" /\ api \in Queries =>
        \A k \in Items(api, QueryIds) :
            query[k].val = IF query[k].id \in Seen THEN Truth(query[k].id) ELSE {}

\* The callback got what was seen and matches, and nothing else.
VisitInv ==
    clean /\ pc # "done" /\ api \in Finds => Range(visited) = Wanted \cap Seen

\* Every page before this one listed at least one property, and there was
\* another behind it.
LimitInv ==
    clean /\ pc # "done" /\ api # "get_alg_props" =>
        /\ loop.pages <= Cardinality({d \in DOMAIN table : d < loop.property})
        /\ pc = "request" /\ loop.pages > 0 =>
             \E d \in DOMAIN table : d >= loop.property

\* The bytes left are those of the entries left.
SizeInv ==
    clean /\ pc = "entries" =>
        remain = TailSize(Cap(api), page.entries)[Len(page.entries) - parsed]

IInv ==
    /\ TypeInv /\ CallInv /\ PageInv
    /\ NothingInvented
    /\ QueryInv /\ QueryExact
    /\ AlgPropsExact
    /\ VisitInv /\ EachVisitedOnce
    /\ LimitInv /\ LimitMeansManyPages
    /\ SizeInv /\ SoundAnswersAccepted

-----------------------------------------------------------------------------
(* What the TPM lists.                                                     *)

LEMMA ConstantFacts ==
    /\ UINT16_MAX \in Nat
    /\ Ids \subseteq Nat /\ (\A d \in Ids : d <= UINT16_MAX) /\ TPM_ALG_NULL \in Ids
    /\ TPM_PCR_SELECT_SIZE \in Nat /\ TPM_DEFAULT_PAGE_COUNT \in Nat
    /\ TPM_MAX_PAGES \in Nat /\ TPM_MAX_PAGES > 0
    /\ TPM_MAX_ALG_PROPERTIES \in Nat /\ TPM_MAX_ALG_PROPERTIES > 0
    /\ TPM_MAX_PCR_SELECTIONS \in Nat /\ TPM_MAX_PCR_SELECTIONS > 0
    /\ MAX_CMD_DATA \in Nat /\ MaxDamaged \in Nat
<1>1. Ids \subseteq 0 .. UINT16_MAX /\ TPM_ALG_NULL \in Ids
  BY GetCapabilityAssumption, Zenon
<1>3. UINT16_MAX \in Nat
  BY DEF UINT16_MAX
<1>2. {TPM_PCR_SELECT_SIZE, TPM_DEFAULT_PAGE_COUNT, TPM_MAX_PAGES,
        TPM_MAX_ALG_PROPERTIES, TPM_MAX_PCR_SELECTIONS,
        MAX_CMD_DATA} \subseteq Nat \ {0} /\ MaxDamaged \in Nat
  BY GetCapabilityAssumption, Zenon
<1> QED
  BY <1>1, <1>2, <1>3

LEMMA TableFacts ==
    ASSUME TypeOK
    PROVE  /\ DOMAIN table \subseteq Ids /\ DOMAIN table \subseteq Nat
           /\ \A d \in DOMAIN table : table[d].val \in Values /\ table[d].len \in Nat
           /\ IsFiniteSet(DOMAIN table) /\ Cardinality(DOMAIN table) \in Nat
<1>1. table \in [DOMAIN table -> Row] /\ DOMAIN table \subseteq Ids
  BY GetCapabilityAssumption, Zenon DEF TypeOK
<1>2. DOMAIN table \in SUBSET Nat /\ \A d \in DOMAIN table : d <= UINT16_MAX
  BY <1>1, ConstantFacts
<1>3. IsFiniteSet(DOMAIN table) /\ Cardinality(DOMAIN table) \in Nat
  <2>1. IsFiniteSet(DOMAIN table)
    BY <1>2, ConstantFacts, FS_BoundedSetOfNaturals
  <2> QED
    BY <2>1, FS_CardinalityType
<1>4. \A d \in DOMAIN table : table[d] \in Row
  BY <1>1
<1>5. \A d \in DOMAIN table : table[d].val \in Values /\ table[d].len \in Nat
  BY <1>4, ConstantFacts DEF Row
<1> QED
  BY <1>1, <1>2, <1>3, <1>5

LEMMA EntriesFacts ==
    ASSUME TypeOK, NEW e \in Entries
    PROVE  /\ e.id \in DOMAIN table /\ e.id \in Ids /\ e.id \in Nat
           /\ e.val = table[e.id].val /\ e.val \in Values
           /\ e.len = table[e.id].len /\ e.len \in Nat
BY TableFacts DEF Entries

LEMMA SeqsFacts ==
    ASSUME TypeOK, NEW n \in Nat
    PROVE  SeqsUpTo(n) \subseteq Seq(Entries)
<1> SUFFICES ASSUME NEW es \in SeqsUpTo(n) PROVE es \in Seq(Entries)
  OBVIOUS
<1>1. PICK k \in 0 .. n : es \in [1 .. k -> Entries]
  BY DEF SeqsUpTo
<1> QED
  BY <1>1

LEMMA SoundFacts ==
    ASSUME TypeOK, NEW p \in SoundPages
    PROVE  /\ p.entries \in Seq(Entries) /\ p.count = Len(p.entries)
           /\ p.more \in BOOLEAN
           /\ SoundList(p.entries, p.more)
<1>1. PICK em \in SeqsUpTo(Cardinality(DOMAIN table)) \X BOOLEAN :
          /\ SoundList(em[1], em[2])
          /\ p = [sound |-> TRUE, cap |-> Cap(api), more |-> em[2], count |-> Len(em[1]),
                  entries |-> em[1], size |-> PayloadSize(Cap(api), em[1])]
  BY Zenon DEF SoundPages
<1>2. p.entries = em[1] /\ p.more = em[2] /\ p.count = Len(em[1])
  BY <1>1
<1>3. em[1] \in Seq(Entries)
  BY TableFacts, SeqsFacts
<1>4. em[2] \in BOOLEAN
  OBVIOUS
<1>5. SoundList(p.entries, p.more)
  BY <1>1, <1>2, Zenon
<1> QED
  BY <1>2, <1>3, <1>4, <1>5

LEMMA DamagedFacts ==
    ASSUME TypeOK, NEW p \in DamagedPages
    PROVE  p.entries \in Seq(Entries) /\ p.count \in Nat /\ p.more \in BOOLEAN
<1>1. CASE p.entries = <<>> /\ p.count = 0 /\ p.more = FALSE
  <2>1. <<>> \in Seq(Entries) /\ 0 \in Nat
    OBVIOUS
  <2> QED
    BY <1>1, <2>1, Zenon
<1>2. CASE \E es \in SeqsUpTo(MaxDamaged) :
             /\ p.entries = es /\ p.more \in BOOLEAN
             /\ p.count \in {Len(es), Len(es) + 1}
  <2>1. PICK es \in SeqsUpTo(MaxDamaged) :
             /\ p.entries = es /\ p.more \in BOOLEAN
             /\ p.count \in {Len(es), Len(es) + 1}
    BY <1>2
  <2>2. es \in Seq(Entries)
    BY ConstantFacts, SeqsFacts
  <2> QED
    BY <2>1, <2>2
<1>3. \/ p.entries = <<>> /\ p.count = 0 /\ p.more = FALSE
      \/ \E es \in SeqsUpTo(MaxDamaged) :
             /\ p.entries = es /\ p.more \in BOOLEAN
             /\ p.count \in {Len(es), Len(es) + 1}
  <2>1. CASE p = [NoPage EXCEPT !.sound = FALSE]
             \/ p = [NoPage EXCEPT !.cap = "other", !.size = 9]
    BY <2>1 DEF NoPage
  <2>2. CASE \E es \in SeqsUpTo(MaxDamaged) : \E sizes :
               p \in [sound : {TRUE}, cap : {Cap(api)}, more : BOOLEAN, entries : {es},
                      count : {Len(es), Len(es) + 1}, size : sizes]
    BY <2>2
  <2>3. \/ p = [NoPage EXCEPT !.sound = FALSE]
        \/ p = [NoPage EXCEPT !.cap = "other", !.size = 9]
        \/ \E es \in SeqsUpTo(MaxDamaged) : \E sizes :
               p \in [sound : {TRUE}, cap : {Cap(api)}, more : BOOLEAN, entries : {es},
                      count : {Len(es), Len(es) + 1}, size : sizes]
    <3> DEFINE sizes(es) == LET full == PayloadSize(Cap(api), es) IN
                              {full - cut : cut \in {c \in Missing : c <= full}}
               D == UNION {[sound : {TRUE}, cap : {Cap(api)}, more : BOOLEAN,
                            entries : {es}, count : {Len(es), Len(es) + 1},
                            size : sizes(es)] : es \in SeqsUpTo(MaxDamaged)}
    <3>1. \/ p \in D
          \/ p = [NoPage EXCEPT !.sound = FALSE]
          \/ p = [NoPage EXCEPT !.cap = "other", !.size = 9]
      BY Zenon DEF DamagedPages
    <3>2. ASSUME p \in D
          PROVE  \E es \in SeqsUpTo(MaxDamaged) : \E sz :
                    p \in [sound : {TRUE}, cap : {Cap(api)}, more : BOOLEAN,
                           entries : {es}, count : {Len(es), Len(es) + 1}, size : sz]
      <4> HIDE DEF sizes
      <4>1. PICK es \in SeqsUpTo(MaxDamaged) :
                p \in [sound : {TRUE}, cap : {Cap(api)}, more : BOOLEAN,
                       entries : {es}, count : {Len(es), Len(es) + 1}, size : sizes(es)]
        BY <3>2, Zenon
      <4> QED
        BY <4>1, Zenon
    <3> HIDE DEF D
    <3> QED
      BY <3>1, <3>2, Zenon
  <2> QED
    BY <2>1, <2>2, <2>3, Zenon
<1> QED
  BY <1>1, <1>2, <1>3

LEMMA EntryFacts ==
    ASSUME TypeInv, parsed < Len(page.entries)
    PROVE  /\ Entry \in Entries
           /\ Entry.id \in DOMAIN table /\ Entry.id \in Ids /\ Entry.id \in Nat
           /\ Entry.val = table[Entry.id].val /\ Entry.val \in Values
           /\ Entry.len \in Nat
<1>1. parsed \in Nat /\ page.entries \in Seq(Entries)
  BY DEF TypeInv, TypeOK
<1>2. Entry \in Entries
  BY <1>1 DEF Entry
<1> QED
  BY <1>2, EntriesFacts DEF TypeInv

\* A bounded set of natural numbers has a largest element.
LEMMA MaxOfBounded ==
    ASSUME NEW S \in SUBSET Nat, S # {}, NEW n \in Nat, \A s \in S : s <= n
    PROVE  Max(S) \in S /\ \A s \in S : s <= Max(S)
<1> DEFINE U == {u \in Nat : \A s \in S : s <= u}
<1>1. PICK u \in U : \A v \in U : u <= v
  <2>1. U \in SUBSET Nat /\ U # {}
    OBVIOUS
  <2> HIDE DEF U
  <2> QED
    BY <2>1, LeastElement
<1>2. u \in Nat /\ \A s \in S : s \in Nat /\ s <= u
  OBVIOUS
<1>3. u \in S
  <2> SUFFICES ASSUME u \notin S PROVE FALSE
    OBVIOUS
  <2>1. PICK s \in S : TRUE
    OBVIOUS
  <2>2. u - 1 \in Nat
    BY <1>2, <2>1
  <2>3. \A t \in S : t <= u - 1
    <3> HIDE DEF U
    <3> QED
      BY <1>2, <2>2
  <2>4. u - 1 \in U
    BY <2>2, <2>3
  <2> QED
    BY <1>1, <1>2, <2>4
<1>4. \A s \in S : u >= s
  BY <1>2
<1> QED
  BY <1>3, <1>4 DEF Max

LEMMA SeqElement ==
    ASSUME NEW T, NEW s \in Seq(T), NEW k \in DOMAIN s
    PROVE  k \in Nat /\ k > 0 /\ k <= Len(s) /\ s[k] \in T
OBVIOUS

LEMMA QueryFacts ==
    ASSUME TypeOK
    PROVE  /\ Items(api, QueryIds) \subseteq DOMAIN query
           /\ \A k \in DOMAIN query :
                /\ k \in Nat /\ k > 0 /\ query[k] \in [id : Ids, val : Values]
                /\ query[k].id \in Ids /\ query[k].id \in Nat /\ query[k].val \in Values
<1>1. query \in Seq([id : Ids, val : Values])
  BY DEF TypeOK
<1>2. \A k \in DOMAIN query :
        k \in Nat /\ k > 0 /\ query[k] \in [id : Ids, val : Values]
  BY <1>1, SeqElement
<1>3. Items(api, QueryIds) \subseteq DOMAIN query
  BY Zenon DEF Items, QueryIds
<1> QED
  BY <1>2, <1>3, ConstantFacts

\* The identifier the loop stops at is not below any that is asked for.
LEMMA MaxIdBounds ==
    ASSUME TypeOK
    PROVE  /\ MaxId \in Nat
           /\ \A k \in Items(api, QueryIds) : query[k].id <= MaxId
<1> DEFINE S == {0} \cup {query[k].id : k \in Items(api, QueryIds)}
<1>1. \A s \in S : s = 0 \/ s \in Ids
  BY QueryFacts, Zenon
<1>2. 0 \in S /\ \A k \in Items(api, QueryIds) : query[k].id \in S
  OBVIOUS
<1>3. MaxId = Max(S)
  BY DEF MaxId
<1> HIDE DEF S
<1>4. S \in SUBSET Nat /\ \A s \in S : s <= UINT16_MAX
  <2>1. ASSUME NEW s \in S PROVE s \in Nat /\ s <= UINT16_MAX
    <3>1. CASE s = 0
      BY <3>1, ConstantFacts
    <3>2. CASE s \in Ids
      BY <3>2, ConstantFacts
    <3> QED
      BY <1>1, <3>1, <3>2
  <2> QED
    BY <2>1
<1>5. Max(S) \in S /\ \A s \in S : s <= Max(S)
  BY <1>2, <1>4, MaxOfBounded, ConstantFacts
<1> QED
  BY <1>2, <1>3, <1>4, <1>5

-----------------------------------------------------------------------------
(* The type invariant.                                                     *)

LEMMA TableKept == [Next]_vars => UNCHANGED table
BY DEF Next, CallStarts, CallGoesOn, vars, kept, QueryAlgs, QueryPcrs, HasAlg, GetAlgProps,
       ForEachAlgProps, ForEachPcrBank, BeginQuery, Call, PageLimit, XferFails, SoundAnswer,
       DamagedAnswer, GetcapRaw, EntryRejected, ParseAlgs, ParsePcrs, ParseAlgsFind,
       ParsePcrsFind, ParseAlgProps, EndOfPage

PageOK ==
    /\ page.entries \in Seq(Entries)
    /\ page.count \in Nat /\ page.size \in Nat /\ page.more \in BOOLEAN
    /\ remain \in 0 .. page.size /\ parsed \in 0 .. page.count

\* The locals of a call that has ended, or not yet asked for a page.
Fresh == page = NoPage /\ remain = 0 /\ parsed = 0

LEMMA FreshIsOK == Fresh => PageOK
<1> SUFFICES ASSUME Fresh PROVE PageOK
  OBVIOUS
<1>1. page = NoPage /\ remain = 0 /\ parsed = 0
  BY DEF Fresh
<1>2. page.entries = <<>> /\ page.count = 0 /\ page.size = 0
  BY <1>1 DEF NoPage
<1>3. page.more = FALSE
  BY <1>1 DEF NoPage
<1>4. page.more \in BOOLEAN
  BY <1>3, Zenon
<1>5. page.entries \in Seq(Entries)
  BY <1>2
<1> QED
  BY <1>1, <1>2, <1>4, <1>5 DEF PageOK

\* A step reads an entry, accepts a page, or leaves no page behind.
LEMMA PageStep ==
    ASSUME Next
    PROVE  \/ Fresh'
           \/ InPage /\ EntryReadable /\ ReadEntry /\ page' = page
           \/ \E p \in SoundPages \cup DamagedPages :
                /\ page' = p /\ remain' = p.size - 9 /\ parsed' = 0
                /\ p.size \in 1 .. MAX_CMD_DATA /\ p.size >= 9
<1> USE DEF Fresh
<1>1. ASSUME CallStarts PROVE Fresh'
  BY <1>1 DEF CallStarts, QueryAlgs, QueryPcrs, HasAlg, GetAlgProps, ForEachAlgProps,
              ForEachPcrBank, BeginQuery, Call
<1>2. ASSUME PageLimit \/ XferFails \/ EntryRejected \/ ParseAlgProps PROVE Fresh'
  BY <1>2 DEF PageLimit, XferFails, EntryRejected, ParseAlgProps, Finish, End
<1>3. ASSUME NEW p \in SoundPages \cup DamagedPages, GetcapRaw(p)
      PROVE  \/ Fresh'
             \/ /\ page' = p /\ remain' = p.size - 9 /\ parsed' = 0
                /\ p.size \in 1 .. MAX_CMD_DATA /\ p.size >= 9
  BY <1>3 DEF GetcapRaw, RawSucceeds, PayloadStarts, End
<1>4. ASSUME ParseAlgs \/ ParsePcrs PROVE InPage /\ EntryReadable /\ ReadEntry /\ page' = page
  BY <1>4 DEF ParseAlgs, ParsePcrs
<1>5. ASSUME Callback PROVE Fresh' \/ (ReadEntry /\ page' = page)
  BY <1>5 DEF Callback, Finish, End
<1>6. ASSUME ParseAlgsFind \/ ParsePcrsFind
      PROVE  Fresh' \/ (InPage /\ EntryReadable /\ ReadEntry /\ page' = page)
  BY <1>5, <1>6 DEF ParseAlgsFind, ParsePcrsFind
<1>7. ASSUME EndOfPage PROVE Fresh'
  BY <1>7 DEF EndOfPage, AfterPage, Finish, End
<1> QED
  BY <1>1, <1>2, <1>3, <1>4, <1>6, <1>7
     DEF Next, CallGoesOn, SoundAnswer, DamagedAnswer

LEMMA NextPage == TypeInv /\ [Next]_vars => PageOK'
<1> SUFFICES ASSUME TypeInv, [Next]_vars PROVE PageOK'
  OBVIOUS
<1>0. TypeOK /\ PageOK
  BY DEF TypeInv, TypeOK, PageOK
<1>1. table' = table
  BY TableKept
<1>2. Entries' = Entries
  BY <1>1 DEF Entries
<1>3. CASE UNCHANGED vars
  BY <1>0, <1>2, <1>3 DEF PageOK, vars
<1>4. CASE Fresh'
  BY <1>4, FreshIsOK, PTL
<1>5. CASE InPage /\ EntryReadable /\ ReadEntry /\ page' = page
  <2>1. parsed < Len(page.entries) /\ remain >= EntrySize(Cap(api), Entry)
    BY <1>5 DEF EntryReadable
  <2>2. EntrySize(Cap(api), Entry) \in Nat
    BY <2>1, EntryFacts DEF EntrySize
  <2> QED
    BY <1>0, <1>2, <1>5, <2>1, <2>2 DEF PageOK, ReadEntry, InPage
<1>6. CASE \E p \in SoundPages \cup DamagedPages :
             /\ page' = p /\ remain' = p.size - 9 /\ parsed' = 0
             /\ p.size \in 1 .. MAX_CMD_DATA /\ p.size >= 9
  BY SMTT(30), <1>0, <1>2, <1>6, SoundFacts, DamagedFacts, ConstantFacts DEF PageOK
<1> QED
  BY <1>3, <1>4, <1>5, <1>6, PageStep

LEMMA LoopStep ==
    ASSUME Next
    PROVE  \/ loop' = loop
           \/ loop' = [loop EXCEPT !.last = 0, !.pages = 0]
           \/ EntryReadable /\ loop' = [loop EXCEPT !.last = Entry.id]
           \/ \E n \in Ids \cup {0} : loop' = [property |-> n, last |-> 0, pages |-> 0]
           \/ /\ pc = "entries" /\ api # "get_alg_props"
              /\ loop' = [loop EXCEPT !.property = loop.last + 1, !.pages = loop.pages + 1]
<1>1. ASSUME CallStarts
      PROVE  \E n \in Ids \cup {0} : loop' = [property |-> n, last |-> 0, pages |-> 0]
  BY <1>1 DEF CallStarts, QueryAlgs, QueryPcrs, HasAlg, GetAlgProps, ForEachAlgProps,
              ForEachPcrBank, BeginQuery, Call
<1>2. ASSUME PageLimit \/ XferFails \/ EntryRejected \/ ParseAlgProps
      PROVE  loop' = [loop EXCEPT !.last = 0, !.pages = 0]
  BY <1>2 DEF PageLimit, XferFails, EntryRejected, ParseAlgProps, Finish, End
<1>3. ASSUME NEW p, GetcapRaw(p)
      PROVE  loop' = loop \/ loop' = [loop EXCEPT !.last = 0, !.pages = 0]
  BY <1>3 DEF GetcapRaw, End
<1>4. ASSUME ParseAlgs \/ ParsePcrs
      PROVE  EntryReadable /\ loop' = [loop EXCEPT !.last = Entry.id]
  BY <1>4 DEF ParseAlgs, ParsePcrs, ReadEntry
<1>5. ASSUME Callback
      PROVE  \/ loop' = [loop EXCEPT !.last = 0, !.pages = 0]
             \/ loop' = [loop EXCEPT !.last = Entry.id]
  BY <1>5 DEF Callback, Finish, End, ReadEntry
<1>6. ASSUME ParseAlgsFind \/ ParsePcrsFind
      PROVE  \/ loop' = [loop EXCEPT !.last = 0, !.pages = 0]
             \/ EntryReadable /\ loop' = [loop EXCEPT !.last = Entry.id]
  BY <1>5, <1>6 DEF ParseAlgsFind, ParsePcrsFind, ReadEntry
<1>7. ASSUME EndOfPage
      PROVE  \/ loop' = [loop EXCEPT !.last = 0, !.pages = 0]
             \/ /\ pc = "entries" /\ api # "get_alg_props"
                /\ loop' = [loop EXCEPT !.property = loop.last + 1, !.pages = loop.pages + 1]
  BY <1>7 DEF EndOfPage, AfterPage, Finish, End, NextProperty
<1> QED
  BY <1>1, <1>2, <1>3, <1>4, <1>6, <1>7
     DEF Next, CallGoesOn, SoundAnswer, DamagedAnswer

LoopOK == loop \in [property : Nat, last : Nat, pages : 0 .. TPM_MAX_PAGES]

LEMMA NextLoop == TypeInv /\ CallInv /\ [Next]_vars => LoopOK'
<1> SUFFICES ASSUME TypeInv, CallInv, [Next]_vars PROVE LoopOK'
  OBVIOUS
<1>0. LoopOK
  BY DEF TypeInv, TypeOK, LoopOK
<1> USE DEF LoopOK
<1>6. TPM_MAX_PAGES \in Nat /\ 0 \in 0 .. TPM_MAX_PAGES
  BY ConstantFacts
<1>1. CASE loop' = loop
  BY <1>0, <1>1
<1>2. CASE loop' = [loop EXCEPT !.last = 0, !.pages = 0]
  BY <1>0, <1>2, <1>6
<1>3. CASE EntryReadable /\ loop' = [loop EXCEPT !.last = Entry.id]
  BY <1>0, <1>3, EntryFacts DEF EntryReadable
<1>4. CASE \E n \in Ids \cup {0} : loop' = [property |-> n, last |-> 0, pages |-> 0]
  <2>1. PICK n \in Ids \cup {0} : loop' = [property |-> n, last |-> 0, pages |-> 0]
    BY <1>4
  <2>2. n \in Nat
    BY ConstantFacts
  <2> QED
    BY <2>1, <2>2, <1>6
<1>5. CASE /\ pc = "entries" /\ api # "get_alg_props"
           /\ loop' = [loop EXCEPT !.property = loop.last + 1, !.pages = loop.pages + 1]
  <2>1. loop.pages < TPM_MAX_PAGES
    BY <1>5 DEF CallInv
  <2>2. loop.last + 1 \in Nat /\ loop.pages + 1 \in 0 .. TPM_MAX_PAGES
    BY <1>0, <1>6, <2>1
  <2> QED
    BY <1>0, <1>5, <2>2
<1> QED
  BY <1>1, <1>2, <1>3, <1>4, <1>5, LoopStep DEF vars

\* What the caller passed and what it gets back.
CallerOK ==
    /\ table \in Tables /\ api \in Apis
    /\ masks \in [set : Values, clear : Values]
    /\ pc \in {"request", "entries", "done"} /\ ret \in Returns
    /\ visited \in Seq(Ids) /\ found \in BOOLEAN /\ clean \in BOOLEAN

LEMMA MasksAreValues == NoMasks \in [set : Values, clear : Values]
                        /\ [set : MaskValues, clear : MaskValues] \subseteq [set : Values, clear : Values]
<1>1. MaskValues \subseteq Values
  BY GetCapabilityAssumption, Zenon
<1> QED
  BY <1>1 DEF NoMasks, Values

LEMMA NextCaller == TypeInv /\ [Next]_vars => CallerOK'
<1> SUFFICES ASSUME TypeInv, [Next]_vars PROVE CallerOK'
  OBVIOUS
<1>0. CallerOK
  BY DEF TypeInv, TypeOK, CallerOK
<1> USE DEF CallerOK, Returns, Apis, Queries, Finds
<1>t. table' \in Tables
  BY <1>0, TableKept
<1>b. <<>> \in Seq(Ids)
  OBVIOUS
<1>f. FALSE \in BOOLEAN /\ TRUE \in BOOLEAN
  OBVIOUS
<1>1. ASSUME CallStarts PROVE CallerOK'
  <2> USE <1>t, <1>b, <1>f, MasksAreValues DEF Call
  <2>1. ASSUME NEW a \in Queries, NEW ids, BeginQuery(a, ids) PROVE CallerOK'
    BY <2>1 DEF BeginQuery
  <2>2. CASE QueryAlgs \/ QueryPcrs \/ HasAlg
    BY <2>1, <2>2 DEF QueryAlgs, QueryPcrs, HasAlg
  <2>3. CASE GetAlgProps
    BY <2>3 DEF GetAlgProps
  <2>4. CASE ForEachAlgProps
    BY <2>4 DEF ForEachAlgProps
  <2>5. CASE ForEachPcrBank
    BY <2>5 DEF ForEachPcrBank
  <2> QED
    BY <1>1, <2>2, <2>3, <2>4, <2>5 DEF CallStarts
<1>2. ASSUME PageLimit \/ XferFails \/ EntryRejected \/ ParseAlgProps PROVE CallerOK'
  BY <1>2, <1>0, <1>f, <1>t
     DEF PageLimit, XferFails, EntryRejected, ParseAlgProps, Finish, End, kept
<1>3. ASSUME SoundAnswer \/ DamagedAnswer PROVE CallerOK'
  BY ZenonT(60), <1>3, <1>0, <1>b, <1>f, <1>t DEF SoundAnswer, DamagedAnswer, GetcapRaw, End
<1>4. ASSUME ParseAlgs \/ ParsePcrs PROVE CallerOK'
  BY <1>4, <1>0, <1>t DEF ParseAlgs, ParsePcrs, kept
<1>5. ASSUME ParseAlgsFind \/ ParsePcrsFind PROVE CallerOK'
  <2>1. visited' \in Seq(Ids)
    <3>1. Entry.id \in Ids
      BY <1>5, EntryFacts DEF ParseAlgsFind, ParsePcrsFind, EntryReadable
    <3>2. visited' \in {visited, Append(visited, Entry.id)}
      BY <1>5 DEF ParseAlgsFind, ParsePcrsFind, Callback
    <3> QED
      BY <1>0, <3>1, <3>2
  <2>2. UNCHANGED <<api, masks, clean>>
    BY <1>5 DEF ParseAlgsFind, ParsePcrsFind, kept
  <2>3. /\ pc' \in {"request", "entries", "done"} /\ ret' \in Returns
        /\ found' = found \/ found' \in BOOLEAN
    BY <1>5, <1>0, Zenon DEF ParseAlgsFind, ParsePcrsFind, Callback, Finish, End
  <2> QED
    BY <1>0, <1>t, <2>1, <2>2, <2>3
<1>6. ASSUME EndOfPage PROVE CallerOK'
  BY <1>6, <1>0, <1>t DEF EndOfPage, AfterPage, Finish, End, kept
<1>7. ASSUME UNCHANGED vars PROVE CallerOK'
  BY <1>7, <1>0 DEF vars
<1> QED
  BY <1>1, <1>2, <1>3, <1>4, <1>5, <1>6, <1>7 DEF Next, CallGoesOn

-----------------------------------------------------------------------------
(* Queries.                                                                *)

LEMMA SeqOfFunction ==
    ASSUME NEW T, NEW n \in Nat, NEW f \in [1 .. n -> T]
    PROVE  f \in Seq(T) /\ Len(f) = n
OBVIOUS

LEMMA ValuesFacts == {} \in Values /\ Enabled \in Values /\ \A a : Before(a) \in Values
<1>1. {} \in Values /\ Enabled \in Values
  BY DEF Values, Enabled
<1> QED
  BY <1>1 DEF Before

\* The identifiers of a query, whatever its values.
IdsOf(q) == [k \in DOMAIN q |-> q[k].id]

LEMMA ClearedFacts ==
    ASSUME NEW a, NEW ids \in Seq(Ids)
    PROVE  /\ Cleared(a, ids) \in Seq([id : Ids, val : Values])
           /\ DOMAIN Cleared(a, ids) = DOMAIN ids /\ Len(Cleared(a, ids)) = Len(ids)
           /\ IdsOf(Cleared(a, ids)) = ids
           /\ \A k \in DOMAIN ids :
                Cleared(a, ids)[k].val = IF k \in Items(a, ids) THEN {} ELSE Before(a)
<1> DEFINE n == Len(ids)
           q == Cleared(a, ids)
<1>1. n \in Nat /\ DOMAIN ids = 1 .. n /\ \A k \in 1 .. n : ids[k] \in Ids
  OBVIOUS
<1>2. q = [k \in 1 .. n |->
             [id |-> ids[k], val |-> IF k \in Items(a, ids) THEN {} ELSE Before(a)]]
  BY <1>1 DEF Cleared
<1> HIDE DEF n, q
<1>3. \A k \in 1 .. n :
        /\ q[k] = [id |-> ids[k], val |-> IF k \in Items(a, ids) THEN {} ELSE Before(a)]
        /\ q[k].id = ids[k]
        /\ q[k].val = IF k \in Items(a, ids) THEN {} ELSE Before(a)
  BY <1>2
<1>4. \A k \in 1 .. n : q[k] \in [id : Ids, val : Values]
  <2> SUFFICES ASSUME NEW k \in 1 .. n PROVE q[k] \in [id : Ids, val : Values]
    OBVIOUS
  <2>1. (IF k \in Items(a, ids) THEN {} ELSE Before(a)) \in Values
    BY ValuesFacts
  <2>2. \E w \in Values : q[k] = [id |-> ids[k], val |-> w]
    BY <1>3, <2>1, Zenon
  <2>3. ids[k] \in Ids
    BY <1>1
  <2> QED
    BY <2>2, <2>3
<1>5. q \in [1 .. n -> [id : Ids, val : Values]]
  BY <1>2, <1>4
<1>6. q \in Seq([id : Ids, val : Values]) /\ Len(q) = n /\ DOMAIN q = 1 .. n
  BY <1>1, <1>5, SeqOfFunction
<1>7. IdsOf(q) = [k \in 1 .. n |-> ids[k]]
  BY <1>3, <1>6 DEF IdsOf
<1>8. [k \in 1 .. n |-> ids[k]] = ids
  BY <1>1
<1> QED
  BY <1>1, <1>3, <1>6, <1>7, <1>8 DEF n, q

LEMMA AnsweredFacts ==
    ASSUME TypeOK, NEW id, NEW v \in Values
    PROVE  /\ Answered(id, v) \in Seq([id : Ids, val : Values])
           /\ DOMAIN Answered(id, v) = DOMAIN query /\ Len(Answered(id, v)) = Len(query)
           /\ IdsOf(Answered(id, v)) = QueryIds
           /\ \A k \in DOMAIN query :
                /\ Answered(id, v)[k].id = query[k].id
                /\ Answered(id, v)[k].val =
                     IF k \in Items(api, QueryIds) /\ query[k].id = id THEN v ELSE query[k].val
<1> DEFINE n == Len(query)
           q == Answered(id, v)
<1>0. query \in Seq([id : Ids, val : Values])
  BY DEF TypeOK
<1>1. n \in Nat /\ DOMAIN query = 1 .. n
  BY <1>0
<1>2. q = [k \in 1 .. n |-> IF k \in Items(api, QueryIds) /\ query[k].id = id
                           THEN [query[k] EXCEPT !.val = v] ELSE query[k]]
  BY <1>1 DEF Answered
<1> HIDE DEF n, q
<1>3. \A k \in 1 .. n : query[k] \in [id : Ids, val : Values]
  BY <1>1, QueryFacts
<1>4. ASSUME NEW k \in 1 .. n
      PROVE  /\ q[k] \in [id : Ids, val : Values] /\ q[k].id = query[k].id
             /\ q[k].val = IF k \in Items(api, QueryIds) /\ query[k].id = id
                           THEN v ELSE query[k].val
  <2>1. CASE k \in Items(api, QueryIds) /\ query[k].id = id
    <3>1. q[k] = [query[k] EXCEPT !.val = v]
      BY <1>2, <2>1
    <3> QED
      BY <1>3, <2>1, <3>1
  <2>2. CASE ~(k \in Items(api, QueryIds) /\ query[k].id = id)
    <3>1. q[k] = query[k]
      BY <1>2, <2>2
    <3> QED
      BY <1>3, <2>2, <3>1
  <2> QED
    BY <2>1, <2>2
<1>5. q \in [1 .. n -> [id : Ids, val : Values]]
  BY <1>2, <1>4
<1>6. q \in Seq([id : Ids, val : Values]) /\ Len(q) = n /\ DOMAIN q = 1 .. n
  BY <1>1, <1>5, SeqOfFunction
<1>7. IdsOf(q) = QueryIds
  BY <1>1, <1>4, <1>6 DEF IdsOf, QueryIds
<1> QED
  BY <1>1, <1>4, <1>6, <1>7 DEF n, q

\* A step leaves the query alone, clears a new one or answers one entry.
LEMMA QueryStep ==
    ASSUME [Next]_vars
    PROVE  \/ query' = query
           \/ query' = <<>>
           \/ \E a \in Queries, ids \in QueryArrays \cup {<<d, TPM_ALG_NULL>> : d \in Ids} :
                api' = a /\ query' = Cleared(a, ids)
           \/ /\ api' = api /\ EntryReadable
              /\ \E v \in {Enabled, Entry.val} : query' = Answered(Entry.id, v)
<1>1. ASSUME CallStarts
      PROVE  \/ query' = <<>>
             \/ \E a \in Queries, ids \in QueryArrays \cup {<<d, TPM_ALG_NULL>> : d \in Ids} :
                  api' = a /\ query' = Cleared(a, ids)
  BY <1>1 DEF CallStarts, QueryAlgs, QueryPcrs, HasAlg, GetAlgProps, ForEachAlgProps,
              ForEachPcrBank, BeginQuery, Call, Queries
<1>2. ASSUME ParseAlgs \/ ParsePcrs
      PROVE  /\ api' = api /\ EntryReadable
             /\ \E v \in {Enabled, Entry.val} : query' = Answered(Entry.id, v)
  BY <1>2 DEF ParseAlgs, ParsePcrs, kept
<1>3. ASSUME \/ PageLimit \/ XferFails \/ SoundAnswer \/ DamagedAnswer \/ EntryRejected
             \/ ParseAlgsFind \/ ParsePcrsFind \/ ParseAlgProps \/ EndOfPage
             \/ UNCHANGED vars
      PROVE  query' = query
  BY <1>3 DEF PageLimit, XferFails, SoundAnswer, DamagedAnswer, GetcapRaw, EntryRejected,
              ParseAlgsFind, ParsePcrsFind, ParseAlgProps, EndOfPage, vars
<1> QED
  BY <1>1, <1>2, <1>3 DEF Next, CallGoesOn

LEMMA ArraysFacts ==
    \A ids \in QueryArrays \cup {<<d, TPM_ALG_NULL>> : d \in Ids} : ids \in Seq(Ids)
<1>1. QueryArrays \subseteq Seq(Ids)
  BY GetCapabilityAssumption, Zenon
<1>2. \A d \in Ids : <<d, TPM_ALG_NULL>> \in Seq(Ids)
  BY ConstantFacts
<1> QED
  BY <1>1, <1>2

LEMMA NextQuery ==
    TypeInv /\ [Next]_vars => query' \in Seq([id : Ids, val : Values])
<1> SUFFICES ASSUME TypeInv, [Next]_vars PROVE query' \in Seq([id : Ids, val : Values])
  OBVIOUS
<1>1. CASE query' = query
  BY <1>1 DEF TypeInv, TypeOK
<1>2. CASE query' = <<>>
  BY <1>2
<1>3. CASE \E a \in Queries, ids \in QueryArrays \cup {<<d, TPM_ALG_NULL>> : d \in Ids} :
             api' = a /\ query' = Cleared(a, ids)
  <2>1. PICK a \in Queries, ids \in QueryArrays \cup {<<d, TPM_ALG_NULL>> : d \in Ids} :
             query' = Cleared(a, ids)
    BY <1>3, Zenon
  <2>2. ids \in Seq(Ids)
    BY ArraysFacts, Zenon
  <2> QED
    BY <2>1, <2>2, ClearedFacts
<1>4. CASE /\ api' = api /\ EntryReadable
           /\ \E v \in {Enabled, Entry.val} : query' = Answered(Entry.id, v)
  <2>1. PICK v \in {Enabled, Entry.val} : query' = Answered(Entry.id, v)
    BY <1>4
  <2>2. v \in Values
    BY <1>4, EntryFacts, ValuesFacts DEF EntryReadable
  <2> QED
    BY <2>1, <2>2, AnsweredFacts DEF TypeInv
<1> QED
  BY <1>1, <1>2, <1>3, <1>4, QueryStep

-----------------------------------------------------------------------------
(* The outputs and the progress of a call.                                 *)

LEMMA OutputsFacts ==
    /\ Untouched \in Outputs /\ Unsupported \in Outputs
    /\ \A v \in Values : Supported(v) \in Outputs
<1>1. {} \in Values
  BY ValuesFacts
<1>2. Untouched \in Outputs
  BY <1>1 DEF Untouched, Outputs
<1>3. Unsupported \in Outputs
  BY <1>1 DEF Unsupported, Outputs
<1>4. \A v \in Values : Supported(v) \in Outputs
  BY DEF Supported, Outputs
<1> QED
  BY <1>2, <1>3, <1>4

\* What a step does to the outputs.
LEMMA OutStep ==
    ASSUME [Next]_vars
    PROVE  \/ out' = out
           \/ out' = Untouched
           \/ out' = Unsupported
           \/ EntryReadable /\ out' = Supported(Entry.val)
           \/ api = "has_alg" /\ query[1].val # {} /\ out' = Supported({})
<1>0. ASSUME NEW r, Finish(r)
      PROVE  \/ out' = out \/ out' = Unsupported
             \/ api = "has_alg" /\ query[1].val # {} /\ out' = Supported({})
  BY <1>0 DEF Finish
<1>1. ASSUME CallStarts PROVE out' = Untouched \/ out' = Unsupported
  BY <1>1 DEF CallStarts, QueryAlgs, QueryPcrs, HasAlg, GetAlgProps, ForEachAlgProps,
              ForEachPcrBank
<1>2. ASSUME PageLimit \/ XferFails \/ EntryRejected
      PROVE  \/ out' = out \/ out' = Unsupported
             \/ api = "has_alg" /\ query[1].val # {} /\ out' = Supported({})
  BY <1>0, <1>2 DEF PageLimit, XferFails, EntryRejected
<1>3. ASSUME SoundAnswer \/ DamagedAnswer PROVE out' = out \/ out' = Unsupported
  BY <1>3 DEF SoundAnswer, DamagedAnswer, GetcapRaw
<1>4. ASSUME ParseAlgs \/ ParsePcrs \/ UNCHANGED vars PROVE out' = out
  BY <1>4 DEF ParseAlgs, ParsePcrs, vars
<1>5. ASSUME ParseAlgsFind \/ ParsePcrsFind \/ EndOfPage
      PROVE  \/ out' = out \/ out' = Unsupported
             \/ api = "has_alg" /\ query[1].val # {} /\ out' = Supported({})
  BY <1>0, <1>5 DEF ParseAlgsFind, ParsePcrsFind, Callback, EndOfPage, AfterPage
<1>6. ASSUME ParseAlgProps
      PROVE  out' = out \/ (EntryReadable /\ out' = Supported(Entry.val))
  BY <1>6 DEF ParseAlgProps
<1> QED
  BY <1>1, <1>2, <1>3, <1>4, <1>5, <1>6 DEF Next, CallGoesOn

LEMMA NextOut == TypeInv /\ [Next]_vars => out' \in Outputs
<1> SUFFICES ASSUME TypeInv, [Next]_vars PROVE out' \in Outputs
  OBVIOUS
<1>1. out \in Outputs
  BY DEF TypeInv, TypeOK
<1>2. EntryReadable => Entry.val \in Values
  BY EntryFacts DEF EntryReadable
<1>3. {} \in Values
  BY ValuesFacts
<1> QED
  BY <1>1, <1>2, <1>3, OutStep, OutputsFacts

LEMMA NextType == TypeInv /\ CallInv /\ [Next]_vars => TypeInv'
BY NextPage, NextLoop, NextCaller, NextQuery, NextOut
   DEF TypeInv, TypeOK, PageOK, LoopOK, CallerOK

\* Nothing but a new call changes what the call is about.
LEMMA GoesOnKeeps ==
    ASSUME CallGoesOn \/ UNCHANGED vars
    PROVE  UNCHANGED <<table, api, masks>>
BY DEF CallGoesOn, vars, kept, PageLimit, XferFails, SoundAnswer, DamagedAnswer, GetcapRaw,
       EntryRejected, ParseAlgs, ParsePcrs, ParseAlgsFind, ParsePcrsFind, ParseAlgProps,
       EndOfPage

LEMMA GoesOnQuery ==
    ASSUME TypeInv, CallGoesOn \/ UNCHANGED vars
    PROVE  \/ query' = query
           \/ /\ InPage /\ EntryReadable /\ Entry.val \in Values
              /\ \/ api \in {"query_algs", "has_alg"} /\ query' = Answered(Entry.id, Enabled)
                 \/ api = "query_pcrs" /\ query' = Answered(Entry.id, Entry.val)
<1>1. ASSUME ParseAlgs \/ ParsePcrs
      PROVE  /\ InPage /\ EntryReadable /\ Entry.val \in Values
             /\ \/ api \in {"query_algs", "has_alg"} /\ query' = Answered(Entry.id, Enabled)
                \/ api = "query_pcrs" /\ query' = Answered(Entry.id, Entry.val)
  BY <1>1, EntryFacts DEF ParseAlgs, ParsePcrs, EntryReadable
<1>2. ASSUME \/ PageLimit \/ XferFails \/ SoundAnswer \/ DamagedAnswer \/ EntryRejected
             \/ ParseAlgsFind \/ ParsePcrsFind \/ ParseAlgProps \/ EndOfPage
             \/ UNCHANGED vars
      PROVE  query' = query
  BY <1>2 DEF PageLimit, XferFails, SoundAnswer, DamagedAnswer, GetcapRaw, EntryRejected,
              ParseAlgsFind, ParsePcrsFind, ParseAlgProps, EndOfPage, vars
<1> QED
  BY <1>1, <1>2 DEF CallGoesOn

LEMMA NextCall == TypeInv /\ CallInv /\ [Next]_vars => CallInv'
<1> SUFFICES ASSUME TypeInv, CallInv, [Next]_vars PROVE CallInv'
  OBVIOUS
<1>0. loop \in [property : Nat, last : Nat, pages : 0 .. TPM_MAX_PAGES]
  BY DEF TypeInv, TypeOK
<1>1. ASSUME CallStarts PROVE CallInv'
  <2>1. ASSUME NEW a \in Queries, NEW ids \in Seq(Ids), BeginQuery(a, ids),
               out' = Untouched \/ pc' = "done", a = "has_alg" => Len(ids) = 2
        PROVE  CallInv'
    <3>1. Len(query') = Len(ids)
      BY <2>1, ClearedFacts DEF BeginQuery, Call
    <3> QED
      BY <2>1, <3>1 DEF BeginQuery, Call, CallInv, Queries
  <2>2. QueryArrays \subseteq Seq(Ids) /\ \A d \in Ids : <<d, TPM_ALG_NULL>> \in Seq(Ids)
    BY ArraysFacts
  <2>3. CASE QueryAlgs \/ QueryPcrs
    BY <2>1, <2>2, <2>3 DEF QueryAlgs, QueryPcrs, Queries
  <2>4. CASE HasAlg
    <3>1. PICK d \in Ids : BeginQuery("has_alg", <<d, TPM_ALG_NULL>>)
      BY <2>4 DEF HasAlg
    <3>2. out' = Untouched \/ pc' = "done"
      BY <2>4, <3>1 DEF HasAlg, BeginQuery
    <3>3. Len(<<d, TPM_ALG_NULL>>) = 2
      OBVIOUS
    <3> QED
      BY <2>1, <2>2, <3>1, <3>2, <3>3 DEF Queries
  <2>5. CASE GetAlgProps \/ ForEachAlgProps \/ ForEachPcrBank
    BY <2>5 DEF GetAlgProps, ForEachAlgProps, ForEachPcrBank, Call, CallInv
  <2> QED
    BY <1>1, <2>3, <2>4, <2>5 DEF CallStarts
<1>2. ASSUME CallGoesOn \/ UNCHANGED vars PROVE api' = api /\ (api = "has_alg" => Len(query') = 2)
  <2>1. api' = api
    BY <1>2, GoesOnKeeps
  <2>2. Len(query') = Len(query)
    BY <1>2, GoesOnQuery, AnsweredFacts, ValuesFacts DEF TypeInv
  <2> QED
    BY <2>1, <2>2 DEF CallInv
<1>3. ASSUME PageLimit \/ XferFails \/ EntryRejected \/ ParseAlgProps PROVE CallInv'
  BY <1>2, <1>3 DEF CallGoesOn, PageLimit, XferFails, EntryRejected, ParseAlgProps, Finish,
                    End, CallInv
<1>4. ASSUME SoundAnswer \/ DamagedAnswer PROVE CallInv'
  <2>1. PICK p : GetcapRaw(p)
    BY <1>4 DEF SoundAnswer, DamagedAnswer
  <2> QED
    BY <1>0, <1>2, <1>4, <2>1 DEF CallGoesOn, GetcapRaw, End, CallInv, PagesLeft
<1>5. ASSUME ParseAlgs \/ ParsePcrs PROVE CallInv'
  BY <1>0, <1>2, <1>5 DEF CallGoesOn, ParseAlgs, ParsePcrs, ReadEntry, InPage, CallInv
<1>6. ASSUME ParseAlgsFind \/ ParsePcrsFind PROVE CallInv'
  BY <1>0, <1>2, <1>6 DEF CallGoesOn, ParseAlgsFind, ParsePcrsFind, Callback, Finish, End,
                          ReadEntry, InPage, CallInv
<1>7. ASSUME EndOfPage PROVE CallInv'
  BY <1>2, <1>7 DEF CallGoesOn, EndOfPage, AfterPage, Finish, End, CallInv
<1>8. ASSUME UNCHANGED vars PROVE CallInv'
  BY <1>8 DEF vars, CallInv
<1> QED
  BY <1>1, <1>3, <1>4, <1>5, <1>6, <1>7, <1>8 DEF Next, CallGoesOn

-----------------------------------------------------------------------------
(* Nothing is invented.                                                    *)

LEMMA SameQuestion ==
    ASSUME TypeInv, CallGoesOn \/ UNCHANGED vars
    PROVE  /\ DOMAIN query' = DOMAIN query
           /\ \A k \in DOMAIN query : query'[k].id = query[k].id
           /\ Items(api, QueryIds)' = Items(api, QueryIds)
           /\ MaxId' = MaxId
           /\ Cap(api') = Cap(api)
           /\ \A d : Truth(d)' = Truth(d)
           /\ Wanted' = Wanted
<1>1. table' = table /\ api' = api /\ masks' = masks
  BY GoesOnKeeps
<1>2. /\ DOMAIN query' = DOMAIN query
      /\ \A k \in DOMAIN query : query'[k].id = query[k].id
      /\ QueryIds' = QueryIds
  <2>1. CASE query' = query
    BY <2>1 DEF QueryIds
  <2>2. ASSUME NEW v \in Values, query' = Answered(Entry.id, v)
        PROVE  /\ DOMAIN query' = DOMAIN query
               /\ \A k \in DOMAIN query : query'[k].id = query[k].id
               /\ QueryIds' = QueryIds
    <3>1. IdsOf(query') = QueryIds
      BY <2>2, AnsweredFacts DEF TypeInv
    <3> QED
      BY <2>2, <3>1, AnsweredFacts DEF TypeInv, IdsOf, QueryIds
  <2> QED
    BY <2>1, <2>2, GoesOnQuery, ValuesFacts
<1>3. Items(api, QueryIds)' = Items(api, QueryIds)
  BY <1>1, <1>2 DEF Items
<1>4. \A k \in Items(api, QueryIds) : k \in DOMAIN query
  BY QueryFacts DEF TypeInv
<1>5. {query[k].id : k \in Items(api, QueryIds)}' = {query[k].id : k \in Items(api, QueryIds)}
  BY <1>2, <1>3, <1>4
<1>6. MaxId' = MaxId
  BY <1>5 DEF MaxId
<1>7. \A d : Truth(d)' = Truth(d)
  BY <1>1 DEF Truth
<1>8. Wanted' = Wanted
  BY <1>1 DEF Wanted
<1> QED
  BY <1>1, <1>2, <1>3, <1>6, <1>7, <1>8

QueryTrue ==
    \A k \in DOMAIN query :
        query[k].val \in IF k \in Items(api, QueryIds) THEN {{}, Truth(query[k].id)}
                         ELSE {Before(api)}

OutTrue ==
    /\ out.written /\ api = "has_alg" => ret = "SUCCESS"
    /\ out.supported =>
         IF api = "has_alg" THEN query[1].id \in DOMAIN table
         ELSE /\ loop.property \in DOMAIN table
              /\ out = Supported(table[loop.property].val)

LEMMA EntryIsTrue ==
    ASSUME TypeInv, EntryReadable
    PROVE  /\ Cap(api) = "algs" => Truth(Entry.id) = Enabled
           /\ Cap(api) # "algs" => Truth(Entry.id) = Entry.val
BY EntryFacts DEF EntryReadable, Truth

LEMMA BeginQueryTrue ==
    ASSUME NEW a, NEW ids \in Seq(Ids), api' = a, query' = Cleared(a, ids)
    PROVE  QueryTrue'
<1>1. QueryIds' = ids
  BY ClearedFacts DEF QueryIds, IdsOf
<1>2. Items(api, QueryIds)' = Items(a, ids)
  BY <1>1 DEF Items
<1>3. Before(api)' = Before(a)
  BY DEF Before
<1> QED
  BY <1>2, <1>3, ClearedFacts DEF QueryTrue

LEMMA NextQueryTrue == TypeInv /\ QueryTrue /\ [Next]_vars => QueryTrue'
<1> SUFFICES ASSUME TypeInv, QueryTrue, [Next]_vars PROVE QueryTrue'
  OBVIOUS
<1>1. ASSUME CallStarts PROVE QueryTrue'
  <2>1. CASE QueryAlgs \/ QueryPcrs \/ HasAlg
    BY <2>1, BeginQueryTrue, ArraysFacts
       DEF QueryAlgs, QueryPcrs, HasAlg, BeginQuery, Call
  <2>2. CASE GetAlgProps \/ ForEachAlgProps \/ ForEachPcrBank
    <3>1. query' = <<>>
      BY <2>2 DEF GetAlgProps, ForEachAlgProps, ForEachPcrBank, Call
    <3>2. DOMAIN query' = {}
      BY <3>1
    <3> QED
      BY <3>2 DEF QueryTrue
  <2> QED
    BY <1>1, <2>1, <2>2 DEF CallStarts
<1>2. ASSUME CallGoesOn \/ UNCHANGED vars PROVE QueryTrue'
  <2> SUFFICES ASSUME NEW k \in DOMAIN query
               PROVE  query'[k].val \in IF k \in Items(api, QueryIds)
                                        THEN {{}, Truth(query[k].id)} ELSE {Before(api)}
    BY <1>2, SameQuestion, GoesOnKeeps DEF QueryTrue, Before
  <2>1. CASE query' = query
    BY <2>1 DEF QueryTrue
  <2>2. ASSUME NEW v \in Values, query' = Answered(Entry.id, v), v = Truth(Entry.id)
        PROVE  query'[k].val \in IF k \in Items(api, QueryIds)
                                 THEN {{}, Truth(query[k].id)} ELSE {Before(api)}
    <3>1. query'[k].val = IF k \in Items(api, QueryIds) /\ query[k].id = Entry.id
                          THEN v ELSE query[k].val
      BY <2>2, AnsweredFacts DEF TypeInv
    <3> QED
      BY <2>2, <3>1 DEF QueryTrue
  <2> QED
    BY <1>2, <2>1, <2>2, GoesOnQuery, EntryIsTrue, ValuesFacts DEF Cap
<1> QED
  BY <1>1, <1>2 DEF Next

LEMMA OutputFields ==
    /\ ~Untouched.written /\ ~Untouched.supported
    /\ Unsupported.written /\ ~Unsupported.supported
    /\ \A v : Supported(v).written /\ Supported(v).supported
BY DEF Untouched, Unsupported, Supported

\* While a call runs it has claimed nothing.
LEMMA NoClaimYet ==
    ASSUME CallInv, pc # "done"
    PROVE  /\ ~out.supported /\ (api = "has_alg" => ~out.written)
           /\ api # "get_alg_props" => out = Untouched
BY OutputFields DEF CallInv

LEMMA HasAlgIsTrue ==
    ASSUME TypeInv, CallInv, QueryTrue, api = "has_alg", query[1].val # {}
    PROVE  query[1].id \in DOMAIN table
<1>1. 1 \in DOMAIN query
  <2>1. query \in Seq([id : Ids, val : Values]) /\ Len(query) = 2
    BY DEF TypeInv, TypeOK, CallInv
  <2> QED
    BY <2>1
<1>2. Before(api) = {}
  BY DEF Before
<1>3. query[1].val = Truth(query[1].id)
  BY <1>1, <1>2 DEF QueryTrue
<1> QED
  BY <1>3 DEF Truth

LEMMA FinishTrue ==
    ASSUME TypeInv, CallInv, QueryTrue, pc # "done", NEW r, Finish(r),
           UNCHANGED <<table, api, query>>
    PROVE  OutTrue'
<1>1. CASE api = "has_alg" /\ r = "SUCCESS"
  <2>1. ret' = "SUCCESS"
    BY <1>1 DEF Finish, End
  <2>2. CASE query[1].val # {}
    BY <1>1, <2>1, <2>2, HasAlgIsTrue DEF OutTrue
  <2>3. CASE query[1].val = {}
    <3>1. out' = Unsupported
      BY <1>1, <2>3 DEF Finish
    <3> QED
      BY <1>1, <2>1, <3>1, OutputFields DEF OutTrue
  <2> QED
    BY <2>2, <2>3
<1>2. CASE ~(api = "has_alg" /\ r = "SUCCESS")
  <2>1. out' = out
    BY <1>2 DEF Finish
  <2> QED
    BY <2>1, NoClaimYet DEF OutTrue
<1> QED
  BY <1>1, <1>2

LEMMA NextOutTrue ==
    TypeInv /\ CallInv /\ QueryTrue /\ OutTrue /\ [Next]_vars => OutTrue'
<1> SUFFICES ASSUME TypeInv, CallInv, QueryTrue, OutTrue, [Next]_vars PROVE OutTrue'
  OBVIOUS
<1>1. ASSUME CallStarts PROVE OutTrue'
  <2>1. \/ out' = Untouched
        \/ out' = Unsupported /\ ret' = "SUCCESS"
    BY <1>1 DEF CallStarts, QueryAlgs, QueryPcrs, HasAlg, GetAlgProps, ForEachAlgProps,
                ForEachPcrBank
  <2> QED
    BY <2>1, OutputFields DEF OutTrue
<1>2. ASSUME out' = out, pc # "done", api' = api PROVE OutTrue'
  BY <1>2, NoClaimYet DEF OutTrue
<1>3. ASSUME PageLimit \/ XferFails \/ EntryRejected PROVE OutTrue'
  BY <1>3, FinishTrue DEF PageLimit, XferFails, EntryRejected, kept, InPage
<1>4. ASSUME SoundAnswer \/ DamagedAnswer PROVE OutTrue'
  <2>1. pc = "request" /\ api' = api
        /\ (out' = out \/ (api = "get_alg_props" /\ out' = Unsupported))
    BY <1>4 DEF SoundAnswer, DamagedAnswer, GetcapRaw
  <2> QED
    BY <1>2, <2>1, OutputFields DEF OutTrue
<1>5. ASSUME ParseAlgs \/ ParsePcrs PROVE OutTrue'
  BY <1>2, <1>5 DEF ParseAlgs, ParsePcrs, InPage, kept
<1>6. ASSUME ParseAlgsFind \/ ParsePcrsFind PROVE OutTrue'
  BY <1>2, <1>6, FinishTrue DEF ParseAlgsFind, ParsePcrsFind, Callback, InPage, kept
<1>7. ASSUME ParseAlgProps PROVE OutTrue'
  <2>1. pc = "entries" /\ api = "get_alg_props" /\ EntryReadable /\ api' = api
        /\ table' = table /\ loop' = [loop EXCEPT !.last = 0, !.pages = 0]
    BY <1>7 DEF ParseAlgProps, End, kept
  <2>2. loop'.property = loop.property
    BY <2>1 DEF TypeInv, TypeOK
  <2>3. CASE Entry.id = loop.property
    <3>1. out' = Supported(Entry.val)
      BY <1>7, <2>3 DEF ParseAlgProps
    <3>2. Entry.id \in DOMAIN table /\ Entry.val = table[Entry.id].val
      BY <2>1, EntryFacts DEF EntryReadable
    <3> QED
      BY <2>1, <2>2, <2>3, <3>1, <3>2 DEF OutTrue
  <2>4. CASE Entry.id # loop.property
    BY <1>2, <1>7, <2>1, <2>4 DEF ParseAlgProps
  <2> QED
    BY <2>3, <2>4
<1>8. ASSUME EndOfPage PROVE OutTrue'
  BY <1>2, <1>8, FinishTrue DEF EndOfPage, AfterPage, kept
<1>9. ASSUME UNCHANGED vars PROVE OutTrue'
  BY <1>9 DEF vars, OutTrue
<1> QED
  BY <1>1, <1>3, <1>4, <1>5, <1>6, <1>7, <1>8, <1>9 DEF Next, CallGoesOn

LEMMA NextNothing ==
    TypeInv /\ CallInv /\ NothingInvented /\ [Next]_vars => NothingInvented'
BY NextQueryTrue, NextOutTrue DEF NothingInvented, QueryTrue, OutTrue

-----------------------------------------------------------------------------
(* Sound pages.                                                            *)

LEMMA SoundKept ==
    ASSUME table' = table, api' = api, loop'.property = loop.property,
           SoundList(page'.entries, page'.more)
    PROVE  SoundList(page.entries, page.more)'
BY DEF SoundList, AlgsFrom, AllBanks, Listed, Distinct, Cap

LEMMA ReadEntryFacts ==
    ASSUME TypeInv, ReadEntry, EntryReadable
    PROVE  /\ loop'.last = Entry.id /\ loop'.property = loop.property
           /\ loop'.pages = loop.pages /\ parsed' = parsed + 1 /\ parsed \in Nat
BY DEF TypeInv, TypeOK, ReadEntry

LEMMA ReadEntryPage ==
    ASSUME TypeInv, PageInv, InPage, EntryReadable, ReadEntry,
           UNCHANGED <<table, api, clean, pc, page>>
    PROVE  PageInv'
<1>1. /\ loop'.last = Entry.id /\ loop'.property = loop.property
      /\ loop'.pages = loop.pages /\ parsed' = parsed + 1 /\ parsed \in Nat
  BY ReadEntryFacts
<1>2. page'.entries[parsed'].id = Entry.id
  BY <1>1 DEF Entry
<1> SUFFICES ASSUME clean PROVE PageInv'
  BY DEF PageInv
<1>3. pc = "entries"
  BY DEF InPage
<1>4. page.count = Len(page.entries) /\ SoundList(page.entries, page.more)
      /\ (Cap(api) = "pcrs" => loop.property = 0 /\ loop.pages = 0)
  BY <1>3 DEF PageInv
<1>5. SoundList(page.entries, page.more)'
  BY <1>1, <1>4, SoundKept
<1> QED
  BY <1>1, <1>2, <1>4, <1>5 DEF PageInv, Cap

LEMMA NextPageInv == TypeInv /\ PageInv /\ [Next]_vars => PageInv'
<1> SUFFICES ASSUME TypeInv, PageInv, [Next]_vars PROVE PageInv'
  OBVIOUS
<1>1. ASSUME CallStarts PROVE PageInv'
  <2>1. /\ pc' # "entries" /\ loop'.pages = 0
        /\ api' = "get_alg_props" \/ loop'.property = 0
    <3>1. ASSUME NEW a, NEW q, NEW n, Call(a, q, n)
          PROVE  loop'.pages = 0 /\ loop'.property = n /\ api' = a
      BY <3>1 DEF Call
    <3> QED
      BY <1>1, <3>1 DEF CallStarts, QueryAlgs, QueryPcrs, HasAlg, GetAlgProps,
                        ForEachAlgProps, ForEachPcrBank, BeginQuery
  <2> QED
    BY <2>1 DEF PageInv, Cap
<1>2. ASSUME pc' = "done" PROVE PageInv'
  BY <1>2 DEF PageInv
<1>3. ASSUME PageLimit \/ XferFails \/ EntryRejected \/ ParseAlgProps PROVE PageInv'
  BY <1>2, <1>3 DEF PageLimit, XferFails, EntryRejected, ParseAlgProps, Finish, End
<1>4. ASSUME SoundAnswer PROVE PageInv'
  <2>1. PICK p \in SoundPages : GetcapRaw(p) /\ clean' = clean
    BY <1>4 DEF SoundAnswer
  <2>2. CASE pc' = "entries" /\ page' = p /\ parsed' = 0 /\ loop' = loop
    <3>1. p.count = Len(p.entries) /\ SoundList(p.entries, p.more)
      BY SoundFacts DEF TypeInv
    <3>2. table' = table /\ api' = api /\ pc = "request"
      BY <2>1 DEF GetcapRaw
    <3>3. SoundList(page.entries, page.more)'
      BY <2>2, <3>1, <3>2, SoundKept
    <3> QED
      BY <2>1, <2>2, <3>1, <3>2, <3>3 DEF PageInv, Cap
  <2> QED
    BY <1>2, <2>1, <2>2 DEF GetcapRaw, End
<1>5. ASSUME DamagedAnswer PROVE PageInv'
  BY <1>5 DEF DamagedAnswer, PageInv
<1>6. ASSUME ParseAlgs \/ ParsePcrs PROVE PageInv'
  BY <1>6, ReadEntryPage DEF ParseAlgs, ParsePcrs, kept
<1>7. ASSUME ParseAlgsFind \/ ParsePcrsFind PROVE PageInv'
  BY <1>2, <1>7, ReadEntryPage DEF ParseAlgsFind, ParsePcrsFind, Callback, Finish, End, kept
<1>8. ASSUME EndOfPage PROVE PageInv'
  <2>1. CASE pc' = "done"
    BY <1>2, <2>1
  <2>2. CASE pc' # "done"
    <3>1. page.more /\ pc' = "request" /\ pc = "entries" /\ UNCHANGED <<api, clean>>
      BY <1>8, <2>2 DEF EndOfPage, AfterPage, AnotherPage, Finish, End, kept
    <3>2. clean => Cap(api) # "pcrs"
      BY <3>1 DEF PageInv, SoundList, AllBanks
    <3> QED
      BY <3>1, <3>2 DEF PageInv
  <2> QED
    BY <2>1, <2>2
<1>9. ASSUME UNCHANGED vars PROVE PageInv'
  <2>1. UNCHANGED <<table, api, loop, page, parsed, pc, clean>>
    BY <1>9 DEF vars
  <2> QED
    BY SMTT(30), <2>1 DEF PageInv, SoundList, AlgsFrom, AllBanks, Listed, Distinct, Cap
<1> QED
  BY <1>1, <1>3, <1>4, <1>5, <1>6, <1>7, <1>8, <1>9 DEF Next, CallGoesOn

-----------------------------------------------------------------------------
(* What the pages have told.                                               *)

\* A page received without a fault, entry by entry.
LEMMA CleanPage ==
    ASSUME TypeInv, PageInv, clean, pc = "entries"
    PROVE  /\ Len(page.entries) \in Nat /\ page.count = Len(page.entries)
           /\ parsed \in 0 .. Len(page.entries) /\ loop.property \in Nat
           /\ \A j \in 1 .. Len(page.entries) :
                page.entries[j].id \in DOMAIN table /\ page.entries[j].id \in Nat
           /\ parsed > 0 => loop.last = page.entries[parsed].id
<1>1. page.entries \in Seq(Entries)
  BY DEF TypeInv, TypeOK
<1>2. \A j \in 1 .. Len(page.entries) : page.entries[j] \in Entries
  BY <1>1
<1>3. Len(page.entries) \in Nat /\ page.count = Len(page.entries)
      /\ (parsed > 0 => loop.last = page.entries[parsed].id)
  BY <1>1 DEF PageInv
<1>4. parsed \in 0 .. page.count /\ loop.property \in Nat
  BY DEF TypeInv, TypeOK
<1> QED
  BY <1>2, <1>3, <1>4, EntriesFacts DEF TypeInv

LEMMA CleanAlgs ==
    ASSUME TypeInv, PageInv, clean, pc = "entries", Cap(api) = "algs"
    PROVE  /\ \A j \in 1 .. Len(page.entries) : page.entries[j].id >= loop.property
           /\ \A i, j \in 1 .. Len(page.entries) :
                i < j => page.entries[i].id < page.entries[j].id
           /\ \A d \in DOMAIN table, j \in 1 .. Len(page.entries) :
                d >= loop.property /\ d \notin Listed(page.entries) => page.entries[j].id < d
           /\ page.more <=> \E d \in DOMAIN table :
                               d >= loop.property /\ d \notin Listed(page.entries)
<1>1. page.entries \in Seq(Entries)
  BY DEF TypeInv, TypeOK
<1>2. DOMAIN page.entries = 1 .. Len(page.entries)
  BY <1>1
<1>3. AlgsFrom(page.entries, page.more)
  BY DEF PageInv, SoundList
<1>4. \A j \in 1 .. Len(page.entries) : page.entries[j].id \in Listed(page.entries)
  BY <1>2 DEF Listed
<1>5. \A i, j \in 1 .. Len(page.entries) : i < j => page.entries[i].id < page.entries[j].id
  BY <1>2, <1>3 DEF AlgsFrom
<1>6. \A l \in Listed(page.entries) :
        /\ l >= loop.property
        /\ \A d \in DOMAIN table :
             d >= loop.property /\ d \notin Listed(page.entries) => l < d
  BY <1>3, Zenon DEF AlgsFrom
<1>7. page.more = ({d \in DOMAIN table :
                       d >= loop.property /\ d \notin Listed(page.entries)} # {})
  BY <1>3, Zenon DEF AlgsFrom
<1>8. page.more <=> \E d \in DOMAIN table :
                      d >= loop.property /\ d \notin Listed(page.entries)
  BY <1>7, Zenon
<1> QED
  BY <1>4, <1>5, <1>6, <1>8

LEMMA CleanBanks ==
    ASSUME TypeInv, PageInv, clean, pc = "entries", Cap(api) = "pcrs"
    PROVE  /\ ~page.more /\ loop.property = 0 /\ Listed(page.entries) = DOMAIN table
           /\ \A i, j \in 1 .. Len(page.entries) :
                i # j => page.entries[i].id # page.entries[j].id
<1>1. page.entries \in Seq(Entries)
  BY DEF TypeInv, TypeOK
<1>2. DOMAIN page.entries = 1 .. Len(page.entries)
  BY <1>1
<1>3. AllBanks(page.entries, page.more) /\ loop.property = 0
  BY DEF PageInv, SoundList
<1> QED
  BY <1>2, <1>3 DEF AllBanks, Distinct

LEMMA SeenNothing ==
    ASSUME TypeInv, table' = table, loop'.property = 0, parsed' = 0
    PROVE  Seen' = {}
<1>1. DOMAIN table \subseteq Nat
  BY TableFacts DEF TypeInv
<1> QED
  BY <1>1 DEF Seen

LEMMA SeenBefore ==
    ASSUME parsed = 0
    PROVE  Seen = {d \in DOMAIN table : d < loop.property}
BY DEF Seen

LEMMA SeenEntry ==
    ASSUME TypeInv, EntryReadable, ReadEntry, UNCHANGED <<table, page>>
    PROVE  Seen' = Seen \cup {Entry.id}
<1>1. loop'.property = loop.property /\ parsed' = parsed + 1 /\ parsed \in Nat
  BY ReadEntryFacts
<1>2. 1 .. parsed + 1 = (1 .. parsed) \cup {parsed + 1}
  BY <1>1
<1> QED
  BY <1>1, <1>2 DEF Seen, Entry

\* At the end of a page nothing it could list was missed.
LEMMA SeenPage ==
    ASSUME TypeInv, PageInv, clean, pc = "entries", parsed >= page.count
    PROVE  /\ Seen = {d \in DOMAIN table : d < loop.property} \cup Listed(page.entries)
           /\ ~page.more => Seen = DOMAIN table
           /\ page.more /\ parsed > 0 =>
                /\ Cap(api) = "algs"
                /\ Seen = {d \in DOMAIN table : d < loop.last + 1}
                /\ \E d \in DOMAIN table : d >= loop.last + 1
<1>0. /\ Len(page.entries) \in Nat /\ page.count = Len(page.entries)
      /\ parsed \in 0 .. Len(page.entries) /\ loop.property \in Nat
      /\ \A j \in 1 .. Len(page.entries) :
           page.entries[j].id \in DOMAIN table /\ page.entries[j].id \in Nat
      /\ parsed > 0 => loop.last = page.entries[parsed].id
  BY CleanPage
<1>1. parsed = Len(page.entries)
  BY <1>0
<1>2. Listed(page.entries) = {page.entries[j].id : j \in 1 .. parsed}
  BY <1>1 DEF Listed, TypeInv, TypeOK
<1>3. Seen = {d \in DOMAIN table : d < loop.property} \cup Listed(page.entries)
  BY <1>2 DEF Seen
<1>4. DOMAIN table \subseteq Nat
  BY TableFacts DEF TypeInv
<1>5. Listed(page.entries) \subseteq DOMAIN table
  BY <1>0, <1>1, <1>2
<1>6. Cap(api) \in {"algs", "pcrs"}
  BY DEF Cap
<1>7. ASSUME ~page.more PROVE Seen = DOMAIN table
  <2>1. CASE Cap(api) = "pcrs"
    BY <1>3, <1>4, <2>1, CleanBanks
  <2>2. CASE Cap(api) = "algs"
    <3>1. \A d \in DOMAIN table : d >= loop.property => d \in Listed(page.entries)
      BY <1>7, <2>2, CleanAlgs
    <3>2. ASSUME NEW d \in DOMAIN table PROVE d < loop.property \/ d \in Listed(page.entries)
      BY <1>0, <1>4, <3>1
    <3> QED
      BY <1>3, <1>5, <3>2, Zenon
  <2> QED
    BY <1>6, <2>1, <2>2
<1>8. ASSUME page.more, parsed > 0
      PROVE  /\ Cap(api) = "algs"
             /\ Seen = {d \in DOMAIN table : d < loop.last + 1}
             /\ \E d \in DOMAIN table : d >= loop.last + 1
  <2>1. Cap(api) = "algs"
    BY <1>6, <1>8, CleanBanks
  <2>2. loop.last = page.entries[parsed].id /\ parsed \in 1 .. Len(page.entries)
        /\ loop.last \in Nat
    BY <1>0, <1>1, <1>8
  <2>3. ASSUME NEW d \in DOMAIN table, d \in Seen PROVE d < loop.last + 1
    <3>1. CASE d < loop.property
      <4>1. page.entries[parsed].id >= loop.property
        BY <2>1, <2>2, CleanAlgs
      <4> QED
        BY <1>0, <1>4, <2>2, <3>1, <4>1
    <3>2. CASE d \in Listed(page.entries)
      <4>1. PICK j \in 1 .. parsed : d = page.entries[j].id
        BY <1>2, <3>2
      <4>2. j = parsed \/ d < loop.last
        BY <1>1, <2>1, <2>2, <4>1, CleanAlgs
      <4> QED
        BY <1>4, <2>2, <4>1, <4>2
    <3> QED
      BY <1>3, <2>3, <3>1, <3>2
  <2>4. ASSUME NEW d \in DOMAIN table, d \notin Seen PROVE d >= loop.last + 1
    <3>1. d >= loop.property /\ d \notin Listed(page.entries)
      BY <1>0, <1>3, <1>4, <2>4
    <3>2. loop.last < d
      BY <2>1, <2>2, <3>1, CleanAlgs
    <3> QED
      BY <1>4, <2>2, <3>2
  <2>5. Seen = {d \in DOMAIN table : d < loop.last + 1}
    BY <1>3, <1>4, <1>5, <2>2, <2>3, <2>4
  <2>6. \E d \in DOMAIN table : d >= loop.property /\ d \notin Listed(page.entries)
    BY <1>8, <2>1, CleanAlgs
  <2>7. \E d \in DOMAIN table : d \notin Seen
    BY <1>0, <1>3, <1>4, <2>6
  <2> QED
    BY <2>1, <2>4, <2>5, <2>7
<1> QED
  BY <1>3, <1>7, <1>8

-----------------------------------------------------------------------------
(* Queries are exact.                                                      *)

LEMMA SameSeen ==
    ASSUME UNCHANGED <<table, loop, page, parsed>>
    PROVE  Seen' = Seen
BY DEF Seen

LEMMA SeenAtAnswer ==
    ASSUME CallInv, pc = "request", parsed' = 0, UNCHANGED <<table, loop>>
    PROVE  Seen' = Seen
BY DEF CallInv, Seen

LEMMA SeenAtNextPage ==
    ASSUME TypeInv, PageInv, clean, pc = "entries", parsed >= page.count,
           page.more, parsed > 0, table' = table, parsed' = 0, 
           loop'.property = loop.last + 1
    PROVE  Seen' = Seen
<1>1. Seen = {d \in DOMAIN table : d < loop.last + 1}
  BY SeenPage
<1>2. Seen' = {d \in DOMAIN table : d < loop.last + 1}
  BY DEF Seen
<1> QED
  BY <1>1, <1>2

\* How EndOfPage goes on.
LEMMA AfterPageFacts ==
    ASSUME TypeInv, EndOfPage
    PROVE  /\ pc = "entries" /\ api # "get_alg_props" /\ parsed >= page.count
           /\ UNCHANGED <<table, api, masks, clean, query, visited, found>>
           /\ pc' # "done" =>
                /\ pc' = "request" /\ page.more /\ parsed > 0
                /\ parsed' = 0
                /\ loop'.property = loop.last + 1 /\ loop'.pages = loop.pages + 1
           /\ pc' = "done" /\ ret' = "SUCCESS" =>
                /\ ~(page.more /\ parsed = 0) /\ ~AnotherPage /\ Finish("SUCCESS")
           /\ ret' # "ERR_ITERATION_LIMIT" \/ ret' = ret
<1>1. parsed \in Nat /\ loop \in [property : Nat, last : Nat, pages : 0 .. TPM_MAX_PAGES]
  BY DEF TypeInv, TypeOK
<1>2. /\ pc = "entries" /\ api # "get_alg_props" /\ parsed >= page.count
      /\ UNCHANGED <<table, api, masks, clean, query, visited, found>>
  BY DEF EndOfPage, kept
<1>3. CASE page.more /\ parsed = 0
  BY <1>2, <1>3 DEF EndOfPage, AfterPage, Finish, End
<1>4. CASE ~(page.more /\ parsed = 0) /\ ~AnotherPage
  BY <1>2, <1>4 DEF EndOfPage, AfterPage, Finish, End
<1>5. CASE ~(page.more /\ parsed = 0) /\ AnotherPage
  <2>1. page.more /\ parsed > 0
    BY <1>1, <1>5 DEF AnotherPage
  <2>2. /\ pc' = "request" /\ parsed' = 0 /\ ret' = ret
        /\ loop' = [loop EXCEPT !.property = loop.last + 1, !.pages = loop.pages + 1]
    BY <1>5 DEF EndOfPage, AfterPage, NextProperty
  <2> QED
    BY <1>1, <1>2, <2>1, <2>2
<1> QED
  BY <1>3, <1>4, <1>5

LEMMA NextQueryInv ==
    TypeInv /\ CallInv /\ PageInv /\ QueryInv /\ [Next]_vars => QueryInv'
<1> SUFFICES ASSUME TypeInv, CallInv, PageInv, QueryInv, [Next]_vars,
                    clean', pc' # "done", api' \in Queries,
                    NEW k \in Items(api, QueryIds)'
             PROVE  query'[k].val = IF query'[k].id \in Seen' THEN Truth(query[k].id)' ELSE {}
  BY DEF QueryInv
<1>1. CASE CallStarts
  <2>1. PICK a \in Queries, ids \in Seq(Ids) : BeginQuery(a, ids)
    <3>1. ASSUME GetAlgProps \/ ForEachAlgProps \/ ForEachPcrBank PROVE api' \notin Queries
      BY <3>1 DEF GetAlgProps, ForEachAlgProps, ForEachPcrBank, Call, Queries
    <3>2. QueryArrays \subseteq Seq(Ids) /\ \A d \in Ids : <<d, TPM_ALG_NULL>> \in Seq(Ids)
      BY ArraysFacts
    <3> QED
      BY <1>1, <3>1, <3>2, Zenon DEF CallStarts, QueryAlgs, QueryPcrs, HasAlg, Queries
  <2>2. query' = Cleared(a, ids) /\ api' = a /\ table' = table /\ parsed' = 0
        /\ loop' = [property |-> 0, last |-> 0, pages |-> 0]
    BY <2>1 DEF BeginQuery, Call
  <2>3. QueryIds' = ids
    BY <2>2, ClearedFacts DEF QueryIds, IdsOf
  <2>4. Items(api, QueryIds)' = Items(a, ids)
    BY <2>2, <2>3 DEF Items
  <2>5. k \in Items(a, ids) /\ k \in DOMAIN ids
    BY <2>4 DEF Items
  <2>6. query'[k].val = {}
    BY <2>2, <2>5, ClearedFacts
  <2>7. Seen' = {}
    BY <2>2, SeenNothing
  <2> QED
    BY <2>6, <2>7
<1>2. ASSUME CallGoesOn \/ UNCHANGED vars, clean, pc # "done", query' = query, Seen' = Seen
      PROVE  query'[k].val = IF query'[k].id \in Seen' THEN Truth(query[k].id)' ELSE {}
  <2>1. /\ k \in Items(api, QueryIds) /\ api' = api /\ \A d : Truth(d)' = Truth(d)
    BY <1>2, SameQuestion, GoesOnKeeps
  <2>2. query[k].val = IF query[k].id \in Seen THEN Truth(query[k].id) ELSE {}
    BY <1>2, <2>1 DEF QueryInv
  <2>3. Truth(query[k].id)' = Truth(query[k].id)
    BY <1>2, <2>1, GoesOnKeeps DEF Truth
  <2> QED
    BY <1>2, <2>2, <2>3
<1>3. CASE PageLimit \/ XferFails \/ EntryRejected \/ ParseAlgProps \/ DamagedAnswer
  BY <1>3 DEF PageLimit, XferFails, EntryRejected, ParseAlgProps, DamagedAnswer, Finish, End
<1>4. CASE SoundAnswer
  <2>1. PICK p : GetcapRaw(p) /\ clean' = clean
    BY <1>4 DEF SoundAnswer
  <2>2. pc = "request" /\ parsed' = 0 /\ UNCHANGED <<table, loop, query>>
    BY <2>1 DEF GetcapRaw, End
  <2> QED
    BY <1>2, <1>4, <2>1, <2>2, SeenAtAnswer DEF CallGoesOn
<1>5. CASE ParseAlgs \/ ParsePcrs
  <2>1. /\ EntryReadable /\ ReadEntry /\ UNCHANGED <<table, api, clean, pc, page>>
        /\ api \in Queries /\ InPage
    BY <1>5 DEF ParseAlgs, ParsePcrs, kept, Queries
  <2>2. Seen' = Seen \cup {Entry.id}
    BY <2>1, SeenEntry
  <2>3. k \in Items(api, QueryIds) /\ k \in DOMAIN query /\ query'[k].id = query[k].id
    BY <1>5, SameQuestion, QueryFacts DEF CallGoesOn, TypeInv
  <2>4. query[k].val = IF query[k].id \in Seen THEN Truth(query[k].id) ELSE {}
    BY <2>1, <2>3 DEF QueryInv, InPage
  <2>5. Truth(query[k].id)' = Truth(query[k].id)
    BY <2>1, <2>3 DEF Truth
  <2>6. query'[k].val = IF query[k].id = Entry.id THEN Truth(Entry.id) ELSE query[k].val
    <3>1. ASSUME NEW v \in Values, query' = Answered(Entry.id, v)
          PROVE  query'[k].val = IF query[k].id = Entry.id THEN v ELSE query[k].val
      BY <2>3, <3>1, AnsweredFacts DEF TypeInv
    <3>2. CASE ParseAlgs
      <4>1. Truth(Entry.id) = Enabled
        BY <2>1, <3>2, EntryIsTrue DEF ParseAlgs, Cap
      <4> QED
        BY <3>1, <3>2, <4>1, ValuesFacts DEF ParseAlgs
    <3>3. CASE ParsePcrs
      <4>1. Truth(Entry.id) = Entry.val /\ Entry.val \in Values
        BY <2>1, <3>3, EntryIsTrue, EntryFacts DEF ParsePcrs, Cap, EntryReadable
      <4> QED
        BY <3>1, <3>3, <4>1 DEF ParsePcrs
    <3> QED
      BY <1>5, <3>2, <3>3
  <2> QED
    BY <2>2, <2>3, <2>4, <2>5, <2>6
<1>6. CASE ParseAlgsFind \/ ParsePcrsFind
  BY <1>6 DEF ParseAlgsFind, ParsePcrsFind, kept, Queries
<1>7. CASE EndOfPage
  <2>1. Seen' = Seen /\ clean /\ pc # "done" /\ query' = query
    BY <1>7, AfterPageFacts, SeenAtNextPage
  <2> QED
    BY <1>2, <1>7, <2>1 DEF CallGoesOn
<1>8. CASE UNCHANGED vars
  BY <1>2, <1>8, SameSeen DEF vars
<1> QED
  BY <1>1, <1>3, <1>4, <1>5, <1>6, <1>7, <1>8 DEF Next, CallGoesOn

\* The loop may stop: everything asked for was seen, or is not there.
LEMMA AllAnswered ==
    ASSUME TypeInv, PageInv, QueryInv, clean, pc = "entries", api \in Queries,
           parsed >= page.count, ~(page.more /\ parsed = 0), ~AnotherPage,
           NEW k \in Items(api, QueryIds)
    PROVE  query[k].val = Truth(query[k].id)
<1>1. query[k].val = IF query[k].id \in Seen THEN Truth(query[k].id) ELSE {}
  BY DEF QueryInv
<1>2. k \in DOMAIN query /\ query[k].id \in Nat
  BY QueryFacts DEF TypeInv
<1>3. parsed \in Nat /\ loop.last \in Nat
  BY DEF TypeInv, TypeOK
<1>4. query[k].id \in DOMAIN table => query[k].id \in Seen
  <2>1. CASE ~page.more
    BY <2>1, SeenPage
  <2>2. CASE page.more
    <3>1. parsed > 0
      BY <1>3, <2>2
    <3>2. ~(loop.last < MaxId)
      BY <2>2 DEF AnotherPage
    <3>3. MaxId \in Nat /\ query[k].id <= MaxId
      BY MaxIdBounds DEF TypeInv
    <3>4. query[k].id < loop.last + 1
      BY <1>2, <1>3, <3>2, <3>3
    <3> QED
      BY <2>2, <3>1, <3>4, SeenPage
  <2> QED
    BY <2>1, <2>2
<1> QED
  BY <1>1, <1>4 DEF Truth

LEMMA FirstIsAsked ==
    ASSUME NEW ids \in Seq(Ids), Len(ids) = 2, ids[1] # TPM_ALG_NULL
    PROVE  1 \in Items("has_alg", ids)
<1>1. Limit("has_alg") >= 1
  BY ConstantFacts DEF Limit, Cap
<1>2. 1 \in DOMAIN ids /\ \A j \in 1 .. 1 : ids[j] # TPM_ALG_NULL
  OBVIOUS
<1> QED
  BY <1>1, <1>2 DEF Items

LEMMA EnabledIsSet == Enabled # {}
<1>1. 0 \in Bits
  BY GetCapabilityAssumption, ConstantFacts DEF Bits
<1> QED
  BY <1>1 DEF Enabled

LEMMA NextQueryExact ==
    TypeInv /\ CallInv /\ PageInv /\ QueryInv /\ QueryExact /\ [Next]_vars => QueryExact'
<1> SUFFICES ASSUME TypeInv, CallInv, PageInv, QueryInv, QueryExact, [Next]_vars,
                    pc' = "done", ret' = "SUCCESS", clean', api' \in Queries
             PROVE  QueryExact'
  BY DEF QueryExact, Succeeded
<1>1. CASE CallStarts
  <2>1. PICK a \in Queries, ids \in Seq(Ids) :
          BeginQuery(a, ids) /\ (a = "has_alg" => Len(ids) = 2)
    <3>1. ASSUME GetAlgProps \/ ForEachAlgProps \/ ForEachPcrBank PROVE api' \notin Queries
      BY <3>1 DEF GetAlgProps, ForEachAlgProps, ForEachPcrBank, Call, Queries
    <3>2. QueryArrays \subseteq Seq(Ids) /\ \A d \in Ids : <<d, TPM_ALG_NULL>> \in Seq(Ids)
      BY ArraysFacts
    <3>3. \A d \in Ids : Len(<<d, TPM_ALG_NULL>>) = 2
      OBVIOUS
    <3> QED
      BY <1>1, <3>1, <3>2, <3>3 DEF CallStarts, QueryAlgs, QueryPcrs, HasAlg, Queries
  <2>2. query' = Cleared(a, ids) /\ api' = a /\ Items(a, ids) = {}
    BY <2>1 DEF BeginQuery, Call
  <2>3. QueryIds' = ids
    BY <2>2, ClearedFacts DEF QueryIds, IdsOf
  <2>4. Items(api, QueryIds)' = {}
    BY <2>2, <2>3 DEF Items
  <2>5. api' = "has_alg" => query'[1].id = TPM_ALG_NULL
    <3> SUFFICES ASSUME a = "has_alg" PROVE query'[1].id = TPM_ALG_NULL
      BY <2>2
    <3>1. ids[1] = TPM_ALG_NULL
      BY <2>1, <2>2, FirstIsAsked
    <3>2. 1 \in DOMAIN ids
      BY <2>1
    <3>3. IdsOf(query')[1] = query'[1].id
      BY <2>2, <3>2, ClearedFacts DEF IdsOf
    <3> QED
      BY <2>2, <3>1, <3>3, ClearedFacts
  <2> QED
    BY <2>4, <2>5 DEF QueryExact
<1>2. CASE EndOfPage
  <2>1. /\ pc = "entries" /\ parsed >= page.count /\ clean /\ api \in Queries
        /\ ~(page.more /\ parsed = 0) /\ ~AnotherPage /\ Finish("SUCCESS")
        /\ UNCHANGED <<table, api, query>>
    BY <1>2, AfterPageFacts
  <2>2. \A k \in Items(api, QueryIds) : query[k].val = Truth(query[k].id)
    BY <2>1, AllAnswered
  <2>3. \A k \in Items(api, QueryIds)' : query'[k].val = Truth(query[k].id)'
    BY <2>1, <2>2 DEF Items, QueryIds, Truth
  <2>4. ASSUME api = "has_alg", query[1].id # TPM_ALG_NULL
        PROVE  out'.supported = (query[1].id \in DOMAIN table)
    <3>1. query \in Seq([id : Ids, val : Values]) /\ Len(query) = 2
      BY <2>4 DEF TypeInv, TypeOK, CallInv
    <3>2. QueryIds \in Seq(Ids) /\ Len(QueryIds) = 2 /\ QueryIds[1] = query[1].id
      BY <3>1, QueryFacts DEF QueryIds, TypeInv
    <3>3. 1 \in Items(api, QueryIds)
      BY <2>4, <3>2, FirstIsAsked
    <3>4. query[1].val = IF query[1].id \in DOMAIN table THEN Enabled ELSE {}
      BY <2>2, <2>4, <3>3 DEF Truth, Cap
    <3>5. out' = IF query[1].val # {} THEN Supported({}) ELSE Unsupported
      BY <2>1, <2>4 DEF Finish
    <3>6. CASE query[1].id \in DOMAIN table
      <4>1. out' = Supported({})
        BY <3>4, <3>5, <3>6, EnabledIsSet
      <4>2. out'.supported = TRUE
        BY <4>1 DEF Supported
      <4> QED
        BY <3>6, <4>2, Zenon
    <3>7. CASE query[1].id \notin DOMAIN table
      <4>1. out' = Unsupported
        BY <3>4, <3>5, <3>7
      <4>2. out'.supported = FALSE
        BY <4>1 DEF Unsupported
      <4>3. (query[1].id \in DOMAIN table) = FALSE
        BY <3>7
      <4> QED
        BY <4>2, <4>3, Zenon
    <3> QED
      BY <3>6, <3>7
  <2> QED
    BY <2>1, <2>3, <2>4 DEF QueryExact
<1>3. CASE PageLimit \/ XferFails \/ EntryRejected \/ SoundAnswer \/ DamagedAnswer
  BY <1>3 DEF PageLimit, XferFails, EntryRejected, SoundAnswer, DamagedAnswer, GetcapRaw,
              Finish, End
<1>4. CASE ParseAlgs \/ ParsePcrs
  BY <1>4 DEF ParseAlgs, ParsePcrs, InPage
<1>5. CASE ParseAlgsFind \/ ParsePcrsFind \/ ParseAlgProps
  BY <1>5 DEF ParseAlgsFind, ParsePcrsFind, ParseAlgProps, kept, Queries
<1>6. CASE UNCHANGED vars
  BY <1>6 DEF vars, QueryExact, Succeeded, Items, QueryIds, Truth, Cap, Limit
<1> QED
  BY <1>1, <1>2, <1>3, <1>4, <1>5, <1>6 DEF Next, CallGoesOn

-----------------------------------------------------------------------------
(* tpm_get_alg_props is exact.                                             *)

\* If the TPM implements the algorithm, the one entry is about it.
LEMMA PropsListed ==
    ASSUME TypeInv, CallInv, PageInv, clean, pc = "entries", api = "get_alg_props",
           loop.property \in DOMAIN table, EntryReadable
    PROVE  Entry.id = loop.property
<1>1. Cap(api) = "algs" /\ parsed = 0
  BY DEF Cap, CallInv
<1>2. 1 \in 1 .. Len(page.entries) /\ page.entries[1] = Entry
  BY <1>1 DEF EntryReadable, Entry, TypeInv, TypeOK
<1>3. Entry.id \in Nat /\ loop.property \in Nat
  BY <1>1, <1>2, EntryFacts DEF EntryReadable, TypeInv, TypeOK
<1>4. loop.property \in Listed(page.entries)
  <2> SUFFICES ASSUME loop.property \notin Listed(page.entries) PROVE FALSE
    OBVIOUS
  <2>1. Entry.id >= loop.property /\ Entry.id < loop.property
    BY <1>1, <1>2, <1>3, CleanAlgs
  <2> QED
    BY <1>3, <2>1
<1>5. Len(page.entries) <= 1
  BY <1>1 DEF PageInv, SoundList, AlgsFrom
<1> QED
  BY <1>2, <1>4, <1>5 DEF Listed, TypeInv, TypeOK

LEMMA NextAlgProps ==
    TypeInv /\ CallInv /\ PageInv /\ AlgPropsExact /\ [Next]_vars => AlgPropsExact'
<1> SUFFICES ASSUME TypeInv, CallInv, PageInv, AlgPropsExact, [Next]_vars,
                    pc' = "done", ret' = "SUCCESS", clean', api' = "get_alg_props"
             PROVE  AlgPropsExact'
  BY DEF AlgPropsExact, Succeeded
<1>1. CASE CallStarts
  BY <1>1 DEF CallStarts, QueryAlgs, QueryPcrs, HasAlg, GetAlgProps, ForEachAlgProps,
              ForEachPcrBank, BeginQuery, Call
<1>2. CASE ParseAlgProps
  <2>1. /\ pc = "entries" /\ api = "get_alg_props" /\ EntryReadable /\ clean
        /\ table' = table /\ loop' = [loop EXCEPT !.last = 0, !.pages = 0]
        /\ out' = IF Entry.id = loop.property THEN Supported(Entry.val) ELSE out
    BY <1>2 DEF ParseAlgProps, End, kept
  <2>2. loop'.property = loop.property /\ out = Unsupported
    BY <2>1 DEF TypeInv, TypeOK, CallInv
  <2>3. Entry.id \in DOMAIN table /\ Entry.val = table[Entry.id].val
    BY <2>1, EntryFacts DEF EntryReadable
  <2>4. CASE loop.property \in DOMAIN table
    <3>1. Entry.id = loop.property
      BY <2>1, <2>4, PropsListed
    <3> QED
      BY <2>1, <2>2, <2>3, <2>4, <3>1 DEF AlgPropsExact
  <2>5. CASE loop.property \notin DOMAIN table
    BY <2>1, <2>2, <2>3, <2>5 DEF AlgPropsExact
  <2> QED
    BY <2>4, <2>5
<1>3. CASE PageLimit \/ XferFails \/ EntryRejected \/ SoundAnswer \/ DamagedAnswer
  BY <1>3 DEF PageLimit, XferFails, EntryRejected, SoundAnswer, DamagedAnswer, GetcapRaw,
              Finish, End
<1>4. CASE ParseAlgs \/ ParsePcrs \/ ParseAlgsFind \/ ParsePcrsFind \/ EndOfPage
  BY <1>4 DEF ParseAlgs, ParsePcrs, ParseAlgsFind, ParsePcrsFind, EndOfPage, InPage, kept
<1>5. CASE UNCHANGED vars
  BY <1>5 DEF vars, AlgPropsExact, Succeeded
<1> QED
  BY <1>1, <1>2, <1>3, <1>4, <1>5 DEF Next, CallGoesOn

-----------------------------------------------------------------------------
(* Every property is visited once.                                         *)

LEMMA RangeAppend ==
    ASSUME NEW T, NEW s \in Seq(T), NEW e
    PROVE  Range(Append(s, e)) = Range(s) \cup {e}
<1>1. DOMAIN Append(s, e) = DOMAIN s \cup {Len(s) + 1} /\ Len(s) \in Nat
  OBVIOUS
<1>2. \A k \in DOMAIN s : Append(s, e)[k] = s[k]
  OBVIOUS
<1>3. Append(s, e)[Len(s) + 1] = e
  OBVIOUS
<1> QED
  BY <1>1, <1>2, <1>3 DEF Range

\* The entry read next is new; of algorithms it is the next one.
LEMMA EntryIsNext ==
    ASSUME TypeInv, PageInv, clean, pc = "entries", EntryReadable
    PROVE  /\ Entry.id \notin Seen
           /\ Cap(api) = "algs" =>
                \A d \in DOMAIN table : d \in Seen <=> d < Entry.id
<1>0. /\ Len(page.entries) \in Nat /\ parsed \in Nat /\ loop.property \in Nat
      /\ parsed + 1 \in 1 .. Len(page.entries)
      /\ Entry = page.entries[parsed + 1]
      /\ \A j \in 1 .. Len(page.entries) :
           page.entries[j].id \in DOMAIN table /\ page.entries[j].id \in Nat
  BY CleanPage DEF EntryReadable, Entry
<1>1. DOMAIN table \subseteq Nat
  BY TableFacts DEF TypeInv
<1>2. CASE Cap(api) = "algs"
  <2>1. ASSUME NEW d \in Seen PROVE d < Entry.id
    <3>1. CASE d \in DOMAIN table /\ d < loop.property
      <4>1. Entry.id >= loop.property
        BY <1>0, <1>2, CleanAlgs
      <4> QED
        BY <1>0, <1>1, <3>1, <4>1
    <3>2. CASE \E j \in 1 .. parsed : d = page.entries[j].id
      <4>1. PICK j \in 1 .. parsed : d = page.entries[j].id
        BY <3>2
      <4>2. j \in 1 .. Len(page.entries) /\ j < parsed + 1
        BY <1>0
      <4> QED
        BY <1>0, <1>2, <4>1, <4>2, CleanAlgs
    <3> QED
      BY <3>1, <3>2 DEF Seen
  <2>2. ASSUME NEW d \in DOMAIN table, d < Entry.id PROVE d \in Seen
    <3>1. CASE d < loop.property
      BY <3>1 DEF Seen
    <3>2. CASE d \in Listed(page.entries)
      <4>1. PICK j \in 1 .. Len(page.entries) : d = page.entries[j].id
        BY <3>2 DEF Listed, TypeInv, TypeOK
      <4>2. ~(parsed + 1 < j) /\ j # parsed + 1
        BY <1>0, <1>1, <1>2, <2>2, <4>1, CleanAlgs
      <4>3. j \in 1 .. parsed
        BY <1>0, <4>2
      <4> QED
        BY <4>1, <4>3 DEF Seen
    <3>3. CASE d >= loop.property /\ d \notin Listed(page.entries)
      <4>1. Entry.id < d
        BY <1>0, <1>2, <3>3, CleanAlgs
      <4> QED
        BY <1>0, <1>1, <2>2, <4>1
    <3> QED
      BY <1>0, <1>1, <3>1, <3>2, <3>3
  <2>3. Entry.id \notin Seen
    BY <1>0, <2>1
  <2> QED
    BY <2>1, <2>2, <2>3
<1>3. CASE Cap(api) = "pcrs"
  <2>1. loop.property = 0
    BY <1>3, CleanBanks
  <2>2. Entry.id \notin {d \in DOMAIN table : d < loop.property}
    BY <1>0, <2>1
  <2>3. ASSUME NEW j \in 1 .. parsed PROVE page.entries[j].id # Entry.id
    <3>1. j \in 1 .. Len(page.entries) /\ j # parsed + 1
      BY <1>0
    <3> QED
      BY <1>0, <1>3, <3>1, CleanBanks
  <2> QED
    BY <1>3, <2>2, <2>3 DEF Seen
<1> QED
  BY <1>2, <1>3 DEF Cap

\* What the callback is called for.
LEMMA EntryWanted ==
    ASSUME TypeInv, EntryReadable
    PROVE  /\ api = "for_each_alg_props" => (Entry.id \in Wanted <=> Matches)
           /\ api = "for_each_pcr_bank" => Entry.id \in Wanted
BY EntryFacts DEF EntryReadable, Wanted, Matches

Visiting ==
    /\ Range(visited) \subseteq Wanted
    /\ \A j, k \in DOMAIN visited : j < k =>
         IF Cap(api) = "algs" THEN visited[j] < visited[k] ELSE visited[j] # visited[k]
    /\ Cap(api) = "algs" =>
         \A d \in Wanted, v \in Range(visited) : d < v => d \in Range(visited)

LEMMA VisitEntry ==
    ASSUME TypeInv, PageInv, clean, pc = "entries", api \in Finds, EntryReadable,
           Entry.id \in Wanted, Visiting, Range(visited) = Wanted \cap Seen,
           visited' = Append(visited, Entry.id), UNCHANGED <<table, api, masks>>
    PROVE  Visiting' /\ Range(visited') = Wanted \cap (Seen \cup {Entry.id})
<1>0. visited \in Seq(Ids)
  BY DEF TypeInv, TypeOK
<1>1. Range(visited') = Range(visited) \cup {Entry.id}
  BY <1>0, RangeAppend
<1>2. Range(visited') = Wanted \cap (Seen \cup {Entry.id})
  BY <1>1
<1>3. Wanted' = Wanted
  BY DEF Wanted
<1>4. /\ Len(visited) \in Nat /\ DOMAIN visited = 1 .. Len(visited)
      /\ DOMAIN visited' = 1 .. Len(visited) + 1
      /\ \A k \in 1 .. Len(visited) : visited'[k] = visited[k] /\ visited[k] \in Range(visited)
      /\ visited'[Len(visited) + 1] = Entry.id
  BY <1>0 DEF Range
<1>5. Wanted \subseteq DOMAIN table /\ DOMAIN table \subseteq Nat /\ Entry.id \in Nat
  BY TableFacts, EntryFacts DEF Wanted, TypeInv, EntryReadable
<1>6. \A v \in Range(visited) :
        v # Entry.id /\ (Cap(api) = "algs" => v < Entry.id)
  BY <1>5, EntryIsNext
<1>7. ASSUME NEW j \in DOMAIN visited', NEW k \in DOMAIN visited', j < k
      PROVE  IF Cap(api) = "algs" THEN visited'[j] < visited'[k]
             ELSE visited'[j] # visited'[k]
  <2>1. CASE k = Len(visited) + 1
    <3>1. j \in 1 .. Len(visited)
      BY <1>4, <1>7, <2>1
    <3> QED
      BY <1>4, <1>6, <2>1, <3>1
  <2>2. CASE k # Len(visited) + 1
    <3>1. j \in 1 .. Len(visited) /\ k \in 1 .. Len(visited)
      BY <1>4, <1>7, <2>2
    <3> QED
      BY <1>4, <1>7, <3>1 DEF Visiting
  <2> QED
    BY <2>1, <2>2
<1>8. ASSUME Cap(api) = "algs", NEW d \in Wanted, NEW v \in Range(visited'), d < v
      PROVE  d \in Range(visited')
  <2>1. CASE v = Entry.id
    <3>1. d \in Seen
      BY <1>5, <1>8, <2>1, EntryIsNext
    <3> QED
      BY <1>1, <3>1
  <2>2. CASE v \in Range(visited)
    BY <1>1, <1>8, <2>2 DEF Visiting
  <2> QED
    BY <1>1, <2>1, <2>2
<1>9. Range(visited') \subseteq Wanted
  BY <1>2
<1>10. Visiting'
  BY <1>3, <1>7, <1>8, <1>9 DEF Visiting
<1> QED
  BY <1>2, <1>10

\* What holds while nothing is visited.
LEMMA VisitingKept ==
    ASSUME Visiting, UNCHANGED <<table, api, masks, visited>>
    PROVE  Visiting'
BY DEF Visiting, Wanted, Cap

LEMMA ReadWhileVisiting ==
    ASSUME TypeInv, PageInv, VisitInv, Visiting, clean, api \in Finds,
           ParseAlgsFind \/ ParsePcrsFind
    PROVE  Visiting' /\ VisitInv' /\ ~(Succeeded' /\ ~found')
<1>1. /\ pc = "entries" /\ EntryReadable
      /\ UNCHANGED <<table, api, masks, clean>>
  BY DEF ParseAlgsFind, ParsePcrsFind, InPage, kept
<1>2. Range(visited) = Wanted \cap Seen /\ Wanted' = Wanted
  BY <1>1 DEF VisitInv, Wanted
<1>3. CASE Callback /\ Entry.id \in Wanted
  <2>1. visited' = Append(visited, Entry.id)
    BY <1>3 DEF Callback
  <2>2. Visiting' /\ Range(visited') = Wanted \cap (Seen \cup {Entry.id})
    BY <1>1, <1>2, <1>3, <2>1, VisitEntry
  <2>3. CASE found' /\ pc' = "done"
    BY <2>2, <2>3 DEF VisitInv
  <2>4. CASE ReadEntry /\ UNCHANGED <<pc, ret, out, page>>
    <3>1. Seen' = Seen \cup {Entry.id}
      BY <1>1, <2>4, SeenEntry
    <3> QED
      BY <1>1, <1>2, <2>2, <2>4, <3>1 DEF VisitInv, Succeeded
  <2> QED
    BY <1>3, <2>3, <2>4 DEF Callback, Finish, End
<1>4. CASE ReadEntry /\ UNCHANGED <<visited, found, pc, ret, out, page>> /\ Entry.id \notin Wanted
  <2>1. Seen' = Seen \cup {Entry.id}
    BY <1>1, <1>4, SeenEntry
  <2>2. Visiting'
    BY <1>1, <1>4, VisitingKept
  <2> QED
    BY <1>1, <1>2, <1>4, <2>1, <2>2 DEF VisitInv, Succeeded
<1> QED
  BY <1>1, <1>3, <1>4, EntryWanted DEF ParseAlgsFind, ParsePcrsFind

LEMMA NextVisits ==
    TypeInv /\ CallInv /\ PageInv /\ VisitInv /\ EachVisitedOnce /\ [Next]_vars
        => VisitInv' /\ EachVisitedOnce'
<1> SUFFICES ASSUME TypeInv, CallInv, PageInv, VisitInv, EachVisitedOnce, [Next]_vars,
                    clean', api' \in Finds
             PROVE  /\ Visiting' /\ (Succeeded' /\ ~found' => Wanted' = Range(visited'))
                    /\ VisitInv'
  BY DEF VisitInv, EachVisitedOnce, Visiting
<1>0. clean /\ api \in Finds =>
        Visiting /\ (Succeeded /\ ~found => Wanted = Range(visited))
  BY DEF EachVisitedOnce, Visiting
<1>1. CASE CallStarts
  <2>1. ASSUME NEW a, NEW ids, BeginQuery(a, ids), a \in Queries PROVE api' \notin Finds
    BY <2>1 DEF BeginQuery, Call, Queries, Finds
  <2>2. ~(QueryAlgs \/ QueryPcrs \/ HasAlg \/ GetAlgProps)
    BY <2>1 DEF QueryAlgs, QueryPcrs, HasAlg, GetAlgProps, Call, Queries, Finds
  <2>3. ForEachAlgProps \/ ForEachPcrBank
    BY <1>1, <2>2 DEF CallStarts
  <2>4. /\ visited' = <<>> /\ pc' = "request" /\ parsed' = 0 /\ table' = table
        /\ loop' = [property |-> 0, last |-> 0, pages |-> 0]
    BY <2>3 DEF ForEachAlgProps, ForEachPcrBank, Call
  <2>5. Seen' = {}
    BY <2>4, SeenNothing
  <2>6. Range(visited') = {} /\ DOMAIN visited' = {}
    BY <2>4 DEF Range
  <2> QED
    BY <2>4, <2>5, <2>6 DEF Visiting, VisitInv, Succeeded
<1>2. ASSUME UNCHANGED <<table, api, masks, visited>>, clean,
             pc' = "done" => ret' # "SUCCESS",
             pc' # "done" => pc # "done" /\ Seen' = Seen
      PROVE  /\ Visiting' /\ (Succeeded' /\ ~found' => Wanted' = Range(visited'))
             /\ VisitInv'
  <2>1. Visiting'
    BY <1>0, <1>2, VisitingKept
  <2>2. Wanted' = Wanted
    BY <1>2 DEF Wanted
  <2> QED
    BY <1>2, <2>1, <2>2 DEF Succeeded, VisitInv
<1>3. CASE PageLimit \/ EntryRejected
  BY <1>2, <1>3 DEF PageLimit, EntryRejected, Finish, End, kept
<1>4. CASE XferFails \/ DamagedAnswer
  BY <1>4 DEF XferFails, DamagedAnswer
<1>5. CASE SoundAnswer
  <2>1. PICK p : GetcapRaw(p) /\ clean' = clean /\ visited' = visited
    BY <1>5 DEF SoundAnswer
  <2>2. pc = "request" /\ UNCHANGED <<table, api, masks>>
    BY <2>1 DEF GetcapRaw
  <2>3. CASE pc' = "done" /\ ret' = "ERR_RESPONSE"
    BY <1>2, <2>1, <2>2, <2>3
  <2>4. CASE parsed' = 0 /\ UNCHANGED <<loop, ret>> /\ pc' = "entries"
    BY <1>2, <2>1, <2>2, <2>4, SeenAtAnswer
  <2> QED
    BY <2>1, <2>3, <2>4 DEF GetcapRaw, End
<1>6. CASE ParseAlgs \/ ParsePcrs \/ ParseAlgProps
  BY <1>6 DEF ParseAlgs, ParsePcrs, ParseAlgProps, kept, Finds
<1>7. CASE ParseAlgsFind \/ ParsePcrsFind
  <2>1. clean /\ api \in Finds
    BY <1>7 DEF ParseAlgsFind, ParsePcrsFind, kept
  <2> QED
    BY <1>0, <1>7, <2>1, ReadWhileVisiting
<1>8. CASE EndOfPage
  <2>1. /\ pc = "entries" /\ parsed >= page.count
        /\ UNCHANGED <<table, api, masks, clean, visited, found>>
    BY <1>8, AfterPageFacts
  <2>2. CASE pc' # "done"
    <3>1. Seen' = Seen
      BY <1>8, <2>1, <2>2, AfterPageFacts, SeenAtNextPage
    <3> QED
      BY <1>2, <2>1, <2>2, <3>1
  <2>3. CASE pc' = "done" /\ ret' # "SUCCESS"
    BY <1>2, <2>1, <2>3
  <2>4. CASE pc' = "done" /\ ret' = "SUCCESS"
    <3>1. ~page.more
      BY <1>8, <2>1, <2>4, AfterPageFacts DEF AnotherPage, Finds, Queries
    <3>2. Seen = DOMAIN table
      BY <2>1, <3>1, SeenPage
    <3>3. Range(visited) = Wanted \cap Seen
      BY <2>1 DEF VisitInv
    <3>4. Wanted \subseteq DOMAIN table /\ Wanted' = Wanted
      BY <2>1 DEF Wanted
    <3>5. Wanted' = Range(visited')
      BY <2>1, <3>2, <3>3, <3>4
    <3>6. Visiting'
      BY <1>0, <2>1, VisitingKept
    <3> QED
      BY <2>4, <3>5, <3>6 DEF VisitInv
  <2> QED
    BY <2>2, <2>3, <2>4
<1>9. CASE UNCHANGED vars
  <2>1. UNCHANGED <<table, api, masks, visited, pc, ret, found, clean, loop, page, parsed>>
    BY <1>9 DEF vars
  <2>2. Visiting' /\ Wanted' = Wanted /\ Seen' = Seen
    BY <1>0, <2>1, VisitingKept, SameSeen DEF Wanted
  <2> QED
    BY <1>0, <2>1, <2>2 DEF VisitInv, Succeeded
<1> QED
  BY <1>1, <1>3, <1>4, <1>5, <1>6, <1>7, <1>8, <1>9 DEF Next, CallGoesOn

-----------------------------------------------------------------------------
(* The limit on pages.                                                     *)

Below(n) == {d \in DOMAIN table : d < n}

LEMMA BelowGrows ==
    ASSUME TypeInv, NEW m \in Nat, NEW n \in Nat, NEW d \in DOMAIN table,
           m <= d, d < n
    PROVE  /\ Cardinality(Below(m)) \in Nat /\ Cardinality(Below(n)) \in Nat
           /\ Cardinality(Below(n)) >= Cardinality(Below(m)) + 1
<1>1. DOMAIN table \subseteq Nat /\ IsFiniteSet(DOMAIN table)
  BY TableFacts DEF TypeInv
<1>2. Below(m) \in SUBSET DOMAIN table /\ Below(n) \in SUBSET DOMAIN table
  BY DEF Below
<1>3. IsFiniteSet(Below(m)) /\ IsFiniteSet(Below(n))
  BY <1>1, <1>2, FS_Subset
<1>4. Cardinality(Below(m)) \in Nat /\ Cardinality(Below(n)) \in Nat
  BY <1>3, FS_CardinalityType
<1>5. d \notin Below(m) /\ Below(m) \cup {d} \in SUBSET Below(n)
  BY <1>1 DEF Below
<1>6. Cardinality(Below(m) \cup {d}) = Cardinality(Below(m)) + 1
  BY <1>3, <1>5, FS_AddElement
<1>7. Cardinality(Below(m) \cup {d}) <= Cardinality(Below(n))
  BY <1>3, <1>5, FS_Subset
<1> QED
  BY <1>4, <1>6, <1>7

\* A page counts only if it listed something, with more behind it.
LEMMA NextLimit ==
    TypeInv /\ CallInv /\ PageInv /\ LimitInv /\ [Next]_vars => LimitInv'
<1> SUFFICES ASSUME TypeInv, CallInv, PageInv, LimitInv, [Next]_vars,
                    clean', pc' # "done", api' # "get_alg_props"
             PROVE  /\ loop'.pages <= Cardinality(Below(loop.property)')
                    /\ pc' = "request" /\ loop'.pages > 0 =>
                         \E d \in DOMAIN table' : d >= loop'.property
  BY DEF LimitInv, Below
<1>0. /\ DOMAIN table \subseteq Nat
      /\ loop \in [property : Nat, last : Nat, pages : 0 .. TPM_MAX_PAGES]
  BY TableFacts DEF TypeInv, TypeOK
<1>1. CASE CallStarts
  <2>1. ASSUME NEW a, NEW q, NEW n, Call(a, q, n)
        PROVE  loop'.pages = 0 /\ loop'.property = n /\ api' = a /\ table' = table
    BY <2>1 DEF Call
  <2>2. loop'.pages = 0 /\ loop'.property = 0 /\ table' = table
    BY <1>1, <2>1 DEF CallStarts, QueryAlgs, QueryPcrs, HasAlg, GetAlgProps,
                      ForEachAlgProps, ForEachPcrBank, BeginQuery
  <2>3. Below(loop.property)' = {}
    BY <1>0, <2>2 DEF Below
  <2> QED
    BY <2>2, <2>3, FS_EmptySet
<1>2. ASSUME UNCHANGED <<table, api>>, clean, pc # "done",
             pc' = "request" => pc = "request",
             loop'.property = loop.property, loop'.pages = loop.pages
      PROVE  /\ loop'.pages <= Cardinality(Below(loop.property)')
             /\ pc' = "request" /\ loop'.pages > 0 =>
                  \E d \in DOMAIN table' : d >= loop'.property
  <2>1. Below(loop.property)' = Below(loop.property)
    BY <1>2 DEF Below
  <2> QED
    BY <1>2, <2>1 DEF LimitInv, Below
<1>3. CASE PageLimit \/ XferFails \/ EntryRejected \/ ParseAlgProps \/ DamagedAnswer
  BY <1>3 DEF PageLimit, XferFails, EntryRejected, ParseAlgProps, DamagedAnswer, Finish, End
<1>4. CASE SoundAnswer
  <2>1. PICK p : GetcapRaw(p) /\ clean' = clean
    BY <1>4 DEF SoundAnswer
  <2>2. pc = "request" /\ UNCHANGED <<table, api, loop>>
    BY <2>1 DEF GetcapRaw, End
  <2> QED
    BY <1>2, <2>1, <2>2
<1>5. CASE ParseAlgs \/ ParsePcrs \/ ParseAlgsFind \/ ParsePcrsFind
  <2>1. /\ ReadEntry /\ EntryReadable /\ pc = "entries"
        /\ UNCHANGED <<table, api, pc, clean>>
    BY <1>5 DEF ParseAlgs, ParsePcrs, ParseAlgsFind, ParsePcrsFind, Callback, Finish, End,
                InPage, kept
  <2> QED
    BY <1>2, <2>1, ReadEntryFacts
<1>6. CASE EndOfPage
  <2>1. /\ pc = "entries" /\ parsed >= page.count /\ page.more /\ parsed > 0
        /\ UNCHANGED <<table, api, clean>> /\ api # "get_alg_props"
        /\ loop'.property = loop.last + 1 /\ loop'.pages = loop.pages + 1
    BY <1>6, AfterPageFacts
  <2>2. /\ Cap(api) = "algs" /\ \E d \in DOMAIN table : d >= loop.last + 1
    BY <2>1, SeenPage
  <2>3. /\ parsed \in 1 .. Len(page.entries) /\ loop.last = page.entries[parsed].id
        /\ loop.last \in DOMAIN table /\ loop.last \in Nat
    BY <2>1, CleanPage
  <2>4. loop.last >= loop.property
    BY <2>1, <2>2, <2>3, CleanAlgs
  <2>5. Cardinality(Below(loop.last + 1)) >= Cardinality(Below(loop.property)) + 1
        /\ Cardinality(Below(loop.property)) \in Nat
        /\ Cardinality(Below(loop.last + 1)) \in Nat
    BY SMTT(30), <1>0, <2>3, <2>4, BelowGrows
  <2>6. loop.pages <= Cardinality(Below(loop.property))
    BY <2>1 DEF LimitInv, Below
  <2>7. Below(loop.property)' = Below(loop.last + 1)
    BY <2>1 DEF Below
  <2>8. loop.pages + 1 <= Cardinality(Below(loop.last + 1))
    BY <1>0, <2>5, <2>6
  <2> QED
    BY <2>1, <2>2, <2>7, <2>8
<1>7. CASE UNCHANGED vars
  BY <1>2, <1>7 DEF vars
<1> QED
  BY <1>1, <1>3, <1>4, <1>5, <1>6, <1>7 DEF Next, CallGoesOn

LEMMA NextManyPages ==
    TypeInv /\ CallInv /\ LimitInv /\ LimitMeansManyPages /\ [Next]_vars
        => LimitMeansManyPages'
<1> SUFFICES ASSUME TypeInv, CallInv, LimitInv, LimitMeansManyPages, [Next]_vars,
                    clean', ret' = "ERR_ITERATION_LIMIT"
             PROVE  Cardinality(DOMAIN table') > TPM_MAX_PAGES
  BY DEF LimitMeansManyPages
<1>1. CASE CallStarts
  BY <1>1 DEF CallStarts, QueryAlgs, QueryPcrs, HasAlg, GetAlgProps, ForEachAlgProps,
              ForEachPcrBank, BeginQuery, Call
<1>2. CASE PageLimit
  <2>1. /\ pc = "request" /\ api # "get_alg_props" /\ ~(loop.pages < TPM_MAX_PAGES)
        /\ UNCHANGED <<table, clean>>
    BY <1>2 DEF PageLimit, PagesLeft, kept
  <2>2. /\ TPM_MAX_PAGES \in Nat /\ TPM_MAX_PAGES > 0
        /\ loop.property \in Nat /\ loop.pages \in Nat
    BY ConstantFacts DEF TypeInv, TypeOK
  <2>3. loop.pages <= Cardinality(Below(loop.property))
    BY <2>1 DEF LimitInv, Below
  <2>4. PICK d \in DOMAIN table : d >= loop.property
    BY <2>1, <2>2 DEF LimitInv
  <2>5. d \in Nat /\ IsFiniteSet(DOMAIN table) /\ Cardinality(DOMAIN table) \in Nat
    BY TableFacts DEF TypeInv
  <2>6. /\ Cardinality(Below(loop.property)) \in Nat /\ Cardinality(Below(d + 1)) \in Nat
        /\ Cardinality(Below(d + 1)) >= Cardinality(Below(loop.property)) + 1
    BY <2>2, <2>4, <2>5, BelowGrows
  <2>7. Below(d + 1) \in SUBSET DOMAIN table
    BY DEF Below
  <2>8. Cardinality(Below(d + 1)) <= Cardinality(DOMAIN table)
    BY <2>5, <2>7, FS_Subset
  <2> QED
    BY <2>1, <2>2, <2>3, <2>5, <2>6, <2>8
<1>3. CASE XferFails \/ DamagedAnswer
  BY <1>3 DEF XferFails, DamagedAnswer
<1>4. CASE SoundAnswer \/ EntryRejected \/ ParseAlgProps
  BY <1>4 DEF SoundAnswer, GetcapRaw, EntryRejected, ParseAlgProps, Finish, End, CallInv
<1>5. CASE ParseAlgs \/ ParsePcrs \/ ParseAlgsFind \/ ParsePcrsFind
  BY <1>5 DEF ParseAlgs, ParsePcrs, ParseAlgsFind, ParsePcrsFind, Callback, Finish, End,
              InPage, CallInv
<1>6. CASE EndOfPage
  BY <1>6, AfterPageFacts DEF CallInv
<1>7. CASE UNCHANGED vars
  BY <1>7 DEF vars, LimitMeansManyPages
<1> QED
  BY <1>1, <1>2, <1>3, <1>4, <1>5, <1>6, <1>7 DEF Next, CallGoesOn

-----------------------------------------------------------------------------
(* Sound answers are accepted.                                             *)

\* TailSize adds up the entries from the last one.
LEMMA TailSizeFacts ==
    ASSUME TypeOK, NEW cap, NEW es \in Seq(Entries)
    PROVE  /\ TailSize(cap, es)[0] = 0
           /\ \A k \in 0 .. Len(es) : TailSize(cap, es)[k] \in Nat
           /\ \A k \in 1 .. Len(es) :
                TailSize(cap, es)[k] =
                    EntrySize(cap, es[Len(es) + 1 - k]) + TailSize(cap, es)[k - 1]
<1> DEFINE n == Len(es)
           w == [k \in 1 .. n |-> EntrySize(cap, es[n + 1 - k])]
           t == TailSize(cap, es)
<1>1. n \in Nat
  OBVIOUS
<1>2. w \in [1 .. n -> Nat]
  <2>1. ASSUME NEW k \in 1 .. n PROVE EntrySize(cap, es[n + 1 - k]) \in Nat
    <3>1. n + 1 - k \in 1 .. n
      BY <1>1
    <3>2. es[n + 1 - k] \in Entries
      BY <3>1
    <3>3. es[n + 1 - k].len \in Nat
      BY <3>2, EntriesFacts
    <3> QED
      BY <3>3 DEF EntrySize
  <2> QED
    BY <2>1
<1>3. PICK f \in [0 .. n -> Nat] : f[0] = 0 /\ \A k \in 1 .. n : f[k] = w[k] + f[k - 1]
  <2> HIDE DEF n, w
  <2> QED
    BY <1>1, <1>2, SumExists
<1>4. f = [k \in 0 .. n |-> IF k = 0 THEN 0 ELSE EntrySize(cap, es[n + 1 - k]) + f[k - 1]]
  <2>1. ASSUME NEW k \in 0 .. n
        PROVE  f[k] = IF k = 0 THEN 0 ELSE EntrySize(cap, es[n + 1 - k]) + f[k - 1]
    <3>1. CASE k = 0
      BY <1>3, <3>1
    <3>2. CASE k # 0
      <4>1. k \in 1 .. n
        BY <1>1, <3>2
      <4>2. w[k] = EntrySize(cap, es[n + 1 - k])
        BY <4>1
      <4> HIDE DEF n, w
      <4> QED
        BY <1>3, <3>2, <4>1, <4>2
    <3> QED
      BY <3>1, <3>2
  <2> HIDE DEF n
  <2> QED
    BY <1>3, <2>1
<1>5. t = CHOOSE g : g = [k \in 0 .. n |->
              IF k = 0 THEN 0 ELSE EntrySize(cap, es[n + 1 - k]) + g[k - 1]]
  BY DEF TailSize
<1> HIDE DEF t
<1>6. t = [k \in 0 .. n |-> IF k = 0 THEN 0 ELSE EntrySize(cap, es[n + 1 - k]) + t[k - 1]]
  BY <1>4, <1>5, Zenon
<1>7. \A k \in 0 .. n : t[k] = IF k = 0 THEN 0 ELSE EntrySize(cap, es[n + 1 - k]) + t[k - 1]
  BY <1>6
<1>8. t[0] = 0 /\ \A k \in 1 .. n : t[k] = w[k] + t[k - 1]
  BY <1>1, <1>7
<1> DEFINE S == {m \in Nat : m <= n => t[m] \in Nat}
<1> HIDE DEF n, w
<1>9. S = Nat
  <2>1. 0 \in S
    BY <1>8
  <2>2. ASSUME NEW m \in S PROVE m + 1 \in S
    <3> SUFFICES ASSUME m + 1 <= n PROVE t[m + 1] \in Nat
      OBVIOUS
    <3>1. t[m] \in Nat /\ m + 1 \in 1 .. n /\ (m + 1) - 1 = m
      BY <1>1
    <3>2. t[m + 1] = w[m + 1] + t[m] /\ w[m + 1] \in Nat
      BY <1>2, <1>8, <3>1
    <3> QED
      BY <3>1, <3>2
  <2>3. S \in SUBSET Nat
    OBVIOUS
  <2> HIDE DEF S
  <2> QED
    BY <2>1, <2>2, <2>3, SetInduction
<1>10. \A k \in 0 .. n : t[k] \in Nat
  BY <1>1, <1>9
<1>11. \A k \in 1 .. n : w[k] = EntrySize(cap, es[n + 1 - k])
  BY DEF w
<1> QED
  BY <1>8, <1>10, <1>11 DEF t, n

LEMMA SoundSize ==
    ASSUME TypeInv, NEW p \in SoundPages
    PROVE  /\ RawSucceeds(p) /\ PayloadStarts(p)
           /\ p.size - 9 = TailSize(Cap(api), p.entries)[Len(p.entries)]
<1>1. PICK em \in SeqsUpTo(Cardinality(DOMAIN table)) \X BOOLEAN :
          /\ PayloadSize(Cap(api), em[1]) <= MAX_CMD_DATA
          /\ p = [sound |-> TRUE, cap |-> Cap(api), more |-> em[2], count |-> Len(em[1]),
                  entries |-> em[1], size |-> PayloadSize(Cap(api), em[1])]
  BY Zenon DEF SoundPages
<1>2. em[1] \in Seq(Entries)
  BY TableFacts, SeqsFacts DEF TypeInv
<1>3. p.sound /\ p.cap = Cap(api) /\ p.entries = em[1]
      /\ p.size = PayloadSize(Cap(api), em[1])
  BY <1>1
<1>4. Len(em[1]) \in 0 .. Len(em[1])
  BY <1>2
<1>5. TailSize(Cap(api), em[1])[Len(em[1])] \in Nat
  BY <1>2, <1>4, TailSizeFacts DEF TypeInv
<1>6. PayloadSize(Cap(api), em[1]) = 9 + TailSize(Cap(api), em[1])[Len(em[1])]
  BY DEF PayloadSize
<1>7. p.size \in 1 .. MAX_CMD_DATA /\ p.size >= 9
      /\ p.size - 9 = TailSize(Cap(api), p.entries)[Len(p.entries)]
  BY <1>1, <1>3, <1>5, <1>6, ConstantFacts
<1> QED
  BY <1>3, <1>7 DEF RawSucceeds, PayloadStarts

\* There are bytes for every entry that is left.
LEMMA BytesForEntry ==
    ASSUME TypeInv, PageInv, SizeInv, clean, pc = "entries", parsed < Len(page.entries)
    PROVE  /\ remain >= EntrySize(Cap(api), Entry)
           /\ remain - EntrySize(Cap(api), Entry)
                = TailSize(Cap(api), page.entries)[Len(page.entries) - (parsed + 1)]
<1> DEFINE n == Len(page.entries)
           t == TailSize(Cap(api), page.entries)
<1>1. page.entries \in Seq(Entries) /\ TypeOK
  BY DEF TypeInv, TypeOK
<1>2. n \in Nat /\ parsed \in 0 .. n
  BY CleanPage
<1>3. EntrySize(Cap(api), Entry) \in Nat
  BY EntryFacts DEF EntrySize
<1>4. remain = t[n - parsed]
  BY DEF SizeInv
<1>5. /\ \A k \in 0 .. n : t[k] \in Nat
      /\ \A k \in 1 .. n :
           t[k] = EntrySize(Cap(api), page.entries[n + 1 - k]) + t[k - 1]
  BY <1>1, TailSizeFacts
<1> HIDE DEF t
<1>6. /\ n - parsed \in 1 .. n /\ n + 1 - (n - parsed) = parsed + 1
      /\ (n - parsed) - 1 = n - (parsed + 1) /\ n - (parsed + 1) \in 0 .. n
  BY <1>2
<1> HIDE DEF n
<1>7. t[n - parsed] = EntrySize(Cap(api), Entry) + t[n - (parsed + 1)]
  BY <1>5, <1>6 DEF Entry
<1>8. t[n - (parsed + 1)] \in Nat
  BY <1>5, <1>6
<1>9. remain >= EntrySize(Cap(api), Entry)
      /\ remain - EntrySize(Cap(api), Entry) = t[n - (parsed + 1)]
  BY <1>3, <1>4, <1>7, <1>8
<1> QED
  BY <1>9 DEF n, t

LEMMA NextSize == TypeInv /\ PageInv /\ SizeInv /\ [Next]_vars => SizeInv'
<1> SUFFICES ASSUME TypeInv, PageInv, SizeInv, [Next]_vars, clean', pc' = "entries"
             PROVE  SizeInv'
  BY DEF SizeInv
<1>1. CASE CallStarts
  BY <1>1 DEF CallStarts, QueryAlgs, QueryPcrs, HasAlg, GetAlgProps, ForEachAlgProps,
              ForEachPcrBank, BeginQuery
<1>2. CASE PageLimit \/ XferFails \/ EntryRejected \/ ParseAlgProps \/ EndOfPage
  BY <1>2 DEF PageLimit, XferFails, EntryRejected, ParseAlgProps, EndOfPage, AfterPage,
              Finish, End
<1>3. CASE SoundAnswer
  <2>1. PICK p \in SoundPages : GetcapRaw(p)
    BY <1>3 DEF SoundAnswer
  <2>2. page' = p /\ remain' = p.size - 9 /\ parsed' = 0 /\ api' = api
    BY <2>1 DEF GetcapRaw, End
  <2>3. p.size - 9 = TailSize(Cap(api), p.entries)[Len(p.entries)]
    BY SoundSize
  <2>4. Len(p.entries) - 0 = Len(p.entries)
    BY SoundFacts DEF TypeInv
  <2> QED
    BY <2>2, <2>3, <2>4 DEF SizeInv, TailSize, EntrySize, Cap
<1>4. CASE DamagedAnswer
  BY <1>4 DEF DamagedAnswer
<1>5. CASE ParseAlgs \/ ParsePcrs \/ ParseAlgsFind \/ ParsePcrsFind
  <2>1. /\ ReadEntry /\ EntryReadable /\ pc = "entries"
        /\ UNCHANGED <<api, page, clean>>
    BY <1>5 DEF ParseAlgs, ParsePcrs, ParseAlgsFind, ParsePcrsFind, Callback, Finish, End,
                InPage, kept
  <2>2. /\ remain' = remain - EntrySize(Cap(api), Entry) /\ parsed' = parsed + 1
    BY <2>1 DEF ReadEntry
  <2>3. remain - EntrySize(Cap(api), Entry)
          = TailSize(Cap(api), page.entries)[Len(page.entries) - (parsed + 1)]
    BY <2>1, BytesForEntry DEF EntryReadable
  <2> QED
    BY <2>1, <2>2, <2>3 DEF SizeInv, TailSize, EntrySize, Cap
<1>6. CASE UNCHANGED vars
  <2>1. UNCHANGED <<api, page, parsed, remain, clean, pc>>
    BY <1>6 DEF vars
  <2> QED
    BY <2>1 DEF SizeInv, TailSize, EntrySize, Cap
<1> QED
  BY <1>1, <1>2, <1>3, <1>4, <1>5, <1>6 DEF Next, CallGoesOn

LEMMA NextAccepted ==
    TypeInv /\ CallInv /\ PageInv /\ SizeInv /\ SoundAnswersAccepted /\ [Next]_vars
        => SoundAnswersAccepted'
<1> SUFFICES ASSUME TypeInv, CallInv, PageInv, SizeInv, SoundAnswersAccepted, [Next]_vars,
                    clean', ret' = "ERR_RESPONSE"
             PROVE  SoundAnswersAccepted'
  BY DEF SoundAnswersAccepted
<1>1. CASE CallStarts
  BY <1>1 DEF CallStarts, QueryAlgs, QueryPcrs, HasAlg, GetAlgProps, ForEachAlgProps,
              ForEachPcrBank, BeginQuery
<1>2. CASE PageLimit \/ XferFails \/ DamagedAnswer \/ ParseAlgProps
  BY <1>2 DEF PageLimit, XferFails, DamagedAnswer, ParseAlgProps, Finish, End
<1>3. CASE SoundAnswer
  BY <1>3, SoundSize DEF SoundAnswer, GetcapRaw, CallInv
<1>4. CASE EntryRejected
  <2>1. /\ pc = "entries" /\ ~EntryReadable /\ UNCHANGED <<table, api, clean>>
        /\ loop' = [loop EXCEPT !.last = 0, !.pages = 0]
        /\ api = "get_alg_props" \/ parsed < page.count
    BY <1>4 DEF EntryRejected, InPage, Finish, End, kept
  <2>2. loop'.property = loop.property
    BY <2>1 DEF TypeInv, TypeOK
  <2>3. page.count = Len(page.entries) /\ Len(page.entries) \in Nat
    BY <2>1, CleanPage
  <2>4. CASE parsed < Len(page.entries)
    <3>1. remain >= EntrySize(Cap(api), Entry)
      BY <2>1, <2>4, BytesForEntry
    <3>2. Cap(api) = "pcrs" /\ ~(Entry.len <= TPM_PCR_SELECT_SIZE)
      BY <2>1, <2>4, <3>1 DEF EntryReadable
    <3>3. Entry \in Entries
      BY <2>4, EntryFacts
    <3>4. /\ Entry.id \in DOMAIN table /\ Entry.len = table[Entry.id].len
          /\ Entry.len \in Nat
      BY <3>3, EntriesFacts DEF TypeInv
    <3>5. table[Entry.id].len > TPM_PCR_SELECT_SIZE
      BY <3>2, <3>4, ConstantFacts
    <3> QED
      BY <2>1, <3>2, <3>4, <3>5 DEF SoundAnswersAccepted, Cap
  <2>5. CASE ~(parsed < Len(page.entries))
    <3>1. api = "get_alg_props" /\ parsed = 0
      BY <2>1, <2>3, <2>5 DEF CallInv
    <3>2. Cap(api) = "algs" /\ Len(page.entries) = 0
      BY <2>3, <2>5, <3>1 DEF Cap
    <3>3. page.entries = <<>> /\ Listed(page.entries) = {}
      BY <3>2 DEF Listed, TypeInv, TypeOK
    <3>4. AlgsFrom(page.entries, page.more)
      BY <2>1, <3>2 DEF PageInv, SoundList
    <3>5. ~page.more
      BY <3>3, <3>4 DEF AlgsFrom
    <3>6. \A d \in DOMAIN table : ~(d >= loop.property)
      BY <2>1, <3>2, <3>3, <3>5, CleanAlgs
    <3>7. DOMAIN table \subseteq Nat /\ loop.property \in Nat
      BY TableFacts DEF TypeInv, TypeOK
    <3>8. \A d \in DOMAIN table : d < loop.property
      BY <3>6, <3>7
    <3> QED
      BY <2>1, <2>2, <3>1, <3>8 DEF SoundAnswersAccepted
  <2> QED
    BY <2>4, <2>5
<1>5. CASE ParseAlgs \/ ParsePcrs \/ ParseAlgsFind \/ ParsePcrsFind
  BY <1>5 DEF ParseAlgs, ParsePcrs, ParseAlgsFind, ParsePcrsFind, Callback, Finish, End,
              InPage, CallInv
<1>6. CASE EndOfPage
  <2>1. /\ pc = "entries" /\ parsed >= page.count /\ clean
        /\ page.more /\ parsed = 0
    BY <1>6 DEF EndOfPage, AfterPage, Finish, End, CallInv, kept
  <2>2. Len(page.entries) = 0
    BY <2>1, CleanPage
  <2>3. page.entries = <<>>
    BY <2>2 DEF TypeInv, TypeOK
  <2> QED
    BY <2>1, <2>3 DEF PageInv, SoundList, AlgsFrom, AllBanks
<1>7. CASE UNCHANGED vars
  BY <1>7 DEF vars, SoundAnswersAccepted, Cap
<1> QED
  BY <1>1, <1>2, <1>3, <1>4, <1>5, <1>6, <1>7 DEF Next, CallGoesOn

-----------------------------------------------------------------------------
(* The theorems.                                                           *)

LEMMA InitInv == Init => IInv
<1> SUFFICES ASSUME Init PROVE IInv
  OBVIOUS
<1>1. /\ table \in Tables /\ api = "get_alg_props" /\ masks = NoMasks
      /\ query = <<>> /\ out = Untouched /\ pc = "done" /\ ret = "none"
      /\ loop = [property |-> 0, last |-> 0, pages |-> 0]
      /\ Fresh /\ visited = <<>>
  BY DEF Init, Fresh
<1>2. found \in BOOLEAN /\ clean \in BOOLEAN
  BY Zenon DEF Init
<1>3. PageOK
  BY <1>1, FreshIsOK
<1>4. LoopOK
  BY <1>1, ConstantFacts DEF LoopOK
<1>5. query \in Seq([id : Ids, val : Values]) /\ visited \in Seq(Ids) /\ DOMAIN query = {}
  BY <1>1
<1>6. out \in Outputs /\ masks \in [set : Values, clear : Values]
  BY <1>1, OutputsFacts, MasksAreValues
<1>7. TypeInv
  BY <1>1, <1>2, <1>3, <1>4, <1>5, <1>6
     DEF TypeInv, TypeOK, PageOK, LoopOK, Apis, Returns
<1>8. CallInv
  BY <1>1 DEF CallInv, Fresh
<1>9. NothingInvented
  BY <1>1, <1>5, OutputFields DEF NothingInvented
<1>10. PageInv /\ QueryInv /\ VisitInv /\ LimitInv
  BY <1>1 DEF PageInv, QueryInv, VisitInv, LimitInv
<1>11. QueryExact /\ AlgPropsExact /\ EachVisitedOnce /\ LimitMeansManyPages
  BY <1>1 DEF QueryExact, AlgPropsExact, Succeeded, EachVisitedOnce, Finds,
              LimitMeansManyPages
<1>12. SizeInv /\ SoundAnswersAccepted
  BY <1>1 DEF SizeInv, SoundAnswersAccepted
<1> QED
  BY <1>7, <1>8, <1>9, <1>10, <1>11, <1>12 DEF IInv

LEMMA NextInv == IInv /\ [Next]_vars => IInv'
BY NextType, NextCall, NextPageInv, NextNothing, NextQueryInv, NextQueryExact, NextAlgProps,
   NextVisits, NextLimit, NextManyPages, NextSize, NextAccepted DEF IInv

LEMMA Invariance == Spec => []IInv
BY InitInv, NextInv, PTL DEF Spec

\* Whatever a TPM or a bus answers, the iterators of tpm2_cmds.c never run below
\* zero, the loops stay within TPM_MAX_PAGES and every result keeps its type.
THEOREM TypeCorrect == Spec => []TypeOK
BY Invariance, PTL DEF IInv, TypeInv

\* The parsers write into the caller's array while they read: whatever is cut
\* off, damaged or repeated, they never write what the TPM does not implement,
\* nor behind the terminator.
THEOREM InventsNothing == Spec => []NothingInvented
BY Invariance, PTL DEF IInv

\* The queries of tpm2_cmds.c stop paging at the largest identifier asked for
\* and still answer exactly, for every TPM, query and choice of page sizes.
THEOREM QueriesAreExact == Spec => []QueryExact
BY Invariance, PTL DEF IInv

\* tpm_get_alg_props tells exactly whether the algorithm is implemented.
THEOREM PropsAreExact == Spec => []AlgPropsExact
BY Invariance, PTL DEF IInv

\* The for_each functions call back once for every matching property.
THEOREM VisitsOnce == Spec => []EachVisitedOnce
BY Invariance, PTL DEF IInv

\* ERR_ITERATION_LIMIT tells the truth about the TPM when nothing failed.
THEOREM LimitIsJustified == Spec => []LimitMeansManyPages
BY Invariance, PTL DEF IInv

\* Without a fault the parsers refuse an answer only in the two known cases: the
\* bytes of a sound page always suffice for the entries it lists.
THEOREM AcceptsSoundAnswers == Spec => []SoundAnswersAccepted
BY Invariance, PTL DEF IInv
=============================================================================
