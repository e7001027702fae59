--------------------------- MODULE GetCapability ----------------------------
(***************************************************************************)
(* The GetCapability functions of tpm2_cmds.c: the queries, the for_each   *)
(* loops with their callbacks, tpm_has_alg and tpm_get_alg_props, which    *)
(* page through what the TPM lists and parse each page with an iterator    *)
(* over the bytes of the response.  Any transfer may fail and any page may *)
(* be damaged: cut short, out of order, repeated, with a wrong count.      *)
(* The library keeps nothing between two of these calls.                   *)
(***************************************************************************)
EXTENDS Integers, Sequences, FiniteSets, FiniteSetsExt, SequencesExt

CONSTANTS
    Ids,                     \* algorithm identifiers, TPM_ALG_NULL among them
    TPM_ALG_NULL,
    TPM_PCR_SELECT_SIZE,     \* bytes of a PCR selection
    TPM_DEFAULT_PAGE_COUNT,  \* properties asked for at a time
    TPM_MAX_PAGES,
    TPM_MAX_ALG_PROPERTIES,  \* length of a query for algorithms
    TPM_MAX_PCR_SELECTIONS,  \* length of a query for PCR banks
    MAX_CMD_DATA,            \* bytes of a tpm_cmd behind its header
    Tables,                  \* what a TPM may implement
    MaskValues,              \* masks passed to tpm_for_each_alg_props
    QueryArrays,             \* arrays of identifiers passed to the queries
    MaxDamaged,              \* largest number of entries of a damaged page
    Missing                  \* numbers of bytes a damaged page may lack

\* A property mask or a PCR selection is a set of bits.  Bit b of a selection
\* stands for the PCRs of its byte b.
Bits == 0 .. TPM_PCR_SELECT_SIZE - 1
Values == SUBSET Bits
Row == [val : Values, len : 0 .. TPM_PCR_SELECT_SIZE + 1]

UINT16_MAX == 65535

ASSUME GetCapabilityAssumption ==
    /\ Ids \subseteq 0 .. UINT16_MAX /\ TPM_ALG_NULL \in Ids
    /\ {TPM_PCR_SELECT_SIZE, TPM_DEFAULT_PAGE_COUNT, TPM_MAX_PAGES,
        TPM_MAX_ALG_PROPERTIES, TPM_MAX_PCR_SELECTIONS,
        MAX_CMD_DATA} \subseteq Nat \ {0}
    /\ {MaxDamaged} \cup Missing \subseteq Nat
    /\ \A t \in Tables : DOMAIN t \subseteq Ids /\ t \in [DOMAIN t -> Row]
    /\ QueryArrays \subseteq Seq(Ids) /\ MaskValues \subseteq Values
    /\ \A a \in QueryArrays :      \* no array ends before the loops over it
         \/ \E k \in DOMAIN a : a[k] = TPM_ALG_NULL
         \/ Len(a) >= TPM_MAX_ALG_PROPERTIES /\ Len(a) >= TPM_MAX_PCR_SELECTIONS

VARIABLES
    table,     \* what the TPM implements: identifier -> value
    api,       \* the function called
    masks,     \* must_set_mask and must_clear_mask
    query,     \* the caller's array; val is enabled or pcr_select
    out,       \* out_supported and out_props, or untouched
    pc,        \* "request", "entries" or "done"
    loop,      \* property, last_alg or last_hash, pages_used
    page,      \* the response being parsed
    remain,    \* bytes left in the iterator
    parsed,    \* parsed_count
    ret,
    visited,   \* identifiers the callback got, while clean
    found,     \* the callback returned true
    clean      \* no transfer of this call failed, no page was damaged

vars == <<table, api, masks, query, out, pc, loop, page, remain, parsed, ret,
          visited, found, clean>>
kept == <<table, api, masks, clean>>

Queries == {"query_algs", "query_pcrs", "has_alg"}
Finds == {"for_each_alg_props", "for_each_pcr_bank"}
Apis == Queries \cup Finds \cup {"get_alg_props"}

Cap(a) == IF a \in {"query_pcrs", "for_each_pcr_bank"} THEN "pcrs" ELSE "algs"

Outputs == [written : BOOLEAN, supported : BOOLEAN, props : Values]
Untouched == [written |-> FALSE, supported |-> FALSE, props |-> {}]
Supported(props) == [written |-> TRUE, supported |-> TRUE, props |-> props]
Unsupported == [written |-> TRUE, supported |-> FALSE, props |-> {}]
Enabled == Bits     \* enabled = true; FALSE and the empty selection are {}

NoMasks == [set |-> {}, clear |-> {}]
NoPage == [sound |-> TRUE, cap |-> "algs", more |-> FALSE, count |-> 0,
           entries |-> <<>>, size |-> 0]

Init ==
    /\ table \in Tables
    /\ api = "get_alg_props" /\ masks = NoMasks
    /\ query = <<>> /\ out = Untouched
    /\ pc = "done" /\ ret = "none"
    /\ loop = [property |-> 0, last |-> 0, pages |-> 0]
    /\ page = NoPage /\ remain = 0 /\ parsed = 0
    /\ visited = <<>> /\ found = FALSE /\ clean = TRUE

(***************************************************************************)
(* The caller.                                                             *)
(***************************************************************************)
Limit(a) ==
    IF Cap(a) = "pcrs" THEN TPM_MAX_PCR_SELECTIONS ELSE TPM_MAX_ALG_PROPERTIES

\* The entries of a query the loops reach: those before the terminator.
Items(a, ids) ==
    {k \in DOMAIN ids : k <= Limit(a) /\ \A j \in 1 .. k : ids[j] # TPM_ALG_NULL}

Terminated(a, ids) ==
    \E k \in DOMAIN ids : k <= Limit(a) /\ ids[k] = TPM_ALG_NULL

QueryIds == [k \in DOMAIN query |-> query[k].id]

MaxId == Max({0} \cup {query[k].id : k \in Items(api, QueryIds)})

Call(a, q, property) ==
    /\ pc = "done"
    /\ api' = a
    /\ query' = q
    /\ loop' = [property |-> property, last |-> 0, pages |-> 0]
    /\ page' = NoPage /\ remain' = 0 /\ parsed' = 0
    /\ visited' = <<>> /\ found' = FALSE /\ clean' = TRUE
    /\ UNCHANGED table

\* What an entry holds before the call: anything, of a query of the caller.
Before(a) == IF a = "has_alg" THEN {} ELSE Enabled

\* The array is cleared up to its terminator.
Cleared(a, ids) ==
    [k \in DOMAIN ids |->
        [id |-> ids[k], val |-> IF k \in Items(a, ids) THEN {} ELSE Before(a)]]

BeginQuery(a, ids) ==
    /\ Call(a, Cleared(a, ids), 0)
    /\ masks' = NoMasks
    /\ \/ /\ ~Terminated(a, ids)
          /\ pc' = "done" /\ ret' = "INVALID_PARAM"
       \/ /\ Terminated(a, ids) /\ Items(a, ids) = {}
          /\ pc' = "done" /\ ret' = "SUCCESS"
       \/ /\ Terminated(a, ids) /\ Items(a, ids) # {}
          /\ pc' = "request" /\ ret' = "none"

QueryAlgs ==
    /\ \E ids \in QueryArrays : BeginQuery("query_algs", ids)
    /\ out' = Untouched

QueryPcrs ==
    /\ \E ids \in QueryArrays : BeginQuery("query_pcrs", ids)
    /\ out' = Untouched

HasAlg ==
    /\ \E id \in Ids : BeginQuery("has_alg", <<id, TPM_ALG_NULL>>)
    /\ out' = IF ret' = "SUCCESS" THEN Unsupported ELSE Untouched

GetAlgProps ==
    /\ \E id \in Ids : Call("get_alg_props", <<>>, id)
    /\ masks' = NoMasks /\ out' = Untouched
    /\ pc' = "request" /\ ret' = "none"

ForEachAlgProps ==
    /\ Call("for_each_alg_props", <<>>, 0)
    /\ masks' \in [set : MaskValues, clear : MaskValues]
    /\ out' = Untouched
    /\ pc' = "request" /\ ret' = "none"

ForEachPcrBank ==
    /\ Call("for_each_pcr_bank", <<>>, 0)
    /\ masks' = NoMasks /\ out' = Untouched
    /\ pc' = "request" /\ ret' = "none"

\* The call ends and its locals are gone.
End(r) ==
    /\ pc' = "done"
    /\ ret' = r
    /\ page' = NoPage /\ remain' = 0 /\ parsed' = 0
    /\ loop' = [loop EXCEPT !.last = 0, !.pages = 0]

\* tpm_has_alg passes the result of its query on.
Finish(r) ==
    /\ End(r)
    /\ out' = IF api = "has_alg" /\ r = "SUCCESS"
              THEN IF query[1].val # {} THEN Supported({}) ELSE Unsupported
              ELSE out

(***************************************************************************)
(* The TPM's answers (external).                                           *)
(***************************************************************************)
Entries == {[id |-> d, val |-> table[d].val, len |-> table[d].len] : d \in DOMAIN table}

SeqsUpTo(n) == UNION {[1 .. k -> Entries] : k \in 0 .. n}

Listed(es) == {es[k].id : k \in DOMAIN es}

Distinct(es) == \A j, k \in DOMAIN es : j # k => es[j].id # es[k].id

\* Algorithms come in ascending order from the property asked for, as many as
\* the TPM likes; more data means that there are others behind.
AlgsFrom(es, more) ==
    LET behind == {d \in DOMAIN table : d >= loop.property /\ d \notin Listed(es)} IN
    /\ Len(es) <= IF api = "get_alg_props" THEN 1 ELSE TPM_DEFAULT_PAGE_COUNT
    /\ \A j, k \in DOMAIN es : j < k => es[j].id < es[k].id
    /\ \A d \in Listed(es) : d >= loop.property /\ \A b \in behind : d < b
    /\ more = (behind # {})
    /\ more => es # <<>>

\* PCR banks come all at once, in any order.
AllBanks(es, more) == Listed(es) = DOMAIN table /\ Distinct(es) /\ ~more

EntrySize(cap, e) == IF cap = "algs" THEN 6 ELSE 3 + e.len

\* The bytes of the last n entries, for every n.
TailSize(cap, es) ==
    LET bytes[n \in 0 .. Len(es)] ==
          IF n = 0 THEN 0 ELSE EntrySize(cap, es[Len(es) + 1 - n]) + bytes[n - 1]
    IN  bytes

PayloadSize(cap, es) == 9 + TailSize(cap, es)[Len(es)]

SoundList(es, more) ==
    IF Cap(api) = "algs" THEN AlgsFrom(es, more) ELSE AllBanks(es, more)

\* A longer answer is refused by tpm2_fifo_receive: XferFails stands for it.
SoundPages ==
    {[sound |-> TRUE, cap |-> Cap(api), more |-> em[2], count |-> Len(em[1]),
      entries |-> em[1], size |-> PayloadSize(Cap(api), em[1])] :
        em \in {lm \in SeqsUpTo(Cardinality(DOMAIN table)) \X BOOLEAN :
                  /\ SoundList(lm[1], lm[2])
                  /\ PayloadSize(Cap(api), lm[1]) <= MAX_CMD_DATA}}

\* What a damaged page lists is still true of the TPM.  sound is false when
\* the tag, the return code or the size of the whole response is wrong.
DamagedPages ==
    (UNION {LET full == PayloadSize(Cap(api), es) IN
              [sound : {TRUE}, cap : {Cap(api)}, more : BOOLEAN, entries : {es},
               count : {Len(es), Len(es) + 1},
               size : {full - cut : cut \in {c \in Missing : c <= full}}] :
            es \in SeqsUpTo(MaxDamaged)})
    \cup {[NoPage EXCEPT !.sound = FALSE], [NoPage EXCEPT !.cap = "other", !.size = 9]}

(***************************************************************************)
(* Requesting a page: getcap_raw, getcap_payload_start and the count.      *)
(***************************************************************************)
PagesLeft == api = "get_alg_props" \/ loop.pages < TPM_MAX_PAGES

PageLimit ==
    /\ pc = "request" /\ ~PagesLeft
    /\ Finish("ERR_ITERATION_LIMIT")
    /\ UNCHANGED <<kept, query, visited, found>>

\* tpm_xfer failed, with INVALID_PARAM for an answer that is too large.
XferFails ==
    /\ pc = "request" /\ PagesLeft
    /\ \E r \in {"INVALID_PARAM", "ERR_TIMEOUT", "ERR_TRANSFER"} : Finish(r)
    /\ clean' = FALSE
    /\ UNCHANGED <<table, api, masks, query, visited, found>>

\* One byte more_data, four of the capability, four of the count.
PayloadStarts(p) == p.size >= 9 /\ p.cap = Cap(api)

\* The payload has at least its first byte and lies within the buffer.
RawSucceeds(p) == p.sound /\ p.size \in 1 .. MAX_CMD_DATA

\* tpm_get_alg_props clears its outputs once getcap_raw has succeeded.
GetcapRaw(p) ==
    /\ pc = "request" /\ PagesLeft
    /\ IF RawSucceeds(p) /\ PayloadStarts(p)
       THEN /\ pc' = "entries" /\ page' = p /\ remain' = p.size - 9 /\ parsed' = 0
            /\ UNCHANGED <<loop, ret>>
       ELSE End("ERR_RESPONSE")
    /\ out' = IF api = "get_alg_props" /\ RawSucceeds(p) THEN Unsupported ELSE out
    /\ UNCHANGED <<table, api, masks, query, found>>

SoundAnswer ==
    \E p \in SoundPages : GetcapRaw(p) /\ UNCHANGED <<clean, visited>>

DamagedAnswer ==
    \E p \in DamagedPages : GetcapRaw(p) /\ clean' = FALSE /\ visited' = <<>>

(***************************************************************************)
(* Parsing one entry of a page.                                            *)
(***************************************************************************)
Entry == page.entries[parsed + 1]

\* Fault: the iterator does not look at what is left.
EntryReadableUnchecked ==
    /\ parsed < Len(page.entries)
    /\ Cap(api) = "pcrs" => Entry.len <= TPM_PCR_SELECT_SIZE

\* Fault: the last bytes of a response are never read.
EntryReadableBefore ==
    /\ parsed < Len(page.entries)
    /\ remain > EntrySize(Cap(api), Entry)
    /\ Cap(api) = "pcrs" => Entry.len <= TPM_PCR_SELECT_SIZE

\* All iter_read_ of an entry succeed, and its selection is not too long.
EntryReadable ==
    /\ parsed < Len(page.entries)
    /\ remain >= EntrySize(Cap(api), Entry)
    /\ Cap(api) = "pcrs" => Entry.len <= TPM_PCR_SELECT_SIZE

InPage == pc = "entries" /\ parsed < page.count /\ api # "get_alg_props"

ReadEntry ==
    /\ parsed' = parsed + 1
    /\ remain' = remain - EntrySize(Cap(api), Entry)
    /\ loop' = [loop EXCEPT !.last = Entry.id]

EntryRejected ==
    /\ InPage \/ (pc = "entries" /\ api = "get_alg_props")
    /\ ~EntryReadable
    /\ Finish("ERR_RESPONSE")
    /\ UNCHANGED <<kept, query, visited, found>>

\* What the parsers write for identifier id.
Answered(id, val) ==
    [k \in DOMAIN query |->
        IF k \in Items(api, QueryIds) /\ query[k].id = id
        THEN [query[k] EXCEPT !.val = val] ELSE query[k]]

ParseAlgs ==
    /\ InPage /\ api \in {"query_algs", "has_alg"}
    /\ EntryReadable
    /\ ReadEntry
    /\ query' = Answered(Entry.id, Enabled)
    /\ UNCHANGED <<kept, out, pc, page, ret, visited, found>>

\* Fault: pcr_select is copied before the error state is looked at, and still
\* points to the selection of the entry before.
ParsePcrsEarlyCopy ==
    /\ InPage /\ api = "query_pcrs"
    /\ parsed < Len(page.entries)
    /\ \/ EntryReadable /\ ReadEntry /\ query' = Answered(Entry.id, Entry.val)
       \/ /\ remain >= 3 /\ ~EntryReadable /\ parsed > 0
          /\ query' = Answered(Entry.id, page.entries[parsed].val)
          /\ UNCHANGED <<parsed, remain, loop>>
    /\ UNCHANGED <<kept, out, pc, page, ret, visited, found>>

ParsePcrs ==
    /\ InPage /\ api = "query_pcrs"
    /\ EntryReadable
    /\ ReadEntry
    /\ query' = Answered(Entry.id, Entry.val)
    /\ UNCHANGED <<kept, out, pc, page, ret, visited, found>>

\* The callback decides whether the loop goes on.
Callback ==
    /\ visited' = IF clean THEN Append(visited, Entry.id) ELSE visited
    /\ \E stop \in BOOLEAN :
         /\ found' = stop
         /\ IF stop THEN Finish("SUCCESS") ELSE ReadEntry /\ UNCHANGED <<pc, ret, out, page>>

Matches == masks.set \subseteq Entry.val /\ masks.clear \cap Entry.val = {}

ParseAlgsFind ==
    /\ InPage /\ api = "for_each_alg_props"
    /\ EntryReadable
    /\ IF Matches THEN Callback
       ELSE ReadEntry /\ UNCHANGED <<visited, found, pc, ret, out, page>>
    /\ UNCHANGED <<kept, query>>

ParsePcrsFind ==
    /\ InPage /\ api = "for_each_pcr_bank"
    /\ EntryReadable
    /\ Callback
    /\ UNCHANGED <<kept, query>>

\* Fault: the first algorithm listed is taken for the one asked for.
ParseAlgPropsUncompared ==
    /\ pc = "entries" /\ api = "get_alg_props"
    /\ EntryReadable
    /\ End("SUCCESS")
    /\ out' = Supported(Entry.val)
    /\ UNCHANGED <<kept, query, visited, found>>

\* tpm_get_alg_props reads one entry whatever the count says.
ParseAlgProps ==
    /\ pc = "entries" /\ api = "get_alg_props"
    /\ EntryReadable
    /\ End("SUCCESS")
    /\ out' = IF Entry.id = loop.property
              THEN Supported(Entry.val) ELSE out
    /\ UNCHANGED <<kept, query, visited, found>>

(***************************************************************************)
(* The end of a page.                                                      *)
(***************************************************************************)
\* Fault: the loop compares the next property instead of the last one.
AnotherPageBelow == page.more /\ (api \in Queries => loop.last + 1 < MaxId)

AnotherPage == page.more /\ (api \in Queries => loop.last < MaxId)

\* Fault: the last property is asked for again.
NextPropertyAgain == loop.last

NextProperty == loop.last + 1

AfterPage(pages) ==
    IF page.more /\ parsed = 0 THEN Finish("ERR_RESPONSE")
    ELSE IF ~AnotherPage THEN Finish("SUCCESS")
    ELSE /\ pc' = "request"
         /\ loop' = [loop EXCEPT !.property = NextProperty, !.pages = pages]
         /\ page' = NoPage /\ remain' = 0 /\ parsed' = 0
         /\ UNCHANGED <<ret, out>>

\* Fault: pages are not counted.
EndOfPageUncounted ==
    /\ pc = "entries" /\ api # "get_alg_props" /\ parsed >= page.count
    /\ AfterPage(loop.pages)
    /\ UNCHANGED <<kept, query, visited, found>>

\* After an empty page the loop is left, so last is not used then.
EndOfPage ==
    /\ pc = "entries" /\ api # "get_alg_props" /\ parsed >= page.count
    /\ AfterPage(loop.pages + 1)
    /\ UNCHANGED <<kept, query, visited, found>>

CallStarts ==
    \/ QueryAlgs \/ QueryPcrs \/ HasAlg \/ GetAlgProps
    \/ ForEachAlgProps \/ ForEachPcrBank

CallGoesOn ==
    \/ PageLimit \/ XferFails \/ SoundAnswer \/ DamagedAnswer
    \/ EntryRejected \/ ParseAlgs \/ ParsePcrs \/ ParseAlgsFind \/ ParsePcrsFind
    \/ ParseAlgProps \/ EndOfPage

Next == CallStarts \/ CallGoesOn

Spec == Init /\ [][Next]_vars

\* A transfer ends (FifoInterface!CallReturns) and the thread keeps running.
FairSpec == Spec /\ WF_vars(CallGoesOn)

(***************************************************************************)
(* Properties.                                                             *)
(***************************************************************************)
Returns == {"none", "SUCCESS", "INVALID_PARAM", "ERR_RESPONSE", "ERR_TIMEOUT",
            "ERR_TRANSFER", "ERR_ITERATION_LIMIT"}

\* Every variable has its type; the iterator of tpm2_cmds.c never has a
\* negative number of bytes left, which in size_t would be a huge one.
TypeOK ==
    /\ table \in Tables /\ api \in Apis
    /\ masks \in [set : Values, clear : Values]
    /\ query \in Seq([id : Ids, val : Values])
    /\ out \in Outputs
    /\ pc \in {"request", "entries", "done"} /\ ret \in Returns
    /\ loop \in [property : Nat, last : Nat, pages : 0 .. TPM_MAX_PAGES]
    /\ page.entries \in Seq(Entries)
    /\ remain \in 0 .. page.size /\ parsed \in 0 .. page.count
    /\ visited \in Seq(Ids) /\ found \in BOOLEAN /\ clean \in BOOLEAN

Truth(id) ==
    IF id \notin DOMAIN table THEN {}
    ELSE IF Cap(api) = "algs" THEN Enabled ELSE table[id].val

Succeeded == pc = "done" /\ ret = "SUCCESS"

\* When tpm_getcap_query_algs, tpm_getcap_query_pcrs or tpm_has_alg succeeds
\* without a fault, every entry before the terminator says exactly what the
\* TPM implements, although the loop stops at the largest identifier asked
\* for and not at the end of the list.  TPM_ALG_NULL is never asked for.
QueryExact ==
    Succeeded /\ clean /\ api \in Queries =>
        /\ \A k \in Items(api, QueryIds) : query[k].val = Truth(query[k].id)
        /\ api = "has_alg" /\ query[1].id # TPM_ALG_NULL =>
               out.supported = (query[1].id \in DOMAIN table)

\* The parsers write while they read, so a call that fails leaves part of an
\* answer behind.  Whatever is cut off or repeated, an entry of a query is
\* empty or true of its own identifier, what lies behind the terminator is not
\* written, and the outputs of tpm_has_alg and tpm_get_alg_props claim support
\* only for what the TPM implements, with its properties.
NothingInvented ==
    /\ \A k \in DOMAIN query :
         query[k].val \in IF k \in Items(api, QueryIds) THEN {{}, Truth(query[k].id)}
                          ELSE {Before(api)}
    /\ out.written /\ api = "has_alg" => ret = "SUCCESS"
    /\ out.supported =>
         IF api = "has_alg" THEN query[1].id \in DOMAIN table
         ELSE /\ loop.property \in DOMAIN table
              /\ out = Supported(table[loop.property].val)

\* tpm_get_alg_props, when it succeeds without a fault, tells exactly whether
\* the algorithm is implemented, also when the TPM lists a later one instead.
AlgPropsExact ==
    Succeeded /\ clean /\ api = "get_alg_props" =>
        out = IF loop.property \in DOMAIN table
              THEN Supported(table[loop.property].val)
              ELSE Unsupported

Wanted ==
    {d \in DOMAIN table : api = "for_each_alg_props" =>
        masks.set \subseteq table[d].val /\ masks.clear \cap table[d].val = {}}

\* The callback of tpm_for_each_alg_props and tpm_for_each_pcr_bank gets every
\* matching property at most once over all pages, algorithms in ascending
\* order without a gap, and all of them when the call succeeds and the
\* callback never asked to stop.
EachVisitedOnce ==
    clean /\ api \in Finds =>
        /\ Range(visited) \subseteq Wanted
        /\ \A j, k \in DOMAIN visited : j < k =>
             IF Cap(api) = "algs" THEN visited[j] < visited[k] ELSE visited[j] # visited[k]
        /\ Cap(api) = "algs" =>
             \A d \in Wanted, v \in Range(visited) : d < v => d \in Range(visited)
        /\ Succeeded /\ ~found => Wanted = Range(visited)

\* ERR_ITERATION_LIMIT, without a fault, only for a TPM that really lists more
\* than TPM_MAX_PAGES properties: no page is asked for twice.
LimitMeansManyPages ==
    clean /\ ret = "ERR_ITERATION_LIMIT" => Cardinality(DOMAIN table) > TPM_MAX_PAGES

\* ERR_RESPONSE, without a fault, in two cases only: tpm_get_alg_props for an
\* algorithm behind all the TPM lists (the count is zero and the entry is read
\* all the same), and a PCR selection longer than TPM_PCR_SELECT_SIZE.
SoundAnswersAccepted ==
    clean /\ ret = "ERR_RESPONSE" =>
        \/ api = "get_alg_props" /\ \A d \in DOMAIN table : d < loop.property
        \/ Cap(api) = "pcrs" /\ \E d \in DOMAIN table : table[d].len > TPM_PCR_SELECT_SIZE

\* Every GetCapability call of tpm2_cmds.c returns, also when the TPM repeats
\* its pages and always says that there is more.
CallEnds == pc # "done" ~> pc = "done"
=============================================================================
