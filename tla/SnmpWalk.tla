------------------------------ MODULE SnmpWalk -------------------------------
(***************************************************************************)
(* snmp_walk of nms/snmp.py, which reads one column of an agent's MIB over *)
(* UDP.  A walk asks with GETBULK on one socket, halves its batches when   *)
(* the answer is tooBig, and starts again with one GETNEXT per row and     *)
(* socket when GETBULK does not lead on; an agent that answers only        *)
(* GETNEXT is remembered for an hour.  Requests and answers may be lost,   *)
(* answers may come late or twice, rows may come and go during a walk, and *)
(* an agent may be rogue, that is, answer with anything.                   *)
(***************************************************************************)
EXTENDS Integers, Sequences, FiniteSets

CONSTANTS
    ColumnEnd,  \* the column is 1..ColumnEnd, below its base OID 0
    MibEnd,     \* last OID of the MIB
    RepsMax,    \* _BULK_REPS_MAX
    MaxRows     \* arguments max_rows of the callers

ASSUME ColumnAssumption == ColumnEnd \in Nat /\ MibEnd \in Nat /\ ColumnEnd <= MibEnd
ASSUME RequestAssumption == RepsMax \in Nat \ {0} /\ MaxRows \subseteq Int

VARIABLES
    mib,          \* OIDs the agent has
    rogue,        \* the agent answers with anything
    unsupported,  \* the agent is in _BULK_UNSUPPORTED
    phase,        \* "idle", "bulk" or "next"
    waiting,      \* a request was sent
    limit,        \* most rows to return
    reps,         \* max-repetitions
    out,          \* OIDs of the rows, the result once the walk is over
    rid,          \* request-id of the last request; successive ones differ
    inbox,        \* datagrams on the socket
    fell_back,    \* GETBULK was given up in this walk
    always,       \* history: rows that were there from its start
    ever,         \* history: rows that were there at some time
    whole         \* history: no GETNEXT was lost or refused

walk == <<phase, waiting, limit, reps, out, rid, inbox, fell_back>>
history == <<always, ever, whole>>
vars == <<mib, rogue, unsupported, walk, history>>

Base == 0
Column == 1..ColumnEnd
Under == Column \cup {Base}
Oids == 1..MibEnd
End == MibEnd + 1          \* endOfMibView and its like
Values == Oids \cup {Base, End}

RowSet(s) == {s[i] : i \in 1..Len(s)}
Cur == IF out = <<>> THEN Base ELSE out[Len(out)]

Datagram == [rid : {0, 1}, status : {"ok", "tooBig", "error"}, rows : Seq(Values)]

TypeOK ==
    /\ mib \subseteq Oids
    /\ rogue \in BOOLEAN /\ unsupported \in BOOLEAN
    /\ phase \in {"idle", "bulk", "next"} /\ waiting \in BOOLEAN
    /\ limit \in 1..256 /\ reps \in 1..RepsMax
    /\ out \in Seq(Under)
    /\ rid \in {0, 1} /\ inbox \subseteq Datagram
    /\ fell_back \in BOOLEAN
    /\ always \subseteq ever /\ ever \subseteq Oids /\ whole \in BOOLEAN

Init ==
    /\ rogue \in BOOLEAN
    /\ mib \in IF rogue THEN {{}} ELSE SUBSET Oids
    /\ unsupported = FALSE
    /\ phase = "idle" /\ waiting = FALSE
    /\ limit = 1 /\ reps = RepsMax /\ out = <<>>
    /\ rid = 0 /\ inbox = {}
    /\ fell_back = FALSE
    /\ always = {} /\ ever = {} /\ whole = FALSE

-----------------------------------------------------------------------------
(* The agent and the network                                                *)

\* A row is added to the MIB or leaves it.  What a rogue agent has matters to
\* none of its answers.
ChangeMib ==
    /\ ~rogue
    /\ \E o \in Oids :
          \/ o \in mib /\ mib' = mib \ {o}
          \/ o \notin mib /\ mib' = mib \cup {o}
    /\ IF phase = "idle" THEN UNCHANGED history
       ELSE /\ always' = always \cap mib'
            /\ ever' = ever \cup mib'
            /\ UNCHANGED whole
    /\ UNCHANGED <<rogue, unsupported, walk>>

Ascending(s) == \A i, j \in 1..Len(s) : i < j => s[i] < s[j]

\* The first rows after o in their order, and the marker after the last of
\* all; at most n, and as few as fit into the datagram.
After(o) == {p \in mib : p > o}
FirstAfter(o, n) ==
    {s \in UNION {[1..k -> After(o) \cup {End}] : k \in 1..(Cardinality(After(o)) + 1)} :
        /\ Len(s) <= n
        /\ Ascending(s)
        /\ \A p \in After(o) : p \in RowSet(s) \/ \A i \in 1..Len(s) : s[i] < p}

AnyRows == UNION {[1..k -> Values] : k \in 0..2}

Reply(id, status, rows) == [rid |-> id, status |-> status, rows |-> rows]

BulkReplies(o, n, id) ==
    {Reply(id, "tooBig", <<>>), Reply(id, "error", <<>>)} \cup
    {Reply(id, "ok", s) : s \in IF rogue THEN AnyRows ELSE FirstAfter(o, n)}

\* An agent that refuses a GETNEXT sends the request's OID back.
NextReplies(o, id) ==
    {Reply(id, "error", s) : s \in {<<>>, <<o>>}} \cup
    {Reply(id, "ok", s) : s \in IF rogue THEN AnyRows ELSE FirstAfter(o, 1)}

\* The request or its answer is lost, or the answer comes; the answer to the
\* request before may be late or come again.
Deliver(old, replies) ==
    \E late \in {{}} \cup {{d} : d \in {e \in old : e.rid = rid}},
       new \in {{}} \cup {{d} : d \in replies} :
        inbox' = late \cup new

-----------------------------------------------------------------------------
(* The walk                                                                 *)

LimitOf(max_rows) ==
    LET n == IF max_rows = 0 THEN 64 ELSE max_rows
    IN  IF n < 1 THEN 1 ELSE IF n > 256 THEN 256 ELSE n

StartWalk ==
    /\ phase = "idle"
    /\ phase' = IF unsupported THEN "next" ELSE "bulk"
    /\ limit' \in {LimitOf(m) : m \in MaxRows}
    /\ out' = <<>>
    /\ always' = mib /\ ever' = mib /\ whole' = TRUE
    /\ UNCHANGED <<mib, rogue, unsupported, waiting, reps, rid, inbox, fell_back>>

Batch == IF reps < limit - Len(out) THEN reps ELSE limit - Len(out)

Ask == waiting = FALSE /\ waiting' = TRUE /\ rid' = 1 - rid

AskBulk ==
    /\ phase = "bulk"
    /\ Ask
    /\ Deliver(inbox, BulkReplies(Cur, Batch, rid'))
    /\ UNCHANGED <<mib, rogue, unsupported, phase, limit, reps, out, fell_back,
                   history>>

\* Every GETNEXT has a socket of its own.
AskNext ==
    /\ phase = "next"
    /\ Ask
    /\ Deliver({}, NextReplies(Cur, rid'))
    /\ UNCHANGED <<mib, rogue, unsupported, phase, limit, reps, out, fell_back,
                   history>>

\* Mutant: the answer to an earlier request is taken for this one's.
MatchesAny(d) == TRUE
\* _SnmpLink.receive skips what does not carry the request-id.
Matches(d) == d.rid = rid

Fresh == reps' = RepsMax /\ rid' = 0 /\ inbox' = {}

\* The walk is over, with the rows of out'.
Finish ==
    /\ phase' = "idle" /\ fell_back' = FALSE /\ Fresh
    /\ unsupported' = (unsupported \/ (fell_back /\ out' # <<>>))

GoOn == UNCHANGED <<phase, unsupported, rid, inbox, fell_back>>

Fallback ==
    /\ phase' = "next" /\ fell_back' = TRUE /\ Fresh
    /\ out' = <<>>
    /\ UNCHANGED <<unsupported, whole>>

\* Mutant: end markers and rows of other columns are kept.
FitsAny(rows, i) ==
    /\ rows[i] > Cur /\ \A j \in 1..(i - 1) : rows[i] > rows[j]
    /\ Len(out) + i <= limit
\* Mutant: the order of the OIDs is not looked at.
FitsUnordered(rows, i) == rows[i] \in Column /\ Len(out) + i <= limit
\* Row i goes on where the rows before it, all of them taken, have led.
Fits(rows, i) ==
    /\ rows[i] \in Column
    /\ rows[i] > Cur /\ \A j \in 1..(i - 1) : rows[i] > rows[j]
    /\ Len(out) + i <= limit

\* The first k rows are taken, the next one is not.
Takes(rows, k) ==
    /\ \A i \in 1..k : Fits(rows, i)
    /\ k < Len(rows) => ~Fits(rows, k + 1)

\* Mutant: max-repetitions stay as they are.
SmallerSame(batch) == batch
Smaller(batch) == IF batch \div 2 < 1 THEN 1 ELSE batch \div 2

TakeBulk(d) ==
    IF d.status = "tooBig" /\ Batch > 1 THEN
        /\ reps' = Smaller(Batch)
        /\ GoOn
        /\ UNCHANGED <<out, whole>>
    ELSE IF d.status # "ok" \/ d.rows = <<>> THEN Fallback
    ELSE
        /\ \E k \in 0..Len(d.rows) :
              /\ Takes(d.rows, k)
              /\ out' = out \o SubSeq(d.rows, 1, k)
              /\ IF k < Len(d.rows) \/ Len(out) + k = limit THEN Finish
                 ELSE GoOn /\ UNCHANGED reps
        /\ UNCHANGED whole

\* _snmp_getnext does not look at the error status.
TakeNext(d) ==
    /\ IF d.rows = <<>> \/ d.rows[1] \notin Under \ RowSet(out) THEN
           out' = out /\ Finish
       ELSE
           /\ out' = Append(out, d.rows[1])
           /\ IF Len(out) + 1 = limit THEN Finish ELSE GoOn /\ UNCHANGED reps
    /\ whole' = (whole /\ d.status = "ok")

Receive ==
    /\ waiting = TRUE /\ waiting' = FALSE
    /\ \E d \in inbox :
          /\ Matches(d)
          /\ IF phase = "bulk" THEN TakeBulk(d) ELSE TakeNext(d)
    /\ UNCHANGED <<mib, rogue, limit, always, ever>>

Timeout ==
    /\ waiting = TRUE /\ waiting' = FALSE
    /\ \/ phase = "bulk" /\ Fallback
       \/ /\ phase = "next"
          /\ out' = out /\ Finish
          /\ whole' = FALSE
    /\ UNCHANGED <<mib, rogue, limit, always, ever>>

\* _BULK_UNSUPPORTED_TTL_S has passed.
Expire ==
    /\ unsupported
    /\ unsupported' = FALSE
    /\ UNCHANGED <<mib, rogue, walk, history>>

Next ==
    \/ ChangeMib \/ Expire
    \/ StartWalk \/ AskBulk \/ AskNext \/ Receive \/ Timeout

Spec == Init /\ [][Next]_vars

\* The thread of the walk goes on, and a wait ends by its deadline.
FairSpec ==
    Spec /\ WF_vars(AskBulk \/ AskNext) /\ WF_vars(Receive \/ Timeout)

-----------------------------------------------------------------------------
(* Properties                                                               *)

\* Whatever the agent answers, no row is returned twice, none of another
\* column, and no more than asked for.
RowsOnce ==
    /\ \A i, j \in 1..Len(out) : out[i] = out[j] => i = j
    /\ RowSet(out) \subseteq Under
    /\ Len(out) <= limit

\* An agent that is not rogue gets its rows returned in their order, and only
\* rows it has had since the walk began.  The exception is the base OID, which
\* a refused GETNEXT sends back and the walk takes for a row.
RowsWereThere ==
    ~rogue => Ascending(out) /\ RowSet(out) \subseteq ever \cup {Base}

\* A walk makes up no rows, of a rogue agent's answers or of late ones.
RowsAreHonest == RowsOnce /\ RowsWereThere

\* A walk whose GETNEXTs were all answered skips no row that was there all the
\* time: neither short or tooBig batches nor late and duplicated answers, a
\* fallback half-way or rows that come and go make it end before the column or
\* the limit does.
StableRowsReturned ==
    phase = "idle" /\ whole /\ ~rogue =>
        \A o \in always \cap Column :
            \/ o \in RowSet(out)
            \/ Len(out) = limit /\ \A i \in 1..Len(out) : out[i] < o

\* Every walk ends, also with an agent that answers tooBig for ever.
WalkEnds == phase # "idle" ~> phase = "idle"
=============================================================================
