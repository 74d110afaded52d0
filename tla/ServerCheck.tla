---------------------------- MODULE ServerCheck ----------------------------
(***************************************************************************)
(* sync check and messages new: one account's IMAP mailboxes compared with *)
(* Mail's local store while the server and Mail go on working.             *)
(*   src/internal/mailstore/imap_sync.go     counts of all mailboxes       *)
(*   src/internal/mailstore/new_messages.go  newest messages of a mailbox  *)
(*   src/internal/mailstore/imap_resolve.go  the cached mailbox catalogue  *)
(*   src/internal/transport/mailbox_resolution.go  local path to wire name *)
(* One check runs (its kind is chosen in Init); another reader of the same *)
(* process shares the catalogue cache and its single LIST with it.         *)
(***************************************************************************)
EXTENDS Naturals, Sequences, FiniteSets

CONSTANTS
    Wire,        \* wire names the server may list
    Box,         \* local mailboxes of the account, by path
    WireInfo,    \* [Wire -> [path, canon, inbox, role, named, legacy, select]]
    BoxInfo,     \* [Box -> [path, canon, inbox, role]]
    Mirror,      \* <<box, wire>>: Mail really mirrors this server mailbox there
    Plan,        \* the local mailboxes in the order the store lists them
    Listings,    \* the sets of mailboxes the server may start with
    Order,       \* the wire names in the order LIST returns them
    Inbox,       \* the <<box, wire>> that messages new compares
    Mail,        \* messages
    Header,      \* [Mail -> sender, date and subject], NoHeader if unparsable
    RfcId,       \* [Mail -> Message-ID], NoId if it has none
    NoHeader, NoId, None, Failed,
    Window,      \* newMessagesWindow
    Limit,       \* request.Limit
    Workers,     \* MaxConnectionsPerAccount
    TTL,         \* mailboxCacheTTL in clock ticks
    MaxUid, MaxValidity, MaxChanges, MaxCheckFaults   \* bounds of the instance

ASSUME ServerCheckAssumption ==
    /\ Window \in Nat \ {0} /\ Workers \in Nat \ {0} /\ TTL \in Nat \ {0}
    /\ Limit \in Nat /\ MaxUid \in Nat /\ MaxValidity \in Nat
    /\ MaxChanges \in [{"sync", "new"} -> Nat] /\ MaxCheckFaults \in Nat
    /\ Mirror \subseteq Box \X Wire /\ Inbox \in Mirror

VARIABLES
    srv,      \* [Wire -> [on, v, next, mail]]: listed?, UIDVALIDITY, UIDNEXT and
              \* UID -> message
    loc,      \* [Box -> [v, rows, labels, counted]]: Mail's copy
    cat,      \* the catalogue cache: [list, age], list = None when empty
    flight,   \* the LIST under way: [by, list], by = None when there is none
    row,      \* the other reader: [pc]
    q,        \* the check
    steady,   \* ticks since the server's set of mailboxes last changed
    left      \* [changes, faults] still allowed
checkVars == <<srv, loc, cat, flight, row, q, steady, left>>
----------------------------------------------------------------------------
(* Resolution of a local path (transport.ResolveMailboxPath). boxes is a    *)
(* set of wire names, NotFound and Ambiguous are the two refusals.          *)

NotFound == "imap_mailbox_not_found"
Ambiguous == "imap_ambiguous_mailbox"

\* chooseMailbox: exactly one candidate, or a refusal.
Choose(candidates) ==
    IF Cardinality(candidates) = 1 THEN CHOOSE w \in candidates : TRUE
    ELSE IF candidates = {} THEN NotFound ELSE Ambiguous

\* resolveInboxMailbox: the literal INBOX, a single folded spelling of it, and
\* INBOX itself when the server lists none.
ResolveInbox(boxes) ==
    LET folded == {w \in boxes : WireInfo[w].inbox # "no"}
        literal == {w \in Wire : WireInfo[w].inbox = "INBOX"}
    IN  IF folded = {} \/ folded \cap literal # {}
        THEN CHOOSE w \in literal : TRUE
        ELSE Choose(folded)

\* The stages in their order: exact path, canonically equal path, special-use
\* flag, localized name of the role, leaf of a mailbox without a display path.
PathStages(boxes, b) ==
    LET i == BoxInfo[b]
        of(role) == IF i.role = "none" THEN {} ELSE role
    IN  << {w \in boxes : WireInfo[w].path = i.path},
           {w \in boxes : WireInfo[w].canon = i.canon},
           of({w \in boxes : WireInfo[w].role = i.role}),
           of({w \in boxes : WireInfo[w].named = i.role}),
           {w \in boxes : WireInfo[w].legacy = i.canon} >>

\* ResolveMailboxPath: the first stage with a candidate decides.
Resolve(boxes, b) ==
    LET stages == PathStages(boxes, b)
        found == {k \in DOMAIN stages : stages[k] # {}}
    IN  IF BoxInfo[b].inbox THEN ResolveInbox(boxes)
        ELSE IF found = {} THEN NotFound
        ELSE Choose(stages[CHOOSE k \in found : \A l \in found : k <= l])

\* Whatever the server lists, the mailbox messages new compares resolves to
\* its own server mailbox or to none (INBOX under resolveInboxMailbox), and
\* the two refusals are no names.
ASSUME InboxAssumption ==
    /\ \A boxes \in SUBSET Wire :
            Resolve(boxes, Inbox[1]) \in {Inbox[2], NotFound, Ambiguous}
    /\ {NotFound, Ambiguous} \cap Wire = {}

\* syncServerMailboxSelectable.
Selectable(boxes) == {w \in boxes : WireInfo[w].select}
----------------------------------------------------------------------------
NoCheck == [kind |-> "none", pc |-> "done", acct |-> "ready", list |-> None,
    whole |-> TRUE, counts |-> [b \in Box |-> None], wait |-> <<>>,
    got |-> [w \in Wire |-> None], states |-> [b \in Box |-> None],
    extra |-> {}, failed |-> FALSE, complete |-> FALSE,
    match |-> FALSE, win |-> <<>>, v |-> 0, exists |-> 0, by |-> "none",
    state |-> "none", new |-> {}, truncated |-> FALSE,
    quiet |-> FALSE, err |-> FALSE, held |-> {}, ever |-> {}, torn |-> FALSE]

HeldIn(b) == {r.m : r \in loc[b].rows} \cup loc[b].labels

Uids(w) == DOMAIN srv[w].mail
Live(w) == {srv[w].mail[u] : u \in Uids(w)}
Listed == {w \in Wire : srv[w].on}

EmptyBox == [on |-> TRUE, v |-> 1, next |-> 1, mail |-> <<>>]
ByUid(f) == [u \in 1..Len(f) |-> f[u]]

\* A count check starts on mailboxes that hold at most one message each.
InitSync ==
    \E on \in Listings, full \in {{}, Wire}, kept \in {{}, Box, {Plan[1]}},
       counted \in {Box, Box \ {Plan[1]}}, m \in {CHOOSE x \in Mail : TRUE} :
        /\ srv = [w \in Wire |-> [on |-> w \in on, v |-> 1, next |-> 2,
                    mail |-> IF w \in full \cap on THEN ByUid(<<m>>) ELSE <<>>]]
        /\ loc = [b \in Box |-> [v |-> 1, labels |-> {}, counted |-> b \in counted,
                    rows |-> IF b \in kept THEN {[uid |-> 1, m |-> m]} ELSE {}]]

\* messages new starts on a mailbox Mail has partly copied.
InitNew ==
    LET b == Inbox[1]  w == Inbox[2] IN
    \E f \in {<<>>} \cup {<<x>> : x \in Mail}
             \cup {p \in Mail \X Mail : p[1] # p[2]},
       keep \in SUBSET (1..2), v \in {0, 1}, labels \in BOOLEAN :
        /\ keep \subseteq DOMAIN f
        /\ srv = [x \in Wire |-> IF x = w
                    THEN [EmptyBox EXCEPT !.mail = ByUid(f), !.next = Len(f) + 1]
                    ELSE EmptyBox]
        /\ loc = [x \in Box |->
                    [v |-> v, counted |-> TRUE,
                     rows |-> IF x = b /\ ~labels
                              THEN {[uid |-> u, m |-> f[u]] : u \in keep} ELSE {},
                     labels |-> IF x = b /\ labels
                                THEN {f[u] : u \in keep} ELSE {}]]

\* What the account catalogue, the binding file and the Keychain say of it.
Accounts == {"ready", "degraded", "local", "no_email", "no_credentials"}

CheckInit ==
    /\ \E k \in {"sync", "new"},
          a \in Accounts :
        /\ q = [NoCheck EXCEPT !.kind = k, !.acct = a, !.pc = "begin"]
        /\ IF k = "sync" THEN InitSync ELSE InitNew
        /\ left = [changes |-> MaxChanges[k], faults |-> MaxCheckFaults]
    /\ cat = [list |-> None, age |-> 0]
    /\ flight = [by |-> None, list |-> None]
    /\ row = [pc |-> "idle"]
    /\ steady = TTL

Is(kind, stage) == q.kind = kind /\ q.pc = stage
CheckFault == left.faults > 0 /\ left' = [left EXCEPT !.faults = @ - 1]
World == <<srv, loc, steady>>
----------------------------------------------------------------------------
(* The check begins. *)

\* The head of the account loop: a degraded account, one without an address
\* and one without credentials are failures, a local one is skipped. The local
\* counts of a sync check are read before the catalogue. held and ever, which
\* messages Mail held all the time and at any time, are only for the properties.
BeginCheck ==
    /\ q.pc = "begin"
    /\ LET b == Inbox[1]
           stop == [q EXCEPT !.pc = "sum", !.match = TRUE, !.failed = q.acct # "local"]
       IN  q' = IF q.acct # "ready" THEN stop
                ELSE [q EXCEPT !.pc = "lookup", !.quiet = steady >= TTL,
                        !.counts = [x \in Box |-> IF q.kind = "sync" /\ loc[x].counted
                            THEN Cardinality(HeldIn(x)) ELSE None],
                        !.held = HeldIn(b), !.ever = HeldIn(b)]
    /\ UNCHANGED <<World, cat, flight, row, left>>
----------------------------------------------------------------------------
(* getOrLoadMailboxes, by the check ("main") and the other reader ("row").  *)

\* Deviation: an expired entry is served.
CacheHitAlways == cat.list # None

\* The entry is served while it is younger than the lifetime.
CacheHit == cat.list # None /\ cat.age < TTL

\* The check gets boxes and err from the catalogue. A sync check goes on with
\* what a failed LIST still returned; without any mailbox every local mailbox
\* is unresolved. messages new only records the failure.
CatalogArrives(boxes, ok) ==
    LET empty == ~ok /\ boxes = {}
        none == ok /\ Selectable(boxes) = {}
    IN  IF q.kind = "new"
        THEN IF ok THEN [q EXCEPT !.list = boxes, !.pc = "map"]
             ELSE [q EXCEPT !.failed = TRUE, !.err = TRUE, !.pc = "sum"]
        ELSE [q EXCEPT !.list = boxes, !.whole = ok, !.err = @ \/ ~ok,
                !.failed = @ \/ ~ok \/ none,
                !.states = IF empty THEN [b \in Box |-> "unresolved"] ELSE @,
                !.pc = IF empty THEN "sum" ELSE "plan"]

Caller == {"main", "row"}
At(p) == IF p = "main" THEN q.pc ELSE row.pc
Goes(p, pc) ==
    IF p = "main" THEN q' = [q EXCEPT !.pc = pc] /\ UNCHANGED row
    ELSE row' = [pc |-> pc] /\ UNCHANGED q

\* What the flight brings reaches the leader and everyone who waits for it.
Arrive(boxes, ok, who) ==
    /\ q' = IF "main" \in who THEN CatalogArrives(boxes, ok) ELSE q
    /\ row' = IF "row" \in who THEN [pc |-> "done"] ELSE row

\* The catalogue matters until the check has its own.
Loading == q.pc \in {"begin", "lookup", "missed", "listing", "waiting"}

RowStarts ==
    /\ row.pc = "idle" /\ Loading /\ row' = [pc |-> "lookup"]
    /\ UNCHANGED <<World, cat, flight, q, left>>

\* Look into the cache under its mutex; an expired entry is deleted.
Lookup(p) ==
    /\ At(p) = "lookup" /\ Loading
    /\ IF CacheHit THEN Arrive(cat.list, TRUE, {p}) /\ UNCHANGED cat
       ELSE Goes(p, "missed") /\ cat' = [list |-> None, age |-> 0]
    /\ UNCHANGED <<World, flight, left>>

\* mailboxLoads.Do: the first caller lists, the others wait for it.
Join(p) ==
    /\ At(p) = "missed" /\ Loading
    /\ IF flight.by = None
       THEN Goes(p, "listing") /\ flight' = [by |-> p, list |-> None]
       ELSE Goes(p, "waiting") /\ UNCHANGED flight
    /\ UNCHANGED <<World, cat, left>>

\* The server answers LIST.
ListAnswers ==
    /\ flight.by # None /\ flight.list = None /\ Loading
    /\ flight' = [flight EXCEPT !.list = Listed]
    /\ UNCHANGED <<World, cat, row, q, left>>

\* Deviation: only the caller that listed hears of the end.
WaitingLeader == {p \in Caller : At(p) = "listing"}

\* Everyone in the flight.
Waiting == {p \in Caller : At(p) \in {"listing", "waiting"}}

\* The reply is cached for the lifetime and handed to every waiting caller.
ListStored ==
    /\ flight.list # None /\ Loading
    /\ cat' = [list |-> flight.list, age |-> 0]
    /\ flight' = [by |-> None, list |-> None]
    /\ Arrive(flight.list, TRUE, Waiting)
    /\ UNCHANGED <<World, left>>

\* LIST fails, or the context of the caller that runs it ends: every waiting
\* caller gets the error, and the mailboxes read so far if the server sent any.
ListFails ==
    /\ flight.by # None /\ Loading /\ CheckFault
    /\ \E part \in {{}, {Order[1]} \cap Listed} : Arrive(part, FALSE, Waiting)
    /\ flight' = [by |-> None, list |-> None]
    /\ UNCHANGED <<World, cat>>
----------------------------------------------------------------------------
(* SyncCheck: plan, STATUS jobs, merge. *)

\* An earlier local mailbox already resolved to this server mailbox.
Claimed(k, w) == \E i \in 1..(k - 1) : Resolve(q.list, Plan[i]) = w

\* What the plan says of the k-th local mailbox: the wire name to ask, or its
\* state when there is none to ask.
PlanFor(k) ==
    LET w == Resolve(q.list, Plan[k])
        lost == IF q.whole THEN "local_only" ELSE "unresolved"
    IN  IF w = NotFound THEN lost
        ELSE IF w = Ambiguous THEN "unresolved"
        ELSE IF w \notin Selectable(q.list) THEN lost
        ELSE IF Claimed(k, w) THEN "unresolved" ELSE w

\* Every local mailbox gets a state or a STATUS job, then every selectable
\* server mailbox nobody claimed gets one.
MakePlan ==
    /\ Is("sync", "plan")
    /\ \E p \in {[k \in 1..Len(Plan) |-> PlanFor(k)]} :
        LET jobs == SelectSeq(p, LAMBDA x : x \in Wire)
            free == Selectable(q.list) \ {p[k] : k \in DOMAIN p}
        IN  q' = [q EXCEPT !.pc = "status",
                !.states = [b \in Box |-> p[CHOOSE k \in DOMAIN Plan : Plan[k] = b]],
                !.wait = jobs \o SelectSeq(Order, LAMBDA w : w \in free),
                !.extra = free,
                !.failed = @ \/ Len(jobs) < Len(Plan)]
    /\ UNCHANGED <<World, cat, flight, row, left>>

\* A worker takes the jobs in turn; Workers of them are under way at once and
\* their answers come in any order.
UnderWay(n) == 1..(IF n < Workers THEN n ELSE Workers)

Without(s, k) == SubSeq(s, 1, k - 1) \o SubSeq(s, k + 1, Len(s))

\* CheckStatus answers for the k-th job; a mailbox that is gone is an error.
StatusAnswers(k) ==
    LET w == q.wait[k] IN
    /\ Is("sync", "status") /\ k \in UnderWay(Len(q.wait))
    /\ q' = [q EXCEPT !.wait = Without(@, k),
                !.got[w] = IF srv[w].on THEN Cardinality(Uids(w)) ELSE Failed,
                !.err = @ \/ ~srv[w].on]
    /\ UNCHANGED <<World, cat, flight, row, left>>

\* STATUS is rejected, malformed, times out or the connection is lost.
StatusFails(k) ==
    /\ Is("sync", "status") /\ k \in UnderWay(Len(q.wait)) /\ CheckFault
    /\ q' = [q EXCEPT !.wait = Without(@, k), !.got[q.wait[k]] = Failed, !.err = TRUE]
    /\ UNCHANGED <<World, cat, flight, row>>

\* appendMatchedSyncStatusResult and appendServerOnlySyncStatusResult for every
\* planned mailbox: the state of a local mailbox with a job, and whether it is
\* a failure.
Matched(b) ==
    LET n == q.got[q.states[b]] IN
    IF n = Failed THEN "inaccessible"
    ELSE IF q.counts[b] = None THEN "uncounted" ELSE "matched"

FailedHere(b) ==
    \/ q.got[q.states[b]] = Failed
    \/ q.counts[b] = None /\ q.got[q.states[b]] # 0

\* Merge in plan order.
Merge ==
    /\ Is("sync", "status") /\ q.wait = <<>>
    /\ LET local == {b \in Box : q.states[b] \in Wire}
       IN  q' = [q EXCEPT !.pc = "sum",
             !.failed = @ \/ q.extra # {} \/ \E b \in local : FailedHere(b),
             !.match = \A b \in Box :
                IF b \in local
                THEN Matched(b) # "matched" \/ q.got[q.states[b]] = q.counts[b]
                ELSE q.states[b] # "local_only" \/ q.counts[b] \in {None, 0}]
    /\ UNCHANGED <<World, cat, flight, row, left>>

\* finishSyncCheck, and the end of NewMessages: complete means that nothing
\* failed, and counts match only in a complete check.
FinishCheck ==
    [q EXCEPT !.pc = "done",
        !.complete = ~q.failed /\ (q.kind = "new" => q.state \in {"none", "checked"}),
        !.match = @ /\ ~q.failed]

Sum ==
    /\ q.pc = "sum" /\ q' = FinishCheck
    /\ UNCHANGED <<World, cat, flight, row, left>>
----------------------------------------------------------------------------
(* NewMessages: compareMailbox for one mailbox. *)

\* The mailbox's wire name; a refusal is a failure of this mailbox.
MapPath ==
    /\ Is("new", "map")
    /\ LET w == Resolve(q.list, Inbox[1])
       IN  q' = IF w \in Wire THEN [q EXCEPT !.pc = "select"]
                ELSE [q EXCEPT !.pc = "sum", !.failed = TRUE, !.err = TRUE]
    /\ UNCHANGED <<World, cat, flight, row, left>>

\* The newest count messages of mailbox w, oldest first, as UID -> message.
Newest(w, count) ==
    LET newer(u) == {x \in Uids(w) : x > u}
        keep == {u \in Uids(w) : Cardinality(newer(u)) < count}
    IN  [u \in keep |-> srv[w].mail[u]]

\* ListRecentMessages: SELECT gives UIDVALIDITY and EXISTS and so the window of
\* sequence numbers; an empty mailbox needs no FETCH.
SelectRecent ==
    /\ Is("new", "select")
    /\ LET w == Resolve(q.list, Inbox[1]) IN
       q' = IF ~srv[w].on THEN [q EXCEPT !.pc = "sum", !.failed = TRUE, !.err = TRUE]
            ELSE [q EXCEPT !.v = srv[w].v, !.exists = Cardinality(Uids(w)),
                    !.win = Newest(w, Window),
                    !.pc = IF Uids(w) = {} THEN "member" ELSE "fetch"]
    /\ UNCHANGED <<World, cat, flight, row, left>>

\* The FETCH covers the window: a message expunged since SELECT leaves its
\* sequence number without an answer, and a changed UIDVALIDITY is refused.
WindowCovered(w) ==
    /\ srv[w].on /\ srv[w].v = q.v
    /\ \A u \in DOMAIN q.win : u \in Uids(w)

\* FETCH of the window by sequence number.
FetchRecent ==
    /\ Is("new", "fetch")
    /\ LET w == Resolve(q.list, Inbox[1])
           there == [u \in DOMAIN q.win \cap Uids(w) |-> q.win[u]]
       IN  q' = IF WindowCovered(w) THEN [q EXCEPT !.pc = "member", !.win = there]
                ELSE [q EXCEPT !.pc = "sum", !.failed = TRUE, !.err = TRUE]
    /\ UNCHANGED <<World, cat, flight, row, left>>

\* mailboxMembership: what kind of local candidates there are decides how the
\* window is compared. Without any, everything in it is new.
Membership ==
    /\ Is("new", "member")
    /\ LET l == loc[Inbox[1]] IN
       q' = [q EXCEPT
            !.by = IF l.rows = {} /\ l.labels = {} THEN "none"
                   ELSE IF l.labels # {} THEN "headers" ELSE "uid",
            !.pc = IF l.rows # {} THEN "validity"
                   ELSE IF l.labels # {} THEN "compare" ELSE "report",
            !.new = IF l.rows = {} /\ l.labels = {} THEN DOMAIN q.win ELSE {},
            !.state = "checked"]
    /\ UNCHANGED <<World, cat, flight, row, left>>

\* Deviation: local UIDs are compared whatever generation they are of.
GenerationIgnored(v) == "checked"

\* The local generation of the mailbox against the server's.
Generation(v) ==
    IF v = 0 THEN "unresolved"
    ELSE IF v # q.v THEN "uid_validity_change" ELSE "checked"

\* mailboxUIDValidity: read from the mailbox's own file.
ReadValidity ==
    /\ Is("new", "validity")
    /\ LET state == Generation(loc[Inbox[1]].v)
       IN  q' = [q EXCEPT !.state = state,
                    !.pc = IF state = "checked" THEN "compare" ELSE "sum"]
    /\ UNCHANGED <<World, cat, flight, row, left>>

\* missingByServerUID.
MissingByUid(l) == {u \in DOMAIN q.win : ~\E r \in l.rows : r.uid = u}

\* The local candidates of a message by sender, date and subject; a message
\* whose header does not parse has none.
Candidates(l, m) ==
    {x \in {r.m : r \in l.rows} \cup l.labels :
        Header[m] # NoHeader /\ Header[x] = Header[m]}

\* missingByHeaderIdentity fails closed: a candidate without a Message-ID on
\* either side cannot be compared.
Comparable(l) ==
    \A u \in DOMAIN q.win : LET c == Candidates(l, q.win[u])
        IN  c = {} \/ (RfcId[q.win[u]] # NoId /\ \A x \in c : RfcId[x] # NoId)

\* Two local candidates with the same Message-ID are ambiguous.
Twins(l) ==
    \E u \in DOMAIN q.win :
        Cardinality({x \in Candidates(l, q.win[u]) : RfcId[x] = RfcId[q.win[u]]}) > 1

MissingByHeader(l) ==
    {u \in DOMAIN q.win :
        ~\E x \in Candidates(l, q.win[u]) : RfcId[x] = RfcId[q.win[u]]}

\* The comparison query, in the way the membership decided.
Compare ==
    /\ Is("new", "compare")
    /\ LET l == loc[Inbox[1]]
           refuse == q.by = "headers" /\ (~Comparable(l) \/ Twins(l))
       IN  q' = IF refuse THEN [q EXCEPT !.pc = "sum", !.failed = TRUE, !.err = TRUE, !.state = "none"]
                ELSE [q EXCEPT !.pc = "report", !.new =
                        IF q.by = "headers" THEN MissingByHeader(l) ELSE MissingByUid(l)]
    /\ UNCHANGED <<World, cat, flight, row, left>>

\* More than the limit, or a window in which everything is new and behind which
\* the mailbox goes on.
Cut ==
    \/ Cardinality(q.new) > Limit
    \/ q.win # <<>> /\ q.new = DOMAIN q.win /\ q.exists > Cardinality(DOMAIN q.win)

Report ==
    /\ Is("new", "report")
    /\ q' = [q EXCEPT !.pc = "sum", !.truncated = Cut]
    /\ UNCHANGED <<World, cat, flight, row, left>>

\* A query, a source file or the network fails in one of the comparison's steps.
CompareFails ==
    /\ q.kind = "new" /\ q.pc \in {"select", "fetch", "member", "validity", "compare"}
    /\ CheckFault
    /\ q' = [q EXCEPT !.pc = "sum", !.failed = TRUE, !.err = TRUE, !.state = "none", !.new = {}]
    /\ UNCHANGED <<World, cat, flight, row>>

\* The caller gives up: newMessagesCancellation ends the discovery with an
\* error wherever it is, unless it waits inside the shared LIST.
CancelNew ==
    /\ q.kind = "new" /\ q.pc \notin {"begin", "done", "listing", "waiting"} /\ CheckFault
    /\ q' = [q EXCEPT !.pc = "done", !.err = TRUE, !.new = {}, !.state = "none"]
    /\ UNCHANGED <<World, cat, flight, row>>
----------------------------------------------------------------------------
(* The server and Mail. What they change is noted in the check for the      *)
(* properties: quiet ends, held shrinks and ever grows.                     *)

\* A change of server mailbox w. messages new reads one mailbox, and nothing of
\* it before it has the catalogue.
Changing(w) ==
    /\ q.pc # "done" /\ (q.kind = "new" => w = Inbox[2] /\ ~Loading)
    /\ left.changes > 0 /\ left' = [left EXCEPT !.changes = @ - 1]

\* The inbox as Mail holds it after the change l.
Noted(l) ==
    [q EXCEPT !.quiet = FALSE,
        !.held = @ \cap ({r.m : r \in l[Inbox[1]].rows} \cup l[Inbox[1]].labels),
        !.ever = @ \cup ({r.m : r \in l[Inbox[1]].rows} \cup l[Inbox[1]].labels)]

\* The messages that may arrive; a count check does not tell them apart.
Arriving(w) ==
    LET f == Mail \ (Live(w) \cup q.ever)
    IN  IF q.kind = "sync" /\ f # {} THEN {CHOOSE m \in f : TRUE} ELSE f

\* A message arrives under the mailbox's next UID.
Receive(w) ==
    /\ Changing(w) /\ srv[w].on
    /\ LET u == srv[w].next IN
       \E m \in Arriving(w) :
        /\ u <= MaxUid
        /\ srv' = [srv EXCEPT ![w].next = u + 1, ![w].mail =
                    [x \in Uids(w) \cup {u} |-> IF x = u THEN m ELSE srv[w].mail[x]]]
    /\ q' = Noted(loc)
    /\ UNCHANGED <<loc, cat, flight, row, steady>>

ExpungeMail(w) ==
    /\ Changing(w)
    /\ \E u \in Uids(w) : srv' = [srv EXCEPT ![w].mail =
                            [x \in Uids(w) \ {u} |-> srv[w].mail[x]]]
    /\ q' = Noted(loc)
    /\ UNCHANGED <<loc, cat, flight, row, steady>>

\* The server rebuilds a mailbox: a new UIDVALIDITY, and the UIDs start over.
\* A count check asks for neither.
Renumber(w) ==
    /\ Changing(w) /\ q.kind = "new" /\ srv[w].on /\ srv[w].v < MaxValidity
    /\ \E p \in [1..Cardinality(Uids(w)) -> Live(w)] :
        /\ {p[i] : i \in DOMAIN p} = Live(w)
        /\ srv' = [srv EXCEPT ![w].v = @ + 1, ![w].mail = p,
                        ![w].next = Len(p) + 1]
    /\ q' = Noted(loc)
    /\ UNCHANGED <<loc, cat, flight, row, steady>>

\* A server mailbox is deleted, or created empty in a new generation.
Toggle(w) ==
    /\ Changing(w)
    /\ srv' = [srv EXCEPT ![w] = [on |-> ~@.on, next |-> 1, mail |-> <<>>,
                                  v |-> IF @.on THEN @.v ELSE @.v + 1]]
    /\ steady' = 0
    /\ q' = Noted(loc)
    /\ UNCHANGED <<loc, cat, flight, row>>

\* Mail copies a message of the generation it knows, or as a label.
Pull(b, w) ==
    /\ Changing(w) /\ <<b, w>> \in Mirror
    /\ \E u \in Uids(w) :
        LET m == srv[w].mail[u]
            l == IF loc[b].labels # {} THEN [loc EXCEPT ![b].labels = @ \cup {m}]
                 ELSE [loc EXCEPT ![b].rows = @ \cup {[uid |-> u, m |-> m]}]
        IN  /\ loc[b].labels # {} \/ loc[b].v \in {0, srv[w].v}
            /\ loc' = l /\ q' = Noted(l)
    /\ UNCHANGED <<srv, cat, flight, row, steady>>

\* Mail starts its copy over: the rows of the old generation go, and the
\* mailbox's file names the new one. torn notes that this happened between the
\* check of the generation and the comparison.
Resync(b, w) ==
    /\ Changing(w) /\ q.kind = "new" /\ <<b, w>> \in Mirror
    /\ LET l == [loc EXCEPT ![b].v = srv[w].v,
                    ![b].rows = {r \in @ : loc[b].v = srv[w].v}]
       IN  loc' = l /\ q' = [Noted(l) EXCEPT
                        !.torn = @ \/ (q.pc = "compare" /\ loc[b].v # srv[w].v)]
    /\ UNCHANGED <<srv, cat, flight, row, steady>>

\* Time passes; the reply of a LIST is stored before the next tick.
Tick ==
    /\ flight.list = None /\ Loading
    /\ cat.age < TTL \/ steady < TTL
    /\ cat' = [cat EXCEPT !.age = IF @ < TTL THEN @ + 1 ELSE @]
    /\ steady' = IF steady < TTL THEN steady + 1 ELSE steady
    /\ UNCHANGED <<srv, loc, flight, row, q, left>>
----------------------------------------------------------------------------
CheckStep ==
    \/ BeginCheck \/ ListAnswers \/ ListStored \/ ListFails
    \/ \E p \in Caller : Lookup(p) \/ Join(p)
    \/ MakePlan \/ Merge \/ Sum
    \/ \E k \in 1..Workers : StatusAnswers(k) \/ StatusFails(k)
    \/ MapPath \/ SelectRecent \/ FetchRecent \/ Membership
    \/ ReadValidity \/ Compare \/ Report \/ CompareFails \/ CancelNew
CheckNext ==
    \/ CheckStep \/ RowStarts \/ Tick
    \/ \E w \in Wire : Receive(w) \/ ExpungeMail(w) \/ Renumber(w) \/ Toggle(w)
    \/ \E b \in Box, w \in Wire : Pull(b, w) \/ Resync(b, w)

CheckSpec == CheckInit /\ [][CheckNext]_checkVars /\ WF_checkVars(CheckStep)
----------------------------------------------------------------------------
(* Properties. *)

SyncDone == Is("sync", "done") /\ q.acct = "ready"

\* Mail mirrors every selectable mailbox of the server in exactly one local
\* mailbox, and the numbers of messages agree.
InStep ==
    \E f \in [Box -> Selectable(Listed)] :
        /\ {f[b] : b \in Box} = Selectable(Listed)
        /\ \A b, c \in Box : f[b] = f[c] => b = c
        /\ \A b \in Box :
            /\ <<b, f[b]>> \in Mirror
            /\ Cardinality(Uids(f[b])) = IF loc[b].counted THEN Cardinality(HeldIn(b)) ELSE 0

\* When nothing changed during a count check, nor the server's mailboxes within
\* the lifetime of a cached catalogue before it, counts_match is the truth:
\* whatever the resolution took for the same mailbox, the order of the answers
\* and the cache. Only a failed request may hide that the two sides agree.
CountsTrue ==
    SyncDone /\ q.quiet =>
        /\ q.match => InStep
        /\ InStep /\ ~q.err => q.match

\* A complete check compared everything: no request failed, every local mailbox
\* had its own server mailbox, every listed mailbox was asked, and a mailbox
\* of messages new was compared within one UID generation.
CompleteTrue ==
    q.pc = "done" /\ q.complete =>
        /\ ~q.err
        /\ SyncDone =>
            /\ \A b \in Box : q.states[b] \in Wire /\ q.got[q.states[b]] \in Nat
            /\ \A b, c \in Box : q.states[b] = q.states[c] => b = c
            /\ Selectable(q.list) = {q.states[b] : b \in Box}

Same(m, n) == m = n \/ (q.by = "headers" /\ Header[m] = Header[n] /\ RfcId[m] = RfcId[n])

\* The messages the server has and Mail lacks are the newest of the mailbox.
LacksNewest ==
    LET w == Inbox[2] IN
    \A x, y \in Uids(w) :
        x < y /\ srv[w].mail[y] \in HeldIn(Inbox[1]) => srv[w].mail[x] \in HeldIn(Inbox[1])

\* messages new reports no message Mail held all the time, and passes over none
\* that Mail never held, although server and Mail change during the comparison;
\* the exception is a copy Mail starts over between the check of its UIDVALIDITY
\* and the comparison. An answer that is not truncated has everything Mail lacks
\* when nothing changed and Mail lacks only the newest messages.
NewTrue ==
    Is("new", "done") /\ q.state = "checked" /\ ~q.torn =>
        /\ \A u \in DOMAIN q.win :
            /\ u \in q.new /\ Header[q.win[u]] # NoHeader =>
                    ~\E m \in q.held : Same(q.win[u], m)
            /\ u \notin q.new => \E m \in q.ever : Same(q.win[u], m)
        /\ q.quiet /\ q.by # "headers" /\ ~q.truncated /\ q.complete /\ LacksNewest =>
                {q.win[u] : u \in q.new} = Live(Inbox[2]) \ HeldIn(Inbox[1])

\* Every check ends, also when the reader whose LIST it waits for fails.
CheckEnds == <>(q.pc = "done")

\* The counts of a report are those of its mailboxes, and a report that calls
\* itself complete has all of them (Client.CheckStatus, finishSyncCheck).
StatusTrue == CountsTrue /\ CompleteTrue
=============================================================================
