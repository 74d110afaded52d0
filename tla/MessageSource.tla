--------------------------- MODULE MessageSource ---------------------------
(* Reading one message, or the excerpts of a page of messages, from Mail's  *)
(* store and, when the local source is missing or partial, over IMAP.       *)
(*                                                                          *)
(* A reference names an index row by its identity. The local source belongs *)
(* to the row; over IMAP the message is found by the row's server UID, if   *)
(* UIDVALIDITY is known, or by its Message-ID. Meanwhile Mail changes rows, *)
(* files and the mailbox's UIDVALIDITY, and the server renumbers and        *)
(* expunges. What is returned must be the message the reference names.      *)
(*                                                                          *)
(* One behaviour is one session: a read by a local reference ("read"), by a *)
(* server reference ("server"), two listings of a page with excerpts        *)
(* ("page"), or an attachment to save ("save", module AttachmentSave).      *)
EXTENDS Integers, FiniteSets

CONSTANTS
    None,
    Kinds,       \* the sessions that are run
    Chunk,       \* rows of a page that are read at once
    Budget,      \* source bytes the excerpts of a page may take
    MaxChanges,  \* changes by Mail and the server, for every kind of session
    MaxFaults    \* failing calls

Msg == {"a", "b", "c"}
Uid == 1..3

\* An entry of the cache of excerpts is found by the row, its UID and UIDVALIDITY.
Keys == Msg \X Uid \X (0..2)

ASSUME SourceAssumption ==
    /\ Kinds \subseteq {"read", "server", "page", "save"}
    /\ Chunk \in Nat \ {0} /\ Budget \in Nat
    /\ None \notin Msg \cup Keys \cup {"shared", "full", "partial", "local", "imap", "cache"}

File == {"full", "partial", "missing", "both", "broken"}

VARIABLES
    q,     \* the session: what is asked, of which store and account
    srv,   \* the server's mailbox: UIDVALIDITY and the messages by UID
    idx,   \* the index rows: where the message is, and its server UID
    lv,    \* whether the mailbox's Info.plist tells UIDVALIDITY
    file,  \* the source file of every row
    r,     \* the readers: one for a single read, one for every row of a page
    cache, \* cached excerpts: key and whose text it is
    page,  \* the page's chunk, what its excerpts took, and its number
    torn,  \* Mail rebuilt the mailbox between two reads of its identity
    left   \* changes and faults that may still happen

source == <<q, srv, idx, lv, file, r, cache, page, torn, left>>

\* The number a message has at first, and after a renumbering.
First == [a |-> 1, b |-> 2, c |-> 3]
Mail(u) == CHOOSE m \in Msg : First[m] = u
Rotated(at) == [u \in Uid |-> at[(u % 3) + 1]]

\* The Message-ID header: unique, absent, or shared by two messages.
RfcId(m) ==
    CASE q.id = "shared" /\ m \in {"a", "b"} -> "shared"
      [] q.id = "none" /\ m = "a" -> None
      [] OTHER -> m

\* A reader before it starts, for the reference ref.
NewReader(ref) ==
    [pc |-> "idle", ref |-> ref, try |-> 1, open |-> None, key |-> None,
     uid |-> 0, v |-> 0, id |-> None, read |-> 0, remote |-> FALSE, got |-> None,
     complete |-> FALSE, err |-> FALSE, from |-> None, local |-> None, flags |-> None]

\* A reference: the row, its server UID when it was listed, and, once the
\* message was found on the server, UIDVALIDITY and Message-ID.
Ref(m, v, id) == [m |-> m, uid |-> First[m], v |-> v, id |-> id]
----------------------------------------------------------------------------
Sessions ==
    {[kind |-> k, want |-> w, imap |-> i, layout |-> l, id |-> d] :
        k \in Kinds, w \in {"full", "raw", "headers"}, i \in BOOLEAN,
        l \in {"physical", "label"}, d \in {"own", "none", "shared"}}

Sensible(s) ==
    /\ s.kind # "read" => s.want = "full"
    /\ s.kind = "server" => s.imap
    /\ s.kind = "page" => s.layout = "physical" /\ s.id # "shared"
    /\ s.kind = "save" => s.id = "own" /\ s.layout = "physical"

ReadInit ==
    /\ q \in {s \in Sessions : Sensible(s)}
    /\ srv = [v |-> 1, at |-> [u \in Uid |-> Mail(u)]]
    /\ idx = [at |-> [m \in Msg |-> "here"], uid |-> First, v |-> 1]
    /\ lv \in {"known", "unknown"}
    /\ IF q.kind = "page"
       THEN /\ file \in [Msg -> {"full", "partial", "missing"}]
            /\ r = [m \in Msg |-> NewReader(Ref(m, 0, None))]
            /\ page = [chunk |-> 0, spent |-> 0, round |-> 1]
       ELSE /\ \E f \in File : file = [m \in Msg |-> IF m = "a" THEN f ELSE "full"]
            /\ \E v \in {0, 1}, d \in {None, RfcId("a")} :
                r = [m \in {"a"} |->
                    IF q.kind = "server"
                    THEN [NewReader(Ref("a", 1, None)) EXCEPT !.pc = "fetch", !.uid = 1, !.v = 1]
                    ELSE [NewReader(Ref("a", v, d)) EXCEPT
                            !.pc = IF q.kind = "save" THEN "idle" ELSE "resolve"]]
            /\ page = [chunk |-> 0, spent |-> 0, round |-> 0]
    /\ cache = {}
    /\ torn = FALSE
    /\ left = [changes |-> MaxChanges[q.kind], faults |-> MaxFaults]

Store == <<srv, idx, lv, file>>
Fault == left.faults > 0 /\ left' = [left EXCEPT !.faults = @ - 1]

\* Reader p goes on as x.
Goes(p, x) == r' = [r EXCEPT ![p] = x]

At(p, pc) == p \in DOMAIN r /\ r[p].pc = pc
Quiet == UNCHANGED <<Store, q, cache, page, torn>>
----------------------------------------------------------------------------
(* The local source. *)

\* resolveMessage: the row is there, in its mailbox, with the reference's UID.
Resolves(ref) == idx.at[ref.m] = "here" /\ idx.uid[ref.m] = ref.uid

\* safeTargetedFallback: a deleted row, a missing or an invalid source may be
\* recovered over IMAP; a changed identity and an ambiguous source may not.
RowLost(ref) == idx.at[ref.m] = "gone"
Recoverable(f) == f \in {"missing", "broken"}

Refuse(x) == [x EXCEPT !.pc = "done", !.err = TRUE]

\* A read that needs IMAP, or fails because there is none.
Hydrate(x) == IF q.imap THEN [x EXCEPT !.pc = "target"] ELSE Refuse(x)

\* A read without a local source; an excerpt may still be in the cache, an
\* attachment in a file of its own.
Lost(x) ==
    CASE q.kind = "page" -> [x EXCEPT !.pc = "use"]
      [] q.kind = "save" -> [x EXCEPT !.pc = "again"]
      [] OTHER -> Hydrate(x)

\* The row identity is read.
Resolve(p) ==
    /\ At(p, "resolve")
    /\ Goes(p, IF Resolves(r[p].ref) THEN [r[p] EXCEPT !.pc = "open"]
               ELSE IF RowLost(r[p].ref) THEN Lost(r[p]) ELSE Refuse(r[p]))
    /\ Quiet /\ UNCHANGED left

\* openResolvedSource: exactly one of the full and the partial file.
OpenFile(p) ==
    /\ At(p, "open")
    /\ LET f == file[r[p].ref.m]
       IN  Goes(p, CASE f \in {"full", "partial"} -> [r[p] EXCEPT !.pc = "check", !.open = f]
                     [] Recoverable(f) -> Lost(r[p])
                     [] OTHER -> Refuse(r[p]))
    /\ Quiet /\ UNCHANGED left

\* messageStillMatches: the row still is what it was before the file was
\* opened; otherwise the whole is tried a second time.
CheckRow(p) ==
    /\ At(p, "check")
    /\ Goes(p, IF Resolves(r[p].ref) THEN [r[p] EXCEPT !.pc = "use"]
               ELSE IF r[p].try = 1 THEN [r[p] EXCEPT !.pc = "resolve", !.try = 2, !.open = None]
               ELSE Refuse(r[p]))
    /\ Quiet /\ UNCHANGED left

\* The message of reader x from the local source.
Locally(x) ==
    [x EXCEPT !.pc = "done", !.got = x.ref.m, !.from = "local", !.complete = (x.open = "full")]

\* GetMessage, GetRawSource and the header read with a local source: headers
\* are good from a partial one, the raw source is not, and a partial message
\* is what remains if there is no IMAP.
UseSource(p) ==
    /\ At(p, "use") /\ q.kind = "read"
    /\ Goes(p, CASE r[p].open = "full" \/ q.want = "headers" -> Locally(r[p])
                 [] q.want = "full" /\ ~q.imap -> Locally(r[p])
                 [] OTHER -> Hydrate(r[p]))
    /\ Quiet /\ UNCHANGED left
----------------------------------------------------------------------------
(* resolveImapTarget and the FETCH. *)

\* What a read returns when IMAP fails: a partial local message comes along
\* with the error, and so does a partial excerpt.
Unhydrated(x) ==
    IF x.open # None /\ (q.kind = "page" \/ (q.kind = "read" /\ q.want = "full"))
    THEN [Locally(x) EXCEPT !.err = TRUE]
    ELSE Refuse(x)

\* With a UID the message is fetched, a page's rows together at the end;
\* without one it is searched by its Message-ID.
Located(x) ==
    IF x.uid = 0 THEN [x EXCEPT !.pc = "search"]
    ELSE IF q.kind = "page" THEN [x EXCEPT !.pc = "planned", !.remote = TRUE]
    ELSE [x EXCEPT !.pc = "fetch"]

\* The row is resolved again. The UID in the reference of a label member
\* belongs to another mailbox.
TargetRow(p) ==
    /\ At(p, "target")
    /\ LET x == [r[p] EXCEPT !.id = r[p].ref.id]
       IN  Goes(p, IF ~Resolves(x.ref) THEN Unhydrated(x)
                   ELSE IF q.layout = "physical" THEN [x EXCEPT !.pc = "validity"]
                   ELSE IF x.id = None THEN [x EXCEPT !.pc = "identify"]
                   ELSE Located(x))
    /\ Quiet /\ UNCHANGED left

\* UIDVALIDITY of the mailbox as Mail knows it.
KnownValidity == IF lv = "known" THEN idx.v ELSE 0

\* An excerpt may use the UID without UIDVALIDITY: it compares Message-IDs.
Usable(x) == x.v # 0 \/ (q.kind = "page" /\ lv = "unknown")

\* directIMAPIdentity: UIDVALIDITY from the reference or from Info.plist; they
\* must not contradict each other.
Validity(p) ==
    /\ At(p, "validity")
    /\ LET ref == r[p].ref
           x == [r[p] EXCEPT !.v = IF ref.v # 0 THEN ref.v ELSE KnownValidity]
           y == IF Usable(x) THEN [x EXCEPT !.uid = ref.uid] ELSE x
       IN  Goes(p, IF ref.v # 0 /\ KnownValidity \notin {0, ref.v} THEN Unhydrated(x)
                   ELSE IF y.id = None /\ (y.uid = 0 \/ y.v = 0) THEN [y EXCEPT !.pc = "identify"]
                   ELSE Located(y))
    /\ Quiet /\ UNCHANGED left

\* readLocalMessageID, from a local source that may be partial. Without UID and
\* Message-ID there is nothing to ask the server for.
Identify(p) ==
    /\ At(p, "identify")
    /\ LET ref == r[p].ref
           open == Resolves(ref) /\ file[ref.m] \in {"full", "partial"}
           hard == ~open /\ ~RowLost(ref) /\ ~(Resolves(ref) /\ Recoverable(file[ref.m]))
           id == IF open THEN RfcId(ref.m) ELSE None
           x == [r[p] EXCEPT !.id = id, !.uid = IF r[p].v = 0 /\ id = None THEN 0 ELSE @]
       IN  Goes(p, IF hard \/ (x.uid = 0 /\ id = None) THEN Unhydrated(x) ELSE Located(x))
    /\ Quiet /\ UNCHANGED left

\* SearchUID must find exactly one message.
Unique(us) == Cardinality(us) = 1

Search(p) ==
    /\ At(p, "search")
    /\ LET us == {u \in Uid : srv.at[u] # None /\ RfcId(srv.at[u]) = r[p].id}
       IN  \E u \in IF Unique(us) THEN us ELSE {0} :
            Goes(p, IF u = 0 THEN Unhydrated(r[p])
                    ELSE Located([r[p] EXCEPT !.uid = u, !.v = srv.v]))
    /\ Quiet /\ UNCHANGED left

\* Deviation: the UIDVALIDITY of the selected mailbox is not compared.
SelectedAny(x) == TRUE

\* SELECT must show the expected UIDVALIDITY, or the text the Message-ID.
Selected(x) ==
    IF x.v # 0 THEN srv.v = x.v
    ELSE srv.at[x.uid] # None => RfcId(srv.at[x.uid]) = x.id

\* What FETCH brings for reader x.
Fetched(x) ==
    IF Selected(x) /\ srv.at[x.uid] # None
    THEN [x EXCEPT !.pc = CASE q.kind = "server" -> "membership" [] q.kind = "save" -> "write" [] OTHER -> "done",
            !.got = srv.at[x.uid], !.complete = TRUE, !.from = "imap"]
    ELSE Unhydrated(x)

Fetch(p) ==
    /\ At(p, "fetch")
    /\ Goes(p, Fetched(r[p]))
    /\ Quiet /\ UNCHANGED left

\* Credentials, the mailbox list, SEARCH or FETCH fail, or time runs out.
ServerFails(p) ==
    /\ p \in DOMAIN r /\ r[p].pc \in {"search", "fetch"} /\ Fault
    /\ Goes(p, Unhydrated(r[p]))
    /\ Quiet
----------------------------------------------------------------------------
(* finishServerMessage: the local reference and the flags of a message that *)
(* was read by a server reference.                                          *)

\* UIDVALIDITY must agree where Mail keeps the mailbox as rows of its own.
Membership(p) ==
    /\ At(p, "membership")
    /\ LET rows == \E m \in Msg : idx.at[m] = "here"
           same == q.layout = "label" \/ KnownValidity = r[p].ref.v
       IN  Goes(p, [r[p] EXCEPT !.pc = IF rows /\ same THEN "localrow" ELSE "flags"])
    /\ Quiet /\ UNCHANGED left

\* The rows that may be the message: by UID, or, for label members, by the
\* header block and the exact Message-ID.
Candidates(x) ==
    IF q.layout = "physical" THEN {m \in Msg : idx.at[m] = "here" /\ idx.uid[m] = x.ref.uid}
    ELSE {m \in Msg : idx.at[m] = "here" /\ RfcId(x.got) # None /\ RfcId(m) = RfcId(x.got)}

\* Exactly one candidate, and every source of a label's candidates is read.
LocalRow(p) ==
    /\ At(p, "localrow")
    /\ LET ms == Candidates(r[p])
           one == Cardinality(ms) = 1
           read == q.layout = "physical" \/ \A m \in ms : file[m] \in {"full", "partial"}
       IN  Goes(p, [r[p] EXCEPT !.pc = "flags",
                !.local = IF one /\ read THEN CHOOSE m \in ms : TRUE ELSE None])
    /\ Quiet /\ UNCHANGED left

\* The flags count as the server's only under the same UIDVALIDITY.
ReadFlags(p) ==
    /\ At(p, "flags")
    /\ \/ UNCHANGED left /\ Goes(p, [r[p] EXCEPT !.pc = "done",
            !.flags = IF srv.v # r[p].v THEN "unverified"
                      ELSE IF srv.at[r[p].uid] = None THEN "missing" ELSE "observed"])
       \/ Fault /\ Goes(p, [r[p] EXCEPT !.pc = "done", !.flags = "unverified"])
    /\ Quiet
----------------------------------------------------------------------------
(* EnrichMessages: the excerpts of a page. *)

ChunkOf(m) == (First[m] - 1) \div Chunk + 1
Rows(c) == {m \in Msg : ChunkOf(m) = c}
Chunks == (Cardinality(Msg) + Chunk - 1) \div Chunk

\* What a row took: the bytes it read, and the bound of its planned FETCH.
Charge(x) == x.read + (IF x.remote THEN 1 ELSE 0)

\* What the rows of a set took.
Took(rows) ==
    LET part(m) == IF m \in rows THEN Charge(r[m]) ELSE 0
    IN  part("a") + part("b") + part("c")

Spent(c) == Took(Rows(c))

\* The rows of a chunk run at once; when all have ended they are charged, and
\* the next rows start or, once the budget is used up, are left out.
NextChunk ==
    /\ q.kind = "page" /\ page.chunk < Chunks
    /\ \A m \in Rows(page.chunk) : r[m].pc \in {"planned", "done"}
    /\ LET spent == page.spent + Spent(page.chunk)
       IN  /\ page' = [page EXCEPT !.chunk = @ + 1, !.spent = spent]
           /\ r' = [m \in Msg |-> IF m \notin Rows(page.chunk + 1) \/ r[m].pc # "idle" THEN r[m]
                                  ELSE IF spent >= Budget THEN Refuse(r[m])
                                  ELSE [r[m] EXCEPT !.pc = "resolve"]]
    /\ UNCHANGED <<Store, q, cache, torn, left>>

\* The key of a cached excerpt: the row as it is now.
CacheKey(ref) == IF Resolves(ref) THEN <<ref.m, ref.uid, ref.v>> ELSE None

\* The entries with a key, and the cache with what reader m brought as new.
Hits(key) == {e \in cache : e.key = key}
CacheWith(new, got) ==
    {e \in cache : \A m \in new : e.key # r[m].key} \cup {[key |-> r[m].key, got |-> got[m].got] : m \in new}

\* localExcerpt: a full source is enough; for a partial or missing one the
\* cache is asked, by the row's identity, and then the server.
UseExcerpt(p) ==
    /\ At(p, "use") /\ q.kind = "page"
    /\ LET key == CacheKey(r[p].ref)
           hits == Hits(key)
           x == [r[p] EXCEPT !.key = key, !.read = CASE r[p].open = "full" -> 2
                                                     [] r[p].open = "partial" -> 1 [] OTHER -> 0]
       IN  Goes(p, IF x.open = "full" \/ (~q.imap /\ x.open # None) THEN Locally(x)
                   ELSE IF ~q.imap THEN Refuse(x)
                   ELSE IF hits # {} THEN [r[p] EXCEPT !.pc = "done", !.from = "cache",
                                            !.got = (CHOOSE e \in hits : TRUE).got]
                   ELSE [x EXCEPT !.pc = "target"])
    /\ Quiet /\ UNCHANGED left

\* One FETCH for the planned rows of one UIDVALIDITY; what came over IMAP is
\* cached.
FetchGroup(v) ==
    LET rows == {m \in DOMAIN r : r[m].pc = "planned" /\ r[m].v = v} IN
    /\ page.chunk = Chunks /\ rows # {}
    /\ \A m \in Msg : r[m].pc \in {"planned", "done"}
    /\ \/ r' = [m \in Msg |-> IF m \in rows THEN Fetched(r[m]) ELSE r[m]] /\ UNCHANGED left
       \/ Fault /\ r' = [m \in Msg |-> IF m \in rows THEN Unhydrated(r[m]) ELSE r[m]]
    /\ LET new == {m \in rows : r'[m].from = "imap" /\ r'[m].key # None}
       IN  cache' = CacheWith(new, r')
    /\ UNCHANGED <<Store, q, page, torn>>

PageDone == page.chunk = Chunks /\ \A m \in DOMAIN r : r[m].pc = "done"

\* The deadline ends every row that has not ended.
Deadline ==
    /\ q.kind = "page" /\ page.chunk > 0 /\ ~PageDone /\ Fault
    /\ r' = [m \in Msg |-> IF r[m].pc = "done" THEN r[m] ELSE Refuse(r[m])]
    /\ page' = [page EXCEPT !.chunk = Chunks]
    /\ UNCHANGED <<Store, q, cache, torn>>

\* The mailbox is listed again, with the references its rows have now.
ListAgain ==
    /\ PageDone /\ page.round = 1
    /\ page' = [chunk |-> 0, spent |-> 0, round |-> 2]
    /\ r' = [m \in Msg |->
        LET x == NewReader([m |-> m, uid |-> idx.uid[m], v |-> 0, id |-> None])
        IN  IF idx.at[m] = "here" THEN x ELSE Refuse(x)]
    /\ UNCHANGED <<Store, q, cache, torn, left>>
----------------------------------------------------------------------------
(* Mail and the server. *)

Busy == \/ \E p \in DOMAIN r : r[p].pc \notin {"done", "write"}
        \/ page.round = 1
Change == Busy /\ left.changes > 0 /\ left' = [left EXCEPT !.changes = @ - 1]

\* The server rebuilds the mailbox: new UIDVALIDITY, other UIDs.
Renumber ==
    /\ Change /\ srv.v = 1
    /\ srv' = [v |-> 2, at |-> Rotated(srv.at)]
    /\ UNCHANGED <<q, idx, lv, file, r, cache, page, torn>>

ServerExpunges(u) ==
    /\ Change /\ srv.at[u] # None
    /\ srv' = [srv EXCEPT !.at[u] = None]
    /\ UNCHANGED <<q, idx, lv, file, r, cache, page, torn>>

\* Mail takes over the server's UIDVALIDITY, its UIDs and what is gone. A
\* reader between the row and the UIDVALIDITY that shall vouch for it is torn.
Resync ==
    /\ Change /\ q.layout = "physical" /\ idx.v # srv.v
    /\ idx' = [v |-> srv.v,
               at |-> [m \in Msg |-> IF \E u \in Uid : srv.at[u] = m THEN idx.at[m] ELSE "gone"],
               uid |-> [m \in Msg |-> IF \E u \in Uid : srv.at[u] = m
                                      THEN CHOOSE u \in Uid : srv.at[u] = m ELSE idx.uid[m]]]
    /\ lv' = "known"
    /\ torn' = (torn \/ \E p \in DOMAIN r :
        r[p].pc = "localrow" \/ (r[p].pc = "validity" /\ r[p].ref.v = 0))
    /\ UNCHANGED <<q, srv, file, r, cache, page>>

\* Mail moves or deletes the message of a row.
RowChanges(m) ==
    /\ Change /\ idx.at[m] = "here"
    /\ \E s \in {"moved", "gone"} : idx' = [idx EXCEPT !.at[m] = s]
    /\ UNCHANGED <<q, srv, lv, file, r, cache, page, torn>>

\* Mail downloads, evicts or damages a source.
FileChanges(m) ==
    /\ Change
    /\ \E f \in File \ {file[m]} : file' = [file EXCEPT ![m] = f]
    /\ UNCHANGED <<q, srv, idx, lv, r, cache, page, torn>>

InfoChanges ==
    /\ Change
    /\ \E x \in {"known", "unknown", "unreadable"} \ {lv} : lv' = x
    /\ UNCHANGED <<q, srv, idx, file, r, cache, page, torn>>

Environment ==
    \/ Renumber \/ Resync \/ InfoChanges
    \/ \E u \in Uid : ServerExpunges(u)
    \/ \E m \in DOMAIN r : RowChanges(m) \/ FileChanges(m)
----------------------------------------------------------------------------
ReadStep ==
    \/ \E p \in DOMAIN r :
        \/ Resolve(p) \/ OpenFile(p) \/ CheckRow(p) \/ UseSource(p) \/ UseExcerpt(p)
        \/ TargetRow(p) \/ Validity(p) \/ Identify(p) \/ Search(p) \/ Fetch(p) \/ ServerFails(p)
        \/ Membership(p) \/ LocalRow(p) \/ ReadFlags(p)
    \/ NextChunk \/ \E v \in 0..2 : FetchGroup(v)
    \/ Deadline \/ ListAgain
----------------------------------------------------------------------------
\* Two names of one message: copies with one Message-ID count as the same.
Same(m, n) == m = n \/ (RfcId(m) # None /\ RfcId(m) = RfcId(n))

SourceRight == \A p \in DOMAIN r : r[p].got # None => Same(r[p].got, r[p].ref.m)
LocalRefRight == \A p \in DOMAIN r : r[p].local # None => Same(r[p].local, r[p].got)
ExcerptRight == \A e \in cache : Same(e.got, e.key[1])

\* What a read returns belongs to the message of the reference, the local
\* reference of a server message to that message, and a cached excerpt to the
\* message of its key, whatever Mail and the server did to rows, UIDs and
\* files meanwhile. It is not known when Mail rebuilt the mailbox between the
\* read of the row and the read of UIDVALIDITY.
RightMessage == torn \/ (SourceRight /\ LocalRefRight /\ ExcerptRight)

\* A read that needs the whole message and reports no error returns the whole
\* message if there is a server to ask; an excerpt or a part of a message is
\* never returned as complete, and no read ends with neither answer nor error.
NothingHalf ==
    \A p \in DOMAIN r : r[p].pc = "done" =>
        /\ r[p].got = None => r[p].err
        /\ r[p].complete => r[p].got # None /\ (r[p].from = "local" => r[p].open = "full")
        /\ q.imap /\ q.kind \in {"read", "server"} /\ q.want # "headers" /\ ~r[p].err => r[p].complete

\* The excerpts of a page stop at the budget: a row takes bytes only if the
\* rows of the chunks before it took less, planned FETCHes included.
BudgetHeld ==
    q.kind = "page" =>
        \A m \in Msg : Charge(r[m]) > 0 =>
            Took({n \in Msg : ChunkOf(n) < ChunkOf(m)}) < Budget
=============================================================================
