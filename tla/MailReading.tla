----------------------------- MODULE MailReading -----------------------------
(***************************************************************************)
(* One reader going page by page through Mail's Envelope Index while Mail  *)
(* keeps writing it: a search (internal/mailstore/search.go,               *)
(* search_scan.go, search_candidates.go), the listing of one mailbox or of *)
(* all inboxes (messages.go, unified_inbox.go), or a conversation          *)
(* (thread.go).  Every query is a step of its own; between two of them     *)
(* Mail may deliver, remove and catalogue messages, or download and evict  *)
(* their source files.                                                     *)
(***************************************************************************)
EXTENDS Integers, Sequences, FiniteSets, SequencesExt

CONSTANTS Row,            \* ROWIDs of the messages table, positive numbers
          Message,        \* [Row -> [received, boxes, thread, text, parts, size]]
          None,           \* a NULL date, no cursor
          Box,            \* mailboxes; each is the inbox of one account
          Start,          \* the rows present when a session may start
          Odd,            \* the sets of rows whose source may not be whole then
          Limit,          \* page sizes a reader may ask for
          Budget,         \* values of --max-scan-bytes
          MaxMessages, ChunkSize, BatchSize,
          Unit,           \* bytes a budget advice is rounded up to (1 MiB)
          MaxEdits,       \* how often Mail writes the index during each kind of session
          MaxFileEdits    \* how often Mail changes a source file

ASSUME ReadingAssumption ==
  /\ Row \subseteq Nat \ {0} /\ IsFiniteSet(Row) /\ None \notin Nat
  /\ \A r \in Row : /\ Message[r].received \in Nat \union {None}
                    /\ Message[r].boxes \subseteq Box /\ Message[r].boxes # {}
                    /\ {Message[r].thread, Message[r].text, Message[r].parts} \subseteq BOOLEAN
                    /\ Message[r].size \in Nat \ {0}
  /\ Start \subseteq SUBSET Row /\ Odd \subseteq SUBSET Row
  /\ Limit \subseteq Nat \ {0} /\ Budget \subseteq Nat \ {0}
  /\ {MaxMessages, ChunkSize, BatchSize, Unit} \subseteq Nat \ {0}
  /\ MaxEdits \in [{"search", "list", "unified", "thread"} -> Nat] /\ MaxFileEdits \in Nat

VARIABLES index,        \* the rows present and not deleted
          gone,         \* rows Mail has removed; a ROWID is not used again
          catalog,      \* rows whose attachments are in the attachments table
          file,         \* what Mail holds of each message's source
          fileEdits,
          generation,   \* WriteTransactionGeneration
          inboxes,      \* the boxes of the active accounts
          s,            \* the reader's session
          p             \* the page being produced

world == <<index, gone, catalog, file, fileEdits, generation, inboxes>>
vars  == <<index, gone, catalog, file, fileEdits, generation, inboxes, s, p>>

Source  == {"whole", "partial", "malformed", "missing"}
Kinds   == {"search", "list", "unified", "thread"}
Queries == {"all", "text", "attached", "bare"}

----------------------------------------------------------------------------
(* The order of every page and the keyset predicates.                      *)

IsNull(r) == Message[r].received = None

\* ORDER BY date_received DESC, ROWID DESC: a NULL date sorts last.
Before(a, b) ==
  \/ ~IsNull(a) /\ IsNull(b)
  \/ IsNull(a) /\ IsNull(b) /\ a > b
  \/ /\ ~IsNull(a) /\ ~IsNull(b)
     /\ \/ Message[a].received > Message[b].received
        \/ Message[a].received = Message[b].received /\ a > b

\* Deviation: the rows without a date do not follow a dated cursor.
FollowsDated(r, c, inclusive) ==
  LET below == r < c \/ (inclusive /\ r = c)
  IN  IF IsNull(c) THEN IsNull(r) /\ below
      ELSE ~IsNull(r) /\ (\/ Message[r].received < Message[c].received
                          \/ Message[r].received = Message[c].received /\ below)

\* The cursor clause of the list, search and stream queries.
Follows(r, c, inclusive) ==
  LET below == r < c \/ (inclusive /\ r = c)
  IN  IF IsNull(c) THEN IsNull(r) /\ below
      ELSE \/ IsNull(r)
           \/ Message[r].received < Message[c].received
           \/ Message[r].received = Message[c].received /\ below

After(S, c, inclusive) == IF c = None THEN S ELSE {r \in S : Follows(r, c, inclusive)}

AllSorted  == SetToSortSeq(Row, Before)
Sorted(S)  == SelectSeq(AllSorted, LAMBDA r : r \in S)
Take(q, n) == SubSeq(q, 1, IF Len(q) < n THEN Len(q) ELSE n)
Min2(a, b) == IF a < b THEN a ELSE b

\* Membership of a row in what the session reads: its mailbox or a label.
Scope ==
  CASE s.kind = "search"  -> index
    [] s.kind = "list"    -> {r \in index : s.box \in Message[r].boxes}
    [] s.kind = "unified" -> {r \in index : Message[r].boxes \intersect inboxes # {}}
    [] s.kind = "thread"  -> {r \in index : Message[r].thread}

\* What the caller asked for, of the message itself.
Matches(q, r) ==
  CASE q = "all"      -> TRUE
    [] q = "text"     -> Message[r].text
    [] q = "attached" -> Message[r].parts
    [] q = "bare"     -> ~Message[r].parts

----------------------------------------------------------------------------
\* What a cursor is bound to: the fingerprint of the query without its
\* limits, the mailbox, the set of inboxes, or the seed message.
Bound ==
  CASE s.kind = "search"  -> s.query
    [] s.kind = "list"    -> s.box
    [] s.kind = "unified" -> inboxes
    [] s.kind = "thread"  -> s.seed

\* The cursor decoders refuse a cursor that was made for something else.
CursorFits == s.cursor # None => s.scope = Bound

NoPage == [rev |-> 0, total |-> 0, exact |-> FALSE, loaded |-> 0, progress |-> 0,
           last |-> None, blocked |-> None, need |-> 0, hits |-> <<>>, reserved |-> 0,
           complete |-> TRUE, sources |-> TRUE, streamLast |-> None, done |-> FALSE,
           chunk |-> <<>>, batch |-> 0, cat |-> {}, cursor |-> None, inclusive |-> FALSE]

NoReport == [complete |-> FALSE, exact |-> FALSE, total |-> 0, truth |-> {}, hits |-> {},
             more |-> FALSE]

\* The session as a caller starts it, without a cursor.  stable: the rows
\* that were there from the start and stayed; whole: those of them whose
\* source was complete all the time.
Fresh(t) ==
  [t EXCEPT !.pc = "begin", !.cursor = None, !.inclusive = FALSE, !.rev = 0,
            !.seen = <<>>, !.prev = None, !.next = None, !.back = TRUE, !.sound = TRUE,
            !.stable = index', !.whole = {r \in index' : file'[r] = "whole"},
            !.base = index', !.report = NoReport]

Init ==
  /\ index \in Start /\ gone = {}
  /\ generation = 1 /\ fileEdits = 0
  /\ catalog \in SUBSET {r \in index : Message[r].parts}
  /\ \E f \in Source \ {"missing"}, x \in Odd :
       file = [r \in Row |-> IF r \in x THEN f ELSE "whole"]
  /\ inboxes = Box
  /\ p = NoPage
  /\ \E k \in Kinds, q \in Queries, n \in Limit, b \in Budget, x \in Box, e \in BOOLEAN, d \in Row :
       /\ k # "search" => q = "all" /\ ~e
       /\ q = "all" => file = [r \in Row |-> "whole"]
       /\ q \in {"all", "text"} => catalog = {r \in index : Message[r].parts}
       /\ (k # "search" \/ q = "all") => b = CHOOSE y \in Budget : TRUE
       /\ x \in inboxes /\ (k # "list" => x = CHOOSE y \in inboxes : TRUE)
       /\ IF k = "thread" THEN d \in index /\ Message[d].thread ELSE d = CHOOSE y \in Row : TRUE
       /\ s = [kind |-> k, query |-> q, limit |-> n, budget |-> b, box |-> x, exact |-> e,
               seed |-> d, pc |-> "begin", cursor |-> None, inclusive |-> FALSE, rev |-> 0,
               seen |-> <<>>, prev |-> None, next |-> None, back |-> TRUE, sound |-> TRUE,
               stable |-> index, whole |-> {r \in index : file[r] = "whole"},
               base |-> index, scope |-> None, report |-> NoReport]

----------------------------------------------------------------------------
(* A search page.                                                          *)

\* SearchMessages reads the revision first; a cursor of another revision is
\* refused and the caller starts over.
BeginSearch ==
  /\ s.kind = "search" /\ s.pc = "begin" /\ CursorFits
  /\ UNCHANGED world
  /\ IF s.cursor # None /\ s.rev # generation
     THEN s' = Fresh(s) /\ p' = NoPage
     ELSE /\ p' = [NoPage EXCEPT !.rev = generation]
          /\ s' = [s EXCEPT !.pc = IF s.query = "all" THEN "query"
                                   ELSE IF s.exact THEN "count" ELSE "scan"]

Candidates == After(Scope, s.cursor, s.inclusive)

\* searchMetadata: one query decides, with one row more than the page.
QueryMetadata ==
  /\ s.kind = "search" /\ s.pc = "query"
  /\ LET items == Take(Sorted(Candidates), s.limit + 1)
         more  == Len(items) > s.limit
         page  == Take(items, s.limit)
     IN  p' = [p EXCEPT !.hits = page, !.total = Len(items), !.exact = ~more,
                        !.cursor = IF more THEN page[Len(page)] ELSE None]
  /\ s' = [s EXCEPT !.pc = IF s.exact THEN "count" ELSE "deliver"]
  /\ UNCHANGED world

\* countSearchCandidates: exact, or refused above --max-messages.
CountCandidates ==
  /\ s.kind = "search" /\ s.pc = "count"
  /\ LET n == Cardinality(Candidates)
     IN  IF n > MaxMessages THEN s' = [s EXCEPT !.pc = "refused"] /\ p' = NoPage
         ELSE /\ p' = [p EXCEPT !.total = n, !.exact = TRUE]
              /\ s' = [s EXCEPT !.pc = IF s.query = "all" THEN "deliver" ELSE "scan"]
  /\ UNCHANGED world

\* The rows the stream has not yielded yet.
Stream == After(Candidates, p.streamLast, FALSE)

\* searchCandidateStream.next
StreamNext(n) ==
  LET items == IF p.done THEN <<>> ELSE Take(Sorted(Stream), n)
  IN  [items |-> items,
       last  |-> IF items = <<>> THEN p.streamLast ELSE items[Len(items)],
       done  |-> p.done \/ Len(items) < n]

WantsMore == p.loaded < MaxMessages /\ Len(p.hits) < s.limit

LoadChunk ==
  /\ s.kind = "search" /\ s.pc = "scan" /\ p.chunk = <<>> /\ WantsMore
  /\ LET next == StreamNext(Min2(ChunkSize, MaxMessages - p.loaded))
     IN  /\ p' = [p EXCEPT !.chunk = next.items, !.streamLast = next.last, !.done = next.done,
                           !.loaded = @ + Len(next.items), !.batch = 0, !.cat = catalog]
         /\ s' = [s EXCEPT !.pc = IF next.items = <<>> THEN "look" ELSE "scan"]
  /\ UNCHANGED world

\* A batch never holds more candidates than the page still has room for.
BatchLeft ==
  IF p.batch > 0 THEN p.batch
  ELSE Min2(Min2(BatchSize, s.limit - Len(p.hits)), Len(p.chunk))

\* The catalog decides without the source: attachments it knows are there.
CatalogDecides(r) == s.query \in {"attached", "bare"} /\ r \in p.cat

Bytes(r) == IF file[r] = "partial" THEN 1 ELSE Message[r].size

\* What scanning an opened source may find.  A partial one may lack the
\* part; only a complete one proves that there is no attachment.
Found(r) ==
  CASE file[r] = "whole"     -> {Matches(s.query, r)}
    [] file[r] = "partial"   -> IF s.query = "bare" THEN {FALSE} ELSE {FALSE, Matches(s.query, r)}
    [] file[r] = "malformed" -> {FALSE}

Classified(r, match, whole, bytes) ==
  [p EXCEPT !.chunk = Tail(@), !.batch = BatchLeft - 1, !.progress = @ + 1, !.last = r,
            !.hits = IF match THEN Append(@, r) ELSE @, !.reserved = @ + bytes,
            !.complete = @ /\ whole, !.sources = @ /\ whole]

Scanning == s.kind = "search" /\ s.pc = "scan" /\ p.chunk # <<>> /\ BatchLeft > 0

\* dispatchSearchJobs and scanCandidate for one candidate.
ClassifyByCatalog ==
  /\ Scanning
  /\ LET r == Head(p.chunk)
     IN  CatalogDecides(r) /\ p' = Classified(r, s.query = "attached", TRUE, 0)
  /\ UNCHANGED <<world, s>>

\* The row was removed since the chunk was read: stale_reference.
CandidateStale ==
  /\ Scanning /\ ~CatalogDecides(Head(p.chunk)) /\ Head(p.chunk) \notin index
  /\ p' = NoPage /\ s' = [s EXCEPT !.pc = "begin"]
  /\ UNCHANGED world

\* Deviation: a missing source leaves the coverage complete.
SourceMissingSilent ==
  /\ Scanning
  /\ LET r == Head(p.chunk)
     IN  /\ ~CatalogDecides(r) /\ r \in index /\ file[r] = "missing"
         /\ p' = Classified(r, FALSE, TRUE, 0)
  /\ UNCHANGED <<world, s>>

SourceMissing ==
  /\ Scanning
  /\ LET r == Head(p.chunk)
     IN  /\ ~CatalogDecides(r) /\ r \in index /\ file[r] = "missing"
         /\ p' = Classified(r, FALSE, FALSE, 0)
  /\ UNCHANGED <<world, s>>

Fits(r) == p.reserved <= s.budget - Bytes(r)

\* The first candidate beyond the byte budget ends the page in front of it.
BudgetReached ==
  /\ Scanning
  /\ LET r == Head(p.chunk)
     IN  /\ ~CatalogDecides(r) /\ r \in index /\ file[r] # "missing" /\ ~Fits(r)
         /\ p' = [p EXCEPT !.blocked = r, !.need = Bytes(r), !.complete = FALSE,
                           !.chunk = <<>>, !.batch = 0]
         /\ s' = [s EXCEPT !.pc = "look"]
  /\ UNCHANGED world

ScanSource ==
  /\ Scanning
  /\ LET r == Head(p.chunk)
     IN  /\ ~CatalogDecides(r) /\ r \in index /\ file[r] # "missing" /\ Fits(r)
         /\ \E match \in Found(r) : p' = Classified(r, match, file[r] = "whole", Bytes(r))
  /\ UNCHANGED <<world, s>>

\* The page is full, or --max-messages are loaded and classified.
ScanEnds ==
  /\ s.kind = "search" /\ s.pc = "scan" /\ p.batch = 0
  /\ \/ Len(p.hits) = s.limit
     \/ p.chunk = <<>> /\ ~WantsMore
  /\ s' = [s EXCEPT !.pc = "look"]
  /\ UNCHANGED <<world, p>>

\* The cursor starts at a blocked candidate, otherwise behind the last one.
CursorOf(observed, exact) ==
  IF p.blocked # None THEN <<p.blocked, TRUE>>
  ELSE IF observed > p.progress \/ ~exact THEN <<p.last, FALSE>> ELSE <<None, FALSE>>

\* Without an exact count one row is looked up beyond a fully scanned page.
Look ==
  /\ s.kind = "search" /\ s.pc = "look"
  /\ LET looks    == ~p.exact /\ p.loaded = p.progress /\ ~p.done
         next     == StreamNext(1)
         done     == IF looks THEN next.done ELSE p.done
         observed == IF p.exact THEN p.total ELSE p.loaded + (IF looks THEN Len(next.items) ELSE 0)
         exact    == p.exact \/ done
         cursor   == CursorOf(observed, exact)
     IN  p' = [p EXCEPT !.total = observed, !.exact = exact, !.done = done,
                        !.complete = @ /\ exact /\ p.progress = observed,
                        !.cursor = cursor[1], !.inclusive = cursor[2], !.chunk = <<>>]
  /\ s' = [s EXCEPT !.pc = "deliver"]
  /\ UNCHANGED world

\* Deviation: rounded down.
RoundDown(n) == n - (n % Unit)

\* roundSearchBudgetBytes
RoundUp(n) == IF n % Unit = 0 THEN n ELSE n + (Unit - (n % Unit))

TooSmall == p.blocked # None /\ p.progress = 0

\* The page leaves only if the revision is still the one it began with.
DeliverSearch ==
  /\ s.kind = "search" /\ s.pc = "deliver" /\ generation = p.rev /\ ~TooSmall
  /\ s' = [s EXCEPT !.base = IF s.cursor = None THEN index ELSE @,
                    !.seen = @ \o p.hits, !.cursor = p.cursor, !.inclusive = p.inclusive,
                    !.rev = p.rev, !.scope = Bound, !.sound = @ /\ p.sources,
                    !.pc = IF p.cursor = None THEN "end" ELSE "begin",
                    !.report = [complete |-> p.complete /\ s.query # "all", exact |-> p.exact,
                                total |-> p.total, truth |-> Candidates,
                                hits |-> Range(p.hits), more |-> p.cursor # None]]
  /\ p' = NoPage
  /\ UNCHANGED world

\* search_budget_too_small names the bytes the same page needs.
AdviseBudget ==
  /\ s.kind = "search" /\ s.pc = "deliver" /\ generation = p.rev /\ TooSmall
  /\ s' = [s EXCEPT !.budget = RoundUp(p.need), !.pc = "begin"]
  /\ p' = NoPage
  /\ UNCHANGED world

\* search_index_changed: the caller retries the page.
IndexChanged ==
  /\ s.kind = "search" /\ s.pc = "deliver" /\ generation # p.rev
  /\ s' = [s EXCEPT !.pc = "begin"] /\ p' = NoPage
  /\ UNCHANGED world

----------------------------------------------------------------------------
(* Listing: one query a page, no revision.                                 *)

ListPage ==
  /\ s.kind \in {"list", "unified"} /\ s.pc = "begin" /\ CursorFits
  /\ LET items == Take(Sorted(Candidates), s.limit + 1)
         more  == Len(items) > s.limit
         page  == Take(items, s.limit)
     IN  s' = [s EXCEPT !.seen = @ \o page, !.scope = Bound,
                        !.cursor = IF more THEN page[Len(page)] ELSE None,
                        !.pc = IF more THEN "begin" ELSE "end"]
  /\ UNCHANGED <<world, p>>

\* invalid_cursor, for a search, a mailbox or all inboxes
RefuseCursor ==
  /\ s.pc = "begin" /\ ~CursorFits
  /\ s' = [s EXCEPT !.pc = "refused"]
  /\ UNCHANGED <<world, p>>

----------------------------------------------------------------------------
(* A conversation: the page around the seed, then forward, then backward.  *)
(* Pages run from old to new, the reverse of the order above.              *)

Older(c) == {r \in Scope : Follows(r, c, FALSE)}
Newer(c) == {r \in Scope : Before(r, c)}
Nearest(S, older, n) ==          \* the n members nearest to a cursor, old to new
  IF older THEN Reverse(Take(Sorted(S), n)) ELSE Take(Reverse(Sorted(S)), n)

\* resolveMessage of the seed fails once its row is gone.
SeedGone ==
  /\ s.kind = "thread" /\ s.pc \in {"begin", "walk"} /\ s.seed \notin index
  /\ s' = [s EXCEPT !.pc = "refused"]
  /\ UNCHANGED <<world, p>>

SeedOlder ==
  /\ s.kind = "thread" /\ s.pc = "begin" /\ s.seed \in index
  /\ p' = [p EXCEPT !.chunk = Nearest(Older(s.seed), TRUE, s.limit)]
  /\ s' = [s EXCEPT !.pc = "newer"]
  /\ UNCHANGED world

\* A side of the seed goes on when the query saw more than the page shows.
GoesOn(all, shown) == all > shown

\* seedThreadRecords: the page is shared between both sides, and what one
\* side does not need is given to the other.
SeedNewer ==
  /\ s.kind = "thread" /\ s.pc = "newer"
  /\ LET older == p.chunk
         newer == Nearest(Newer(s.seed), FALSE, s.limit)
         some  == Min2((s.limit - 1) \div 2, Len(older))
         n     == Min2(s.limit - 1 - some, Len(newer))
         o     == Min2(s.limit - 1 - n, Len(older))
         page  == SubSeq(older, Len(older) - o + 1, Len(older)) \o <<s.seed>> \o Take(newer, n)
     IN  s' = [s EXCEPT !.seen = page, !.pc = "walk",
                        !.next = IF GoesOn(Len(newer), n) THEN page[Len(page)] ELSE None,
                        !.prev = IF GoesOn(Len(older), o) THEN page[1] ELSE None]
  /\ p' = NoPage
  /\ UNCHANGED world

\* threadPageRecords: one row more than the page, then the other side.
WalkPage ==
  /\ s.kind = "thread" /\ s.pc = "walk" /\ s.seed \in index
  /\ \E older \in BOOLEAN :
       /\ older = (s.next = None)
       /\ LET from  == IF older THEN s.prev ELSE s.next
              all   == Nearest(IF older THEN Older(from) ELSE Newer(from), older, s.limit + 1)
              more  == Len(all) > s.limit
              page  == IF ~more THEN all ELSE IF older THEN Tail(all) ELSE Take(all, s.limit)
              edge  == IF page = <<>> THEN None ELSE IF older THEN page[1] ELSE page[Len(page)]
              after == IF more THEN edge ELSE None
          IN  /\ from # None
              /\ s' = [s EXCEPT !.seen = IF older THEN page \o @ ELSE @ \o page,
                                !.next = IF older THEN @ ELSE after,
                                !.prev = IF older THEN after ELSE @,
                                !.pc = IF page = <<>> THEN "walk" ELSE "opposite"]
              /\ p' = [NoPage EXCEPT !.hits = page, !.done = older]
  /\ UNCHANGED world

\* Whether the page goes on in the direction the reader came from.
WalkOpposite ==
  /\ s.kind = "thread" /\ s.pc = "opposite"
  /\ s' = [s EXCEPT !.pc = "walk",
                    !.back = IF p.done THEN Newer(p.hits[Len(p.hits)]) # {} ELSE Older(p.hits[1]) # {}]
  /\ UNCHANGED <<world, p>>

WalkEnds ==
  /\ s.kind = "thread" /\ s.pc = "walk" /\ s.next = None /\ s.prev = None
  /\ s' = [s EXCEPT !.pc = "end"] /\ p' = NoPage
  /\ UNCHANGED world

----------------------------------------------------------------------------
(* Mail.                                                                   *)

Running == s.pc \notin {"end", "refused"}
Writes  == Running /\ generation <= MaxEdits[s.kind] /\ generation' = generation + 1

Deliver ==
  /\ Writes
  /\ \E r \in Row \ (index \union gone) : index' = index \union {r}
  /\ UNCHANGED <<gone, catalog, file, fileEdits, inboxes, s, p>>

Expunge ==
  /\ Writes
  /\ \E r \in index :
       /\ index' = index \ {r} /\ gone' = gone \union {r} /\ catalog' = catalog \ {r}
       /\ s' = [s EXCEPT !.stable = @ \ {r}, !.whole = @ \ {r}]
  /\ UNCHANGED <<file, fileEdits, inboxes, p>>

\* The attachments table catches up with a downloaded message.
Catalogue ==
  /\ Writes
  /\ \E r \in index \ catalog : Message[r].parts /\ catalog' = catalog \union {r}
  /\ UNCHANGED <<index, gone, file, fileEdits, inboxes, s, p>>

\* A source file changes without a write to the index.
ChangeFile ==
  /\ Running /\ s.kind = "search" /\ s.query # "all" /\ fileEdits < MaxFileEdits
  /\ \E r \in index, f \in {"whole", "partial", "missing"} :
       /\ (file[r] = "whole") # (f = "whole")        \* evicted or downloaded
       /\ file' = [file EXCEPT ![r] = f]
       /\ s' = [s EXCEPT !.whole = @ \ {r}]
  /\ fileEdits' = fileEdits + 1
  /\ UNCHANGED <<index, gone, catalog, generation, inboxes, p>>

\* An account is enabled, disabled or replaced in Mail.
ChangeAccounts ==
  /\ Writes /\ s.kind = "unified"
  /\ inboxes' \in {B \in SUBSET Box : B # {} /\ B # inboxes}
  /\ UNCHANGED <<index, gone, catalog, file, fileEdits, s, p>>

\* A caller puts the cursor into another request.
ChangeRequest ==
  /\ s.pc = "begin" /\ s.cursor # None /\ CursorFits
  /\ \/ s.kind = "search" /\ \E q \in Queries \ {s.query} : s' = [s EXCEPT !.query = q]
     \/ s.kind = "list" /\ \E b \in Box \ {s.box} : s' = [s EXCEPT !.box = b]
  /\ UNCHANGED <<world, p>>

Mail == Deliver \/ Expunge \/ Catalogue \/ ChangeFile \/ ChangeAccounts

Read ==
  \/ BeginSearch \/ QueryMetadata \/ CountCandidates \/ LoadChunk \/ ClassifyByCatalog
  \/ CandidateStale \/ SourceMissing \/ BudgetReached \/ ScanSource \/ ScanEnds \/ Look
  \/ DeliverSearch \/ AdviseBudget \/ IndexChanged
  \/ ListPage \/ RefuseCursor
  \/ SeedGone \/ SeedOlder \/ SeedNewer \/ WalkPage \/ WalkOpposite \/ WalkEnds

Next == Mail \/ ChangeRequest \/ Read

\* A reader asks for the next page as long as there is one; nothing in a
\* page waits for Mail.
Spec == Init /\ [][Next]_vars /\ WF_vars(Read)

----------------------------------------------------------------------------
(* Properties.                                                             *)

\* Types, and the limits of a page: however candidates are loaded in chunks
\* and scanned in batches, a page never holds more messages than asked for,
\* considers more candidates than --max-messages, or reads more bytes than
\* --max-scan-bytes.
ReadingInv ==
  /\ Len(p.hits) <= s.limit /\ p.loaded <= MaxMessages /\ p.progress <= p.loaded
  /\ p.reserved <= s.budget
  /\ index \subseteq Row /\ gone \subseteq Row /\ index \intersect gone = {}
  /\ catalog \subseteq index /\ file \in [Row -> Source]
  /\ generation \in 1 .. MaxEdits[s.kind] + 1 /\ inboxes \subseteq Box
  /\ s.kind \in Kinds /\ s.stable \subseteq index /\ s.whole \subseteq s.stable
  /\ s.pc \in {"begin", "query", "count", "scan", "look", "deliver", "newer", "walk",
               "opposite", "end", "refused"}

\* The pages of one session never show a message twice and come in the
\* order of the query, whatever Mail does between two of them: a page is
\* bounded by the last row of the one before, not by a position.
InOrder ==
  \A i, j \in 1 .. Len(s.seen) :
    i < j => IF s.kind = "thread" THEN Before(s.seen[j], s.seen[i])
                                  ELSE Before(s.seen[i], s.seen[j])

Asked(r) ==
  CASE s.kind = "search"  -> Matches(s.query, r) /\ (s.query = "all" \/ r \in s.whole)
    [] s.kind = "list"    -> s.box \in Message[r].boxes
    [] s.kind = "unified" -> Message[r].boxes \intersect inboxes # {}
    [] s.kind = "thread"  -> Message[r].thread

\* A reader that followed the cursors to the end has seen every message
\* that was asked for and stayed where it was all the time: neither a page
\* boundary, a byte budget, a chunk, a message limit nor a concurrent
\* arrival or removal makes it fall between two pages.
NothingMissed ==
  s.pc = "end" => \A r \in s.stable : Asked(r) => r \in Range(s.seen)

\* What a search says of itself is true.  Nothing is reported that does not
\* match; an exact candidate count is the number of candidates of that
\* page; a complete page has no successor and holds every match; and when
\* no source was missing or cut, the pages together are exactly the answer.
\* In a conversation, a page reached by a cursor announces the members on
\* the side the reader came from.
CoverageTrue ==
  /\ s.kind = "search" /\ s.pc # "refused" /\ CursorFits =>
       \A i \in 1 .. Len(s.seen) : Matches(s.query, s.seen[i])
  /\ s.report.exact => s.report.total = Cardinality(s.report.truth)
  /\ s.report.complete /\ CursorFits =>
       ~s.report.more /\ s.report.hits = {r \in s.report.truth : Matches(s.query, r)}
  /\ s.kind = "search" /\ s.pc = "end" /\ s.sound =>
       Range(s.seen) = {r \in s.base : Matches(s.query, r)}
  /\ s.kind = "thread" /\ s.pc = "walk" /\ s.seed \in index /\ p.hits # <<>> => s.back

\* Following the cursors, and the byte budget the error asks for, reaches
\* the end or a refusal: no page hands out the cursor it was given.
PagesEnd == <>(s.pc \in {"end", "refused"})

\* The pages of a reader, put together, are the list it asked for: in order,
\* without repetition or gap, each within its limits (ListMessages, Search).
PagesSound == ReadingInv /\ InOrder /\ NothingMissed
=============================================================================
