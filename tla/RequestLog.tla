----------------------------- MODULE RequestLog -----------------------------
(***************************************************************************)
(* RequestHandler::url_info, the record of all requests, which every       *)
(* thread of the pool appends to in get_response and the status page       *)
(* copies and counts, without a lock.  The vector is libstdc++'s, three    *)
(* pointers to a block of storage.  emplace_back compares finish with      *)
(* end_of_storage; if there is room it constructs the element at finish    *)
(* and advances finish; if not, it moves everything to a block of twice    *)
(* the size, frees the old one, and then stores the three pointers one     *)
(* after the other.  Copying reads the size, allocates, and reads the      *)
(* pointers again.  Threads that meet in the middle of this get a mixture  *)
(* of old and new; once that does harm which cannot be told (memory is     *)
(* "broken") the model stops, and nothing is claimed of what follows.      *)
(***************************************************************************)
EXTENDS Naturals, Sequences, FiniteSets

CONSTANTS
  Workers,
  Requests,      \* each is made once
  Status,        \* the requests for the status page
  Garbage        \* what storage holds where nothing was constructed

ASSUME RequestLogAssumption ==
  /\ Status \subseteq Requests
  /\ Garbage \notin Requests
  /\ IsFiniteSet(Requests)

VARIABLES
  pc,            \* where each worker is
  request,       \* the request it handles
  at,            \* the size and
  mine,          \*   the block it saw when it began to use url_info
  slots, finish, \* the newest block of storage, and the size of url_info
  block,         \* counts the blocks: another number is another address
  memory,        \* "ok", or "broken" once the program's behaviour is undefined
  seen,          \* the requests that have arrived
  returned,      \* the requests get_response has returned for
  copied,        \* the status page in the making: what was copied, and what had
  past,          \*   been returned when it was asked for
  pages,         \* the status pages produced
  race           \* history: the worst data race so far

vars == <<pc, request, at, mine, slots, finish, block, memory, seen, returned, copied, past, pages, race>>

Growing   == {"growing", "storing"}
Appending == Growing \cup {"placing", "advancing"}
Accessing == Appending \cup {"copying"}

\* Between an append and another use of url_info: without growing, or with it.
Races == {"none", "room", "growth"}

Recorded == {slots[n] : n \in 1..finish}

\* Some thread has freed the old block and stores the three pointers.
Storing == \E v \in Workers : pc[v] = "storing"

\* What a thread that reads the pointers may see of the block and the size.
Views == IF Storing THEN {block - 1, block} \X {finish, finish + 1} ELSE {<<block, finish>>}

\* w begins to use url_info, as an append or to read it.
Begins(w, use) ==
  LET met == {v \in Workers \ {w} : pc[v] \in IF use \in Appending THEN Accessing ELSE Appending}
  IN  race' = IF met = {} THEN race
              ELSE IF use \in Growing \/ \E v \in met : pc[v] \in Growing THEN "growth"
              ELSE IF race = "none" THEN "room" ELSE race

Init ==
  /\ pc      = [w \in Workers |-> "idle"]
  /\ request = [w \in Workers |-> Garbage]
  /\ at      = [w \in Workers |-> 0]
  /\ mine    = [w \in Workers |-> 0]
  /\ slots = <<>> /\ finish = 0 /\ block = 0
  /\ memory = "ok"
  /\ seen = {} /\ returned = {}
  /\ copied  = [w \in Workers |-> {}]
  /\ past    = [w \in Workers |-> {}]
  /\ pages = {}
  /\ race = "none"

-----------------------------------------------------------------------------

Arrives(w, r) ==
  /\ pc[w] = "idle"
  /\ r \notin seen
  /\ seen' = seen \cup {r}
  /\ request' = [request EXCEPT ![w] = r]

\* Mutant: the response is returned without a record.
HandleUnrecorded(w, r) ==
  /\ memory = "ok"
  /\ r \notin Status
  /\ Arrives(w, r)
  /\ returned' = returned \cup {r}
  /\ UNCHANGED <<pc, at, mine, slots, finish, block, memory, copied, past, pages, race>>

\* handle_request of any other handler.
HandleRequest(w, r) ==
  /\ memory = "ok"
  /\ r \notin Status
  /\ Arrives(w, r)
  /\ pc' = [pc EXCEPT ![w] = "recording"]
  /\ UNCHANGED <<at, mine, slots, finish, block, memory, returned, copied, past, pages, race>>

\* StatusHandler::handle_request copies url_info.  First comes room for as many
\* elements as there are; a size torn between two blocks may be too much to ask.
StatusSize(w, r) ==
  /\ memory = "ok"
  /\ r \in Status
  /\ Arrives(w, r)
  /\ \E view \in Views :
       /\ mine' = [mine EXCEPT ![w] = view[1]]
       /\ at' = [at EXCEPT ![w] = view[2]]
  /\ memory' \in IF Storing THEN {"ok", "broken"} ELSE {"ok"}
  /\ pc' = [pc EXCEPT ![w] = "copying"]
  /\ past' = [past EXCEPT ![w] = returned]
  /\ Begins(w, "copying")
  /\ UNCHANGED <<slots, finish, block, returned, copied, pages>>

\* Mutant: the page is made of an empty list.
StatusCopyNothing(w) ==
  /\ memory = "ok"
  /\ pc[w] = "copying"
  /\ copied' = [copied EXCEPT ![w] = {}]
  /\ pc' = [pc EXCEPT ![w] = "counting"]
  /\ UNCHANGED <<request, at, mine, slots, finish, block, memory, seen, returned, past, pages, race>>

\* Then the elements.  If they were moved out meanwhile, any of them are missing or
\* blank and the block they are read from is freed; if some were added, they
\* are written behind the room there is.
StatusCopy(w) ==
  /\ memory = "ok"
  /\ pc[w] = "copying"
  /\ LET moved == Storing \/ mine[w] # block
     IN  /\ \E rows \in IF moved THEN SUBSET (Recorded \cup {Garbage}) ELSE {Recorded} :
              copied' = [copied EXCEPT ![w] = rows]
         /\ memory' \in IF moved \/ finish > at[w] THEN {"ok", "broken"} ELSE {"ok"}
  /\ pc' = [pc EXCEPT ![w] = "counting"]
  /\ UNCHANGED <<request, at, mine, slots, finish, block, seen, returned, past, pages, race>>

\* Mutant: the request for the page is counted twice.
StatusCountsTwice(w) ==
  /\ memory = "ok"
  /\ pc[w] = "counting"
  /\ pages' = pages \cup {[rows |-> copied[w], past |-> past[w], total |-> finish + 2]}
  /\ pc' = [pc EXCEPT ![w] = "recording"]
  /\ race' = IF \E v \in Workers : pc[v] \in Growing THEN "growth" ELSE race
  /\ UNCHANGED <<request, at, mine, slots, finish, block, memory, seen, returned, copied, past>>

\* Bound: what finish - start of two different blocks may be taken for.
Totals == 0..(Cardinality(Requests) + 2)

\* The total of the page is the size of the live vector, plus this request.  The
\* size is the difference of two pointers, which may be of different blocks.
StatusCount(w) ==
  /\ memory = "ok"
  /\ pc[w] = "counting"
  /\ \E total \in IF Storing THEN Totals ELSE {finish + 1} :
       pages' = pages \cup {[rows |-> copied[w], past |-> past[w], total |-> total]}
  /\ pc' = [pc EXCEPT ![w] = "recording"]
  /\ race' = IF \E v \in Workers : pc[v] \in Growing THEN "growth" ELSE race
  /\ UNCHANGED <<request, at, mine, slots, finish, block, memory, seen, returned, copied, past>>

-----------------------------------------------------------------------------
(* url_info.emplace_back                                                   *)

\* finish is compared with end_of_storage.
EmplaceBack(w) ==
  /\ memory = "ok"
  /\ pc[w] = "recording"
  /\ \E view \in Views :
       /\ mine' = [mine EXCEPT ![w] = view[1]]
       /\ at' = [at EXCEPT ![w] = view[2]]
  /\ \E next \in IF Storing THEN {"placing", "growing"}
                  ELSE IF finish < Len(slots) THEN {"placing"} ELSE {"growing"} :
       /\ pc' = [pc EXCEPT ![w] = next]
       /\ Begins(w, next)
  /\ UNCHANGED <<request, slots, finish, block, memory, seen, returned, copied, past, pages>>

\* The element is constructed at finish.  In a freed block, or behind the end of
\* this one, that is lost or does harm.
Place(w) ==
  /\ memory = "ok"
  /\ pc[w] = "placing"
  /\ \/ /\ mine[w] = block /\ at[w] < Len(slots)
        /\ slots' = [slots EXCEPT ![at[w] + 1] = request[w]]
        /\ UNCHANGED memory
     \/ /\ mine[w] # block \/ at[w] >= Len(slots)
        /\ memory' \in {"ok", "broken"}
        /\ UNCHANGED slots
  /\ pc' = [pc EXCEPT ![w] = "advancing"]
  /\ UNCHANGED <<request, at, mine, finish, block, seen, returned, copied, past, pages, race>>

\* get_response returns.
Return(w) ==
  /\ pc' = [pc EXCEPT ![w] = "idle"]
  /\ returned' = returned \cup {request[w]}

\* ++finish, of the value read before or of the one there is now.  A stale value
\* points into a freed block, and beyond the end of the storage there is nothing.
Advance(w) ==
  /\ memory = "ok"
  /\ pc[w] = "advancing"
  /\ \/ /\ mine[w] = block /\ at[w] < Len(slots)
        /\ finish' = at[w] + 1
        /\ UNCHANGED memory
     \/ /\ finish < Len(slots)
        /\ finish' = finish + 1
        /\ UNCHANGED memory
     \/ /\ mine[w] # block \/ at[w] >= Len(slots) \/ finish = Len(slots)
        /\ memory' = "broken"
        /\ UNCHANGED finish
  /\ Return(w)
  /\ UNCHANGED <<request, at, mine, slots, block, seen, copied, past, pages, race>>

\* Mutant: the new block is as large as the old one.
CapacityNotGrown == Len(slots)

\* The capacity doubles.
Capacity == IF slots = <<>> THEN 1 ELSE 2 * Len(slots)

\* _M_realloc_insert, up to the deallocation of the old block: the new block has
\* the new element, and the old ones moved to it.  A block that another thread
\* has moved out of is freed twice.
Relocate(w) ==
  /\ memory = "ok"
  /\ pc[w] = "growing"
  /\ \/ /\ mine[w] = block /\ at[w] <= Len(slots)
        /\ slots' = [n \in 1..Capacity |-> IF n <= at[w] THEN slots[n]
                                           ELSE IF n = at[w] + 1 THEN request[w] ELSE Garbage]
        /\ block' = block + 1
        /\ mine' = [mine EXCEPT ![w] = block + 1]
        /\ UNCHANGED memory
     \/ /\ mine[w] # block \/ at[w] > Len(slots)
        /\ memory' = "broken"
        /\ UNCHANGED <<slots, block, mine>>
  /\ pc' = [pc EXCEPT ![w] = "storing"]
  /\ UNCHANGED <<request, at, finish, seen, returned, copied, past, pages, race>>

\* The last of the three pointers is stored; they are of a freed block if another
\* thread has moved everything once more.
Store(w) ==
  /\ memory = "ok"
  /\ pc[w] = "storing"
  /\ \/ /\ mine[w] = block
        /\ finish' = at[w] + 1
        /\ UNCHANGED memory
     \/ /\ mine[w] # block
        /\ memory' = "broken"
        /\ UNCHANGED finish
  /\ Return(w)
  /\ UNCHANGED <<request, at, mine, slots, block, seen, copied, past, pages, race>>

\* All requests are answered, or nothing can be said any more.
Done ==
  /\ memory = "broken" \/ returned = Requests
  /\ UNCHANGED vars

Next ==
  \/ \E w \in Workers :
       \/ \E r \in Requests : HandleRequest(w, r) \/ StatusSize(w, r)
       \/ StatusCopy(w) \/ StatusCount(w)
       \/ EmplaceBack(w)
       \/ Place(w) \/ Advance(w)
       \/ Relocate(w) \/ Store(w)
  \/ Done

Spec == Init /\ [][Next]_vars

-----------------------------------------------------------------------------
(* Properties                                                              *)

TypeOK ==
  /\ pc \in [Workers -> {"idle", "counting", "recording"} \cup Accessing]
  /\ request \in [Workers -> Requests \cup {Garbage}]
  /\ at \in [Workers -> Nat] /\ mine \in [Workers -> Nat]
  /\ slots \in Seq(Requests \cup {Garbage}) /\ finish \in 0..Len(slots) /\ block \in Nat
  /\ memory \in {"ok", "broken"}
  /\ seen \subseteq Requests /\ returned \subseteq seen
  /\ copied \in [Workers -> SUBSET (Requests \cup {Garbage})]
  /\ past \in [Workers -> SUBSET Requests]
  /\ pages \subseteq [rows : SUBSET (Requests \cup {Garbage}), past : SUBSET Requests, total : Nat]
  /\ race \in Races

\* As long as no append has met another use of url_info, the vector holds every
\* request get_response has returned for, once, whatever growing moved around,
\* and nothing is undefined: the missing lock is all that is wrong with the log
\* (handler.cc:72).
ExactUntilRace ==
  race = "none" => memory = "ok" /\ Recorded = returned /\ finish = Cardinality(returned)

\* A status page then lists everything answered before it was asked for, nothing
\* that was not answered, and never fewer in total than it lists, although the
\* rows are from a copy and the total is of the live vector, to which other
\* threads have appended since (statusHandler.cc:20, 47).
StatusIsConsistent ==
  race = "none" =>
    \A page \in pages :
      /\ page.past \subseteq page.rows
      /\ page.rows \subseteq returned
      /\ Cardinality(page.rows) < page.total

\* Threads that meet where there is room only lose requests: the log never counts
\* one that has not been answered, nor a page more than were made.  (Meeting a
\* thread that grows the storage, a page may show any number.)
NeverOvercounts ==
  race # "growth" =>
    /\ finish <= Cardinality(returned)
    /\ \A page \in pages : page.total <= Cardinality(seen)

\* get_response "records url to response code pair" (include/handler.h:30), at
\* least where there is room for it.
RecordsEveryResponse == memory = "ok" /\ race # "growth" => returned \subseteq Recorded
=============================================================================
