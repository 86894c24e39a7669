--------------------------- MODULE RequestLogProofs ---------------------------
(***************************************************************************)
(* Proofs about the log of requests, for any number of threads and of      *)
(* requests: it is exact, and status pages are consistent, until an append *)
(* meets another use of the vector, and threads that only meet where there *)
(* is room never make it count too much.                                   *)
(***************************************************************************)
EXTENDS RequestLog, SequenceTheorems, FiniteSetTheorems, TLAPS

\* A request that is being handled has arrived, is not answered, and has one
\* worker.
InFlight ==
  /\ \A w \in Workers : pc[w] # "idle" => request[w] \in seen /\ request[w] \notin returned
  /\ \A v, w \in Workers : v # w /\ pc[v] # "idle" /\ pc[w] # "idle" => request[v] # request[w]

\* Threads know old blocks or the newest; who has relocated to the newest has
\* room in it.  That holds after any race.
Blocks ==
  /\ \A w \in Workers : mine[w] <= block
  /\ memory = "ok" => \A w \in Workers : pc[w] = "storing" =>
       block > 0 /\ (mine[w] = block => at[w] < Len(slots))

\* Until a race with growth, a thread that grows the storage is alone, and others
\* that append know a size of the block there is.
Roomy ==
  race # "growth" => \A w \in Workers :
    /\ pc[w] \in Growing =>
         /\ at[w] = finish /\ mine[w] = block
         /\ \A v \in Workers : pc[v] \in Accessing => v = w
    /\ pc[w] = "storing" => finish < Len(slots)
    /\ pc[w] \in {"placing", "advancing"} =>
         mine[w] = block /\ at[w] < Len(slots) /\ at[w] <= Cardinality(returned)

\* Until any race, a thread that appends is alone and knows the size, and so does
\* a thread that copies.
Alone ==
  race = "none" => \A w \in Workers :
    /\ pc[w] \in Appending =>
         /\ at[w] = finish /\ mine[w] = block
         /\ pc[w] \in {"advancing", "storing"} => slots[finish + 1] = request[w]
         /\ \A v \in Workers : pc[v] \in Accessing => v = w
    /\ pc[w] = "copying" => at[w] = finish /\ mine[w] = block /\ past[w] \subseteq returned

\* A copy taken for a status page is of a log that was exact.
Copied ==
  race = "none" => \A w \in Workers : pc[w] = "counting" =>
    past[w] \subseteq copied[w] /\ copied[w] \subseteq returned /\ Cardinality(copied[w]) <= finish

LogInv ==
  /\ TypeOK
  /\ InFlight
  /\ Blocks
  /\ Roomy
  /\ NeverOvercounts
  /\ Alone
  /\ ExactUntilRace
  /\ Copied
  /\ StatusIsConsistent

\* Only finitely many requests are made.
LEMMA Finite ==
  ASSUME TypeOK
  PROVE  /\ IsFiniteSet(seen) /\ IsFiniteSet(returned)
         /\ Cardinality(seen) \in Nat /\ Cardinality(returned) \in Nat
         /\ Cardinality(returned) <= Cardinality(seen)
<1>1. seen \in SUBSET Requests /\ returned \in SUBSET seen /\ IsFiniteSet(Requests)
  BY RequestLogAssumption DEF TypeOK
<1>2. IsFiniteSet(seen) /\ IsFiniteSet(returned) /\ Cardinality(returned) <= Cardinality(seen)
  BY <1>1, FS_Subset
<1>3. QED
  BY <1>2, FS_CardinalityType

\* The log starts empty.
LEMMA LogInit == Init => LogInv
<1> SUFFICES ASSUME Init PROVE LogInv
  OBVIOUS
<1>1. TypeOK
  <2>1. /\ slots \in Seq(Requests \cup {Garbage}) /\ finish \in 0..Len(slots)
    BY EmptySeq DEF Init
  <2>2. /\ copied \in [Workers -> SUBSET (Requests \cup {Garbage})]
        /\ past \in [Workers -> SUBSET Requests]
    BY DEF Init
  <2>3. QED
    BY <2>1, <2>2 DEF Init, TypeOK, Races
<1>2. Cardinality({}) = 0
  BY FS_EmptySet
<1>3. Recorded = {}
  BY DEF Init, Recorded
<1>4. InFlight /\ Blocks /\ Roomy /\ Alone /\ Copied
  BY DEF Init, InFlight, Blocks, Roomy, Alone, Copied, Appending, Growing
<1>5. NeverOvercounts /\ ExactUntilRace /\ StatusIsConsistent
  BY <1>2, <1>3 DEF Init, NeverOvercounts, ExactUntilRace, StatusIsConsistent
<1>6. QED
  BY <1>1, <1>4, <1>5 DEF LogInv

\* One more request has arrived.
LEMMA ArriveStep ==
  ASSUME LogInv, NEW w \in Workers, NEW r \in Requests, Arrives(w, r), UNCHANGED returned,
         NEW next \in {"recording", "copying"}, pc' = [pc EXCEPT ![w] = next]
  PROVE  /\ seen' \subseteq Requests /\ returned' \subseteq seen'
         /\ request' \in [Workers -> Requests \cup {Garbage}]
         /\ Cardinality(seen) \in Nat /\ Cardinality(seen') \in Nat
         /\ Cardinality(seen) <= Cardinality(seen')
         /\ \A v \in Workers : v # w => request'[v] = request[v] /\ pc'[v] = pc[v]
         /\ pc[w] = "idle"
         /\ InFlight'
<1> USE DEF Arrives
<1>1. seen' \in SUBSET Requests /\ returned' \subseteq seen' /\ seen \in SUBSET seen'
  BY DEF LogInv, TypeOK
<1>2. IsFiniteSet(seen')
  BY <1>1, RequestLogAssumption, FS_Subset
<1>3. Cardinality(seen) <= Cardinality(seen') /\ Cardinality(seen') \in Nat /\ Cardinality(seen) \in Nat
  BY <1>1, <1>2, FS_Subset, FS_CardinalityType
<1>4. request' \in [Workers -> Requests \cup {Garbage}]
  BY DEF LogInv, TypeOK
<1>5. InFlight'
  BY DEF LogInv, InFlight, TypeOK
<1>6. QED
  BY <1>1, <1>3, <1>4, <1>5 DEF LogInv, TypeOK

\* A request arrives and nothing is recorded yet.
LEMMA HandleStep ==
  ASSUME LogInv, NEW w \in Workers, NEW r \in Requests, HandleRequest(w, r)
  PROVE  LogInv'
<1> USE DEF HandleRequest
<1>1. /\ seen' \subseteq Requests /\ returned' \subseteq seen'
      /\ request' \in [Workers -> Requests \cup {Garbage}]
      /\ Cardinality(seen) \in Nat /\ Cardinality(seen') \in Nat
      /\ Cardinality(seen) <= Cardinality(seen')
      /\ \A v \in Workers : v # w => request'[v] = request[v] /\ pc'[v] = pc[v]
      /\ InFlight'
  BY ArriveStep
<1>2. pc' \in [Workers -> {"idle", "counting", "recording"} \cup Accessing] /\ pc'[w] = "recording"
  BY DEF LogInv, TypeOK
<1>3. TypeOK'
  BY <1>1, <1>2 DEF LogInv, TypeOK
<1>4. Recorded' = Recorded
  BY DEF Recorded
<1>5. Blocks' /\ Roomy' /\ Alone' /\ Copied'
  BY <1>1, <1>2 DEF LogInv, Blocks, Roomy, Alone, Copied, Accessing, Appending, Growing
<1>6. NeverOvercounts'
  BY <1>1 DEF LogInv, NeverOvercounts, TypeOK
<1>7. ExactUntilRace' /\ StatusIsConsistent'
  BY <1>4 DEF LogInv, ExactUntilRace, StatusIsConsistent
<1>8. QED
  BY <1>1, <1>3, <1>5, <1>6, <1>7 DEF LogInv

\* What a thread that begins to use the vector leaves of the history: a race is
\* never forgotten, and without one nobody was in its way.
LEMMA BeginsLemma ==
  ASSUME LogInv, NEW w \in Workers, NEW use \in Accessing, Begins(w, use)
  PROVE  /\ race' \in Races
         /\ race' = "none" => race = "none"
         /\ race' # "growth" => race # "growth"
         /\ race' = "none" => \A v \in Workers \ {w} :
              pc[v] \notin Appending /\ (use \in Appending => pc[v] \notin Accessing)
         /\ race' # "growth" => \A v \in Workers \ {w} :
              pc[v] \notin Growing /\ (use \in Growing => pc[v] \notin Accessing)
<1> DEFINE met == {v \in Workers \ {w} : pc[v] \in IF use \in Appending THEN Accessing ELSE Appending}
<1>1. race \in Races
  BY DEF LogInv, TypeOK
<1>2. race' = IF met = {} THEN race
              ELSE IF use \in Growing \/ \E v \in met : pc[v] \in Growing THEN "growth"
              ELSE IF race = "none" THEN "room" ELSE race
  BY DEF Begins
<1>3. \A v \in Workers \ {w} : v \in met <=> pc[v] \in IF use \in Appending THEN Accessing ELSE Appending
  OBVIOUS
<1>4. Growing \subseteq Appending /\ Appending \subseteq Accessing
  BY DEF Accessing, Appending
<1> HIDE DEF met
<1>5. CASE met = {}
  BY <1>1, <1>2, <1>3, <1>4, <1>5
<1>6. CASE met # {}
  <2>1. race' # "none"
    BY <1>1, <1>2, <1>6 DEF Races
  <2>2. race' \in Races
    BY <1>1, <1>2, <1>6 DEF Races
  <2>3. race' # "growth" => use \notin Growing /\ (\A v \in met : pc[v] \notin Growing) /\ race # "growth"
    BY <1>2, <1>6
  <2>4. QED
    BY <1>3, <1>4, <2>1, <2>2, <2>3
<1>7. QED
  BY <1>5, <1>6

\* A thread reads a size and a block, whatever it meets.
LEMMA ViewsLemma ==
  ASSUME LogInv, memory = "ok", NEW view \in Views
  PROVE  /\ view[1] \in Nat /\ view[2] \in Nat /\ view[1] <= block
         /\ ~Storing => view[1] = block /\ view[2] = finish
<1>1. finish \in Nat /\ block \in Nat
  BY DEF LogInv, TypeOK
<1>2. CASE Storing
  <2>1. block > 0
    BY <1>2 DEF LogInv, Blocks, Storing
  <2>2. view \in {block - 1, block} \X {finish, finish + 1}
    BY <1>2 DEF Views
  <2>3. QED
    BY <1>1, <1>2, <2>1, <2>2
<1>3. CASE ~Storing
  <2>1. view = <<block, finish>>
    BY <1>3 DEF Views
  <2>2. QED
    BY <1>1, <2>1
<1>4. QED
  BY <1>2, <1>3

\* A request for the status page arrives, and the size of the log is read.
LEMMA SizeStep ==
  ASSUME LogInv, NEW w \in Workers, NEW r \in Requests, StatusSize(w, r)
  PROVE  LogInv'
<1> USE DEF StatusSize
<1>1. /\ seen' \subseteq Requests /\ returned' \subseteq seen'
      /\ request' \in [Workers -> Requests \cup {Garbage}]
      /\ Cardinality(seen) \in Nat /\ Cardinality(seen') \in Nat
      /\ Cardinality(seen) <= Cardinality(seen')
      /\ \A v \in Workers : v # w => request'[v] = request[v] /\ pc'[v] = pc[v]
      /\ InFlight'
  BY ArriveStep
<1>2. PICK view \in Views : mine' = [mine EXCEPT ![w] = view[1]] /\ at' = [at EXCEPT ![w] = view[2]]
  OBVIOUS
<1>3. /\ view[1] \in Nat /\ view[2] \in Nat /\ view[1] <= block
      /\ ~Storing => view[1] = block /\ view[2] = finish
  BY ViewsLemma
<1>4. /\ mine' \in [Workers -> Nat] /\ at' \in [Workers -> Nat] /\ mine'[w] = view[1] /\ at'[w] = view[2]
      /\ \A v \in Workers : v # w => mine'[v] = mine[v] /\ at'[v] = at[v] /\ past'[v] = past[v]
      /\ past'[w] = returned /\ past' \in [Workers -> SUBSET Requests]
  BY <1>2, <1>3 DEF LogInv, TypeOK
<1>5. pc' \in [Workers -> {"idle", "counting", "recording"} \cup Accessing] /\ pc'[w] = "copying"
  BY DEF LogInv, TypeOK, Accessing
<1>6. /\ race' \in Races
      /\ race' = "none" => race = "none"
      /\ race' # "growth" => race # "growth"
      /\ race' = "none" => \A v \in Workers \ {w} : pc[v] \notin Appending
      /\ race' # "growth" => \A v \in Workers \ {w} : pc[v] \notin Growing
  BY BeginsLemma DEF Accessing
<1>7. TypeOK'
  BY <1>1, <1>4, <1>5, <1>6 DEF LogInv, TypeOK
<1>8. Recorded' = Recorded
  BY DEF Recorded
<1>9. race' # "growth" => ~Storing
  BY <1>6 DEF Storing, Growing, Arrives
<1>10. Blocks'
  BY <1>1, <1>3, <1>4, <1>5 DEF LogInv, Blocks
<1>11. Roomy'
  BY <1>1, <1>4, <1>5, <1>6 DEF LogInv, Roomy, Accessing, Appending, Growing
<1>12. Alone'
  <2>1. race' = "none" => \A v \in Workers : pc'[v] \notin Appending
    BY <1>1, <1>5, <1>6 DEF Appending, Growing
  <2>2. race' = "none" => view[1] = block /\ view[2] = finish
    BY <1>3, <1>6, <1>9
  <2>3. race' = "none" => \A v \in Workers : pc'[v] = "copying" =>
          at'[v] = finish /\ mine'[v] = block /\ past'[v] \subseteq returned
    BY <1>1, <1>4, <1>6, <2>2 DEF LogInv, Alone
  <2>4. QED
    BY <2>1, <2>3 DEF Alone
<1>13. Copied'
  BY <1>1, <1>4, <1>5, <1>6 DEF LogInv, Copied
<1>14. NeverOvercounts'
  BY <1>1, <1>6 DEF LogInv, NeverOvercounts, TypeOK
<1>15. ExactUntilRace'
  BY <1>6, <1>8, <1>9 DEF LogInv, ExactUntilRace
<1>16. StatusIsConsistent'
  BY <1>6 DEF LogInv, StatusIsConsistent
<1>17. QED
  BY <1>1, <1>7, <1>10, <1>11, <1>12, <1>13, <1>14, <1>15, <1>16 DEF LogInv

\* The elements are copied.
LEMMA CopyStep ==
  ASSUME LogInv, NEW w \in Workers, StatusCopy(w)
  PROVE  LogInv'
<1> USE DEF StatusCopy
<1>1. Recorded \in SUBSET (Requests \cup {Garbage}) /\ Recorded' = Recorded
  BY ElementOfSeq DEF LogInv, TypeOK, Recorded
<1>2. PICK rows \in IF Storing \/ mine[w] # block THEN SUBSET (Recorded \cup {Garbage}) ELSE {Recorded} :
        copied' = [copied EXCEPT ![w] = rows]
  OBVIOUS
<1>3. rows \in SUBSET (Requests \cup {Garbage})
  BY <1>1, <1>2
<1>4. /\ pc' \in [Workers -> {"idle", "counting", "recording"} \cup Accessing] /\ pc'[w] = "counting"
      /\ \A v \in Workers : v # w => pc'[v] = pc[v] /\ copied'[v] = copied[v]
      /\ copied' \in [Workers -> SUBSET (Requests \cup {Garbage})] /\ copied'[w] = rows
  BY <1>2, <1>3 DEF LogInv, TypeOK
<1>5. TypeOK'
  BY <1>4 DEF LogInv, TypeOK
<1>6. InFlight' /\ Blocks' /\ Roomy' /\ Alone'
  BY <1>4 DEF LogInv, InFlight, Blocks, Roomy, Alone, Accessing, Appending, Growing
<1>7. race = "none" => rows = Recorded /\ memory' = "ok" /\ past[w] \subseteq returned
  <2> SUFFICES ASSUME race = "none" PROVE rows = Recorded /\ memory' = "ok" /\ past[w] \subseteq returned
    OBVIOUS
  <2>1. at[w] = finish /\ mine[w] = block /\ past[w] \subseteq returned
    BY DEF LogInv, Alone
  <2>2. ~Storing
    BY DEF LogInv, Alone, Storing, Accessing, Appending, Growing
  <2>3. ~(finish > at[w])
    BY <2>1 DEF LogInv, TypeOK
  <2>4. QED
    BY <1>2, <2>1, <2>2, <2>3
<1>8. ExactUntilRace'
  BY <1>1, <1>7 DEF LogInv, ExactUntilRace
<1>9. Copied'
  <2>1. race = "none" => past[w] \subseteq rows /\ rows \subseteq returned /\ Cardinality(rows) <= finish
    BY <1>7 DEF LogInv, ExactUntilRace, TypeOK
  <2>2. QED
    BY <1>4, <2>1 DEF LogInv, Copied
<1>10. NeverOvercounts' /\ StatusIsConsistent'
  BY DEF LogInv, NeverOvercounts, StatusIsConsistent
<1>11. QED
  BY <1>5, <1>6, <1>8, <1>9, <1>10 DEF LogInv

\* The page is made: its total is the size of the log, plus the request for it.
LEMMA CountStep ==
  ASSUME LogInv, NEW w \in Workers, StatusCount(w)
  PROVE  LogInv'
<1> USE DEF StatusCount
<1>1. PICK total \in IF Storing THEN Totals ELSE {finish + 1} :
        pages' = pages \cup {[rows |-> copied[w], past |-> past[w], total |-> total]}
  OBVIOUS
<1> DEFINE new == [rows |-> copied[w], past |-> past[w], total |-> total]
<1>2. finish \in Nat /\ total \in Nat
  BY <1>1 DEF LogInv, TypeOK, Totals
<1>3. /\ race' \in Races
      /\ race' = "none" => race = "none"
      /\ race' # "growth" => race # "growth" /\ ~Storing
      /\ race' = "none" => race' # "growth"
  BY DEF LogInv, TypeOK, Races, Storing, Growing
<1>4. /\ pc' \in [Workers -> {"idle", "counting", "recording"} \cup Accessing] /\ pc'[w] = "recording"
      /\ \A v \in Workers : v # w => pc'[v] = pc[v]
  BY DEF LogInv, TypeOK
<1>5. pages' \subseteq [rows : SUBSET (Requests \cup {Garbage}), past : SUBSET Requests, total : Nat]
  BY <1>1, <1>2 DEF LogInv, TypeOK
<1>6. TypeOK'
  BY <1>3, <1>4, <1>5 DEF LogInv, TypeOK
<1>7. Recorded' = Recorded
  BY DEF Recorded
<1>8. InFlight' /\ Blocks' /\ Roomy' /\ Alone' /\ Copied'
  BY <1>3, <1>4 DEF LogInv, InFlight, Blocks, Roomy, Alone, Copied, Accessing, Appending, Growing
<1>9. race' # "growth" => total = finish + 1 /\ finish + 1 <= Cardinality(seen)
  <2> SUFFICES ASSUME race' # "growth" PROVE total = finish + 1 /\ finish + 1 <= Cardinality(seen)
    OBVIOUS
  <2>1. request[w] \in seen /\ request[w] \notin returned /\ returned \subseteq seen
    BY DEF LogInv, InFlight, TypeOK
  <2>2. Cardinality(returned) # Cardinality(seen)
    BY <2>1, Finite, FS_Subset DEF LogInv
  <2>3. finish <= Cardinality(returned)
    BY <1>3 DEF LogInv, NeverOvercounts
  <2>4. QED
    BY <1>1, <1>2, <1>3, <2>2, <2>3, Finite DEF LogInv
<1>10. NeverOvercounts'
  <2>1. race' # "growth" => \A page \in pages' : page.total <= Cardinality(seen)
    BY <1>1, <1>3, <1>9 DEF LogInv, NeverOvercounts
  <2>2. QED
    BY <1>3, <2>1 DEF LogInv, NeverOvercounts
<1>11. ExactUntilRace'
  BY <1>3, <1>7 DEF LogInv, ExactUntilRace
<1>12. StatusIsConsistent'
  <2>1. race' = "none" => new.past \subseteq new.rows /\ new.rows \subseteq returned /\ Cardinality(new.rows) <= finish
    BY <1>3 DEF LogInv, Copied
  <2>2. race' = "none" => Cardinality(new.rows) \in Nat
    BY <2>1, Finite, FS_Subset, FS_CardinalityType DEF LogInv
  <2>3. race' = "none" => new.total = finish + 1
    BY <1>3, <1>9
  <2>4. QED
    BY <1>1, <1>2, <1>3, <2>1, <2>2, <2>3 DEF LogInv, StatusIsConsistent
<1>13. QED
  BY <1>6, <1>8, <1>10, <1>11, <1>12 DEF LogInv

\* A thread enters emplace_back and compares the size with the end of the storage.
LEMMA EnterStep ==
  ASSUME LogInv, NEW w \in Workers, EmplaceBack(w)
  PROVE  LogInv'
<1> USE DEF EmplaceBack
<1>1. PICK view \in Views : mine' = [mine EXCEPT ![w] = view[1]] /\ at' = [at EXCEPT ![w] = view[2]]
  OBVIOUS
<1>2. PICK next \in IF Storing THEN {"placing", "growing"}
                     ELSE IF finish < Len(slots) THEN {"placing"} ELSE {"growing"} :
        pc' = [pc EXCEPT ![w] = next] /\ Begins(w, next)
  OBVIOUS
<1>3. next \in {"placing", "growing"} /\ next \in Appending /\ next \in Accessing
  BY <1>2 DEF Accessing, Appending, Growing
<1>4. /\ view[1] \in Nat /\ view[2] \in Nat /\ view[1] <= block
      /\ ~Storing => view[1] = block /\ view[2] = finish
  BY ViewsLemma
<1>5. /\ mine' \in [Workers -> Nat] /\ at' \in [Workers -> Nat] /\ mine'[w] = view[1] /\ at'[w] = view[2]
      /\ \A v \in Workers : v # w => mine'[v] = mine[v] /\ at'[v] = at[v] /\ pc'[v] = pc[v]
      /\ pc' \in [Workers -> {"idle", "counting", "recording"} \cup Accessing] /\ pc'[w] = next
  BY <1>1, <1>2, <1>3, <1>4 DEF LogInv, TypeOK
<1>6. /\ race' \in Races
      /\ race' = "none" => race = "none"
      /\ race' # "growth" => race # "growth"
      /\ race' = "none" => \A v \in Workers \ {w} : pc[v] \notin Accessing
      /\ race' # "growth" => \A v \in Workers \ {w} :
           pc[v] \notin Growing /\ (next \in Growing => pc[v] \notin Accessing)
  BY <1>2, <1>3, BeginsLemma
<1>7. TypeOK'
  BY <1>5, <1>6 DEF LogInv, TypeOK
<1>8. Recorded' = Recorded
  BY DEF Recorded
<1>9. InFlight'
  BY <1>3, <1>5 DEF LogInv, InFlight
<1>10. Blocks'
  BY <1>3, <1>4, <1>5 DEF LogInv, Blocks
<1>11. race' # "growth" => ~Storing
  BY <1>6 DEF Storing, Growing
<1>12. race' # "growth" => /\ mine'[w] = block /\ at'[w] = finish
                           /\ next = "placing" => at'[w] < Len(slots)
                           /\ at'[w] <= Cardinality(returned)
  BY <1>2, <1>4, <1>5, <1>6, <1>11 DEF LogInv, NeverOvercounts
<1>13. Roomy'
  <2> SUFFICES ASSUME race' # "growth", NEW v \in Workers
               PROVE  /\ pc'[v] \in Growing =>
                           /\ at'[v] = finish /\ mine'[v] = block
                           /\ \A u \in Workers : pc'[u] \in Accessing => u = v
                      /\ pc'[v] = "storing" => finish < Len(slots)
                      /\ pc'[v] \in {"placing", "advancing"} =>
                           mine'[v] = block /\ at'[v] < Len(slots) /\ at'[v] <= Cardinality(returned)
    BY DEF Roomy
  <2>1. CASE v = w
    BY <1>3, <1>5, <1>6, <1>12, <2>1 DEF Growing
  <2>2. CASE v # w
    BY <1>5, <1>6, <2>2 DEF LogInv, Roomy, Growing
  <2>3. QED
    BY <2>1, <2>2
<1>14. Alone'
  <2>1. race' = "none" => \A v \in Workers \ {w} : pc'[v] \notin Accessing /\ pc'[v] \notin Appending /\ pc'[v] # "copying"
    BY <1>5, <1>6 DEF Accessing
  <2>2. race' = "none" => at'[w] = finish /\ mine'[w] = block
    BY <1>12
  <2>3. QED
    BY <1>3, <1>5, <2>1, <2>2 DEF Alone
<1>15. Copied'
  BY <1>3, <1>5, <1>6 DEF LogInv, Copied
<1>16. NeverOvercounts' /\ ExactUntilRace' /\ StatusIsConsistent'
  BY <1>6, <1>8 DEF LogInv, NeverOvercounts, ExactUntilRace, StatusIsConsistent
<1>17. QED
  BY <1>7, <1>9, <1>10, <1>13, <1>14, <1>15, <1>16 DEF LogInv

\* The element is constructed, beyond what is recorded unless there was a race.
LEMMA PlaceStep ==
  ASSUME LogInv, NEW w \in Workers, Place(w)
  PROVE  LogInv'
<1> USE DEF Place
<1>0. /\ slots \in Seq(Requests \cup {Garbage}) /\ Len(slots) \in Nat /\ at[w] \in Nat /\ finish \in 0..Len(slots)
      /\ request[w] \in Requests \cup {Garbage}
  BY DEF LogInv, TypeOK
<1>1. /\ slots' \in Seq(Requests \cup {Garbage}) /\ Len(slots') = Len(slots)
      /\ mine[w] = block /\ at[w] < Len(slots) =>
           /\ slots'[at[w] + 1] = request[w] /\ memory' = memory
           /\ \A n \in 1..Len(slots) : n # at[w] + 1 => slots'[n] = slots[n]
  <2>1. CASE mine[w] = block /\ at[w] < Len(slots)
    <3>1. at[w] + 1 \in 1..Len(slots)
      BY <1>0, <2>1
    <3>2. slots' = [slots EXCEPT ![at[w] + 1] = request[w]] /\ memory' = memory
      BY <1>0, <2>1
    <3>3. QED
      BY <1>0, <3>1, <3>2, ExceptSeq
  <2>2. CASE ~(mine[w] = block /\ at[w] < Len(slots))
    BY <1>0, <2>2
  <2>3. QED
    BY <2>1, <2>2
<1>2. /\ pc' \in [Workers -> {"idle", "counting", "recording"} \cup Accessing] /\ pc'[w] = "advancing"
      /\ \A v \in Workers : v # w => pc'[v] = pc[v]
  BY DEF LogInv, TypeOK, Accessing, Appending
<1>3. TypeOK'
  BY <1>1, <1>2 DEF LogInv, TypeOK
<1>4. InFlight' /\ Blocks'
  BY <1>1, <1>2 DEF LogInv, InFlight, Blocks
<1>5. Roomy'
  BY <1>1, <1>2 DEF LogInv, Roomy, Accessing, Appending, Growing
<1>6. NeverOvercounts' /\ Copied' /\ StatusIsConsistent'
  BY <1>2 DEF LogInv, NeverOvercounts, Copied, StatusIsConsistent
<1>7. race = "none" => at[w] = finish /\ mine[w] = block /\ at[w] < Len(slots)
  BY DEF LogInv, Alone, Roomy, Appending
<1>8. Alone'
  <2>1. race = "none" => \A v \in Workers : pc'[v] \in Accessing => v = w
    BY <1>2 DEF LogInv, Alone, Appending
  <2>2. race = "none" => slots'[finish + 1] = request[w]
    BY <1>1, <1>7
  <2>3. \A v \in Workers : pc'[v] \in Appending \/ pc'[v] = "copying" => pc'[v] \in Accessing
    BY DEF Accessing
  <2>4. QED
    BY <1>2, <1>7, <2>1, <2>2, <2>3 DEF Alone
<1>9. race = "none" => Recorded' = Recorded
  <2>1. race = "none" => \A n \in 1..finish : slots'[n] = slots[n]
    BY <1>0, <1>1, <1>7
  <2>2. QED
    BY <2>1 DEF Recorded
<1>10. ExactUntilRace'
  BY <1>1, <1>7, <1>9 DEF LogInv, ExactUntilRace
<1>11. QED
  BY <1>3, <1>4, <1>5, <1>6, <1>8, <1>10 DEF LogInv

\* get_response returns: one more request is answered.
LEMMA ReturnStep ==
  ASSUME LogInv, NEW w \in Workers, pc[w] \in Appending, Return(w), UNCHANGED <<seen, request>>
  PROVE  /\ Cardinality(returned) \in Nat /\ Cardinality(returned') = Cardinality(returned) + 1
         /\ returned' = returned \cup {request[w]} /\ returned' \subseteq seen
         /\ pc' = [pc EXCEPT ![w] = "idle"] /\ pc'[w] = "idle"
         /\ pc' \in [Workers -> {"idle", "counting", "recording"} \cup Accessing]
         /\ \A v \in Workers : v # w => pc'[v] = pc[v]
         /\ InFlight'
<1>1. request[w] \in seen /\ request[w] \notin returned
  BY DEF LogInv, InFlight, Appending, Growing
<1>2. returned' = returned \cup {request[w]} /\ pc' = [pc EXCEPT ![w] = "idle"]
  BY DEF Return
<1>3. Cardinality(returned) \in Nat /\ Cardinality(returned') = Cardinality(returned) + 1
  BY <1>1, <1>2, Finite, FS_AddElement DEF LogInv
<1>4. /\ pc'[w] = "idle" /\ \A v \in Workers : v # w => pc'[v] = pc[v]
      /\ pc' \in [Workers -> {"idle", "counting", "recording"} \cup Accessing]
  BY <1>2 DEF LogInv, TypeOK
<1>5. InFlight'
  <2>1. pc[w] # "idle"
    BY DEF Appending, Growing
  <2>2. QED
    BY <1>1, <1>2, <1>4, <2>1 DEF LogInv, InFlight
<1>6. QED
  BY <1>1, <1>2, <1>3, <1>4, <1>5 DEF LogInv, TypeOK

\* What a step that returns has to show: without a race the log grew by the
\* request, and without one with growth by no more than one.
LEMMA ReturnKeeps ==
  ASSUME LogInv, NEW w \in Workers, pc[w] \in Appending, Return(w),
         UNCHANGED <<request, at, mine, slots, block, seen, copied, past, pages, race>>,
         finish' \in 0..Len(slots), memory' \in {"ok", "broken"}, memory = "ok",
         race # "growth" => finish' <= Cardinality(returned) + 1,
         race = "none" => finish' = finish + 1 /\ slots[finish + 1] = request[w] /\ memory' = "ok"
  PROVE  LogInv'
<1>1. /\ Cardinality(returned) \in Nat /\ Cardinality(returned') = Cardinality(returned) + 1
      /\ returned' = returned \cup {request[w]} /\ returned' \subseteq seen
      /\ pc'[w] = "idle" /\ pc' \in [Workers -> {"idle", "counting", "recording"} \cup Accessing]
      /\ \A v \in Workers : v # w => pc'[v] = pc[v]
      /\ InFlight'
  BY ReturnStep
<1>2. finish \in Nat /\ returned \subseteq returned'
  BY <1>1 DEF LogInv, TypeOK
<1>3. TypeOK'
  BY <1>1 DEF LogInv, TypeOK
<1>4. Blocks'
  BY <1>1 DEF LogInv, Blocks
<1>5. pc[w] \in Accessing
  BY DEF Accessing
<1>6. Roomy'
  <2> SUFFICES ASSUME race # "growth", NEW v \in Workers, v # w
               PROVE  /\ pc[v] \notin Growing
                      /\ pc[v] \in {"placing", "advancing"} =>
                           mine[v] = block /\ at[v] < Len(slots) /\ at[v] <= Cardinality(returned) + 1
    BY <1>1 DEF Roomy, Growing
  <2>1. pc[v] \notin Growing
    BY <1>5 DEF LogInv, Roomy
  <2>2. pc[v] \in {"placing", "advancing"} =>
          mine[v] = block /\ at[v] < Len(slots) /\ at[v] <= Cardinality(returned)
    BY DEF LogInv, Roomy
  <2>3. at[v] \in Nat
    BY DEF LogInv, TypeOK
  <2>4. QED
    BY <1>1, <2>1, <2>2, <2>3
<1>7. NeverOvercounts'
  BY <1>1 DEF LogInv, NeverOvercounts
<1>8. race = "none" => \A v \in Workers : pc'[v] \notin Accessing
  <2>1. race = "none" => \A v \in Workers : pc[v] \in Accessing => v = w
    BY DEF LogInv, Alone
  <2>2. "idle" \notin Accessing
    BY DEF Accessing, Appending, Growing
  <2>3. QED
    BY <1>1, <2>1, <2>2
<1>9. Alone'
  BY <1>8 DEF Alone, Accessing
<1>10. ExactUntilRace'
  <2> SUFFICES ASSUME race = "none"
               PROVE  Recorded' = returned' /\ finish' = Cardinality(returned')
    BY DEF ExactUntilRace
  <2>1. 1..(finish + 1) = (1..finish) \cup {finish + 1}
    BY <1>2
  <2>2. Recorded' = Recorded \cup {request[w]}
    BY <2>1 DEF Recorded
  <2>3. QED
    BY <1>1, <2>2 DEF LogInv, ExactUntilRace
<1>11. Copied'
  <2>1. ASSUME race = "none", NEW v \in Workers, pc'[v] = "counting"
        PROVE  /\ past[v] \subseteq copied[v] /\ copied[v] \subseteq returned
               /\ Cardinality(copied[v]) <= finish /\ Cardinality(copied[v]) \in Nat
    <3>1. /\ past[v] \subseteq copied[v] /\ copied[v] \subseteq returned
          /\ Cardinality(copied[v]) <= finish
      BY <1>1, <2>1 DEF LogInv, Copied
    <3>2. QED
      BY <3>1, Finite, FS_Subset, FS_CardinalityType DEF LogInv
  <2>2. QED
    BY <1>1, <1>2, <2>1 DEF Copied
<1>12. StatusIsConsistent'
  BY <1>2 DEF LogInv, StatusIsConsistent
<1>13. QED
  BY <1>1, <1>3, <1>4, <1>6, <1>7, <1>9, <1>10, <1>11, <1>12 DEF LogInv

\* finish is advanced.
LEMMA AdvanceStep ==
  ASSUME LogInv, NEW w \in Workers, Advance(w)
  PROVE  LogInv'
<1>1. /\ pc[w] = "advancing" /\ pc[w] \in Appending /\ Return(w) /\ memory = "ok"
      /\ UNCHANGED <<request, at, mine, slots, block, seen, copied, past, pages, race>>
  BY DEF Advance, Appending
<1>2. Cardinality(returned) \in Nat
  BY Finite DEF LogInv
<1>3. finish \in 0..Len(slots) /\ Len(slots) \in Nat /\ at[w] \in Nat
  BY DEF LogInv, TypeOK
<1>4. race # "growth" => at[w] <= Cardinality(returned) /\ finish <= Cardinality(returned)
  BY <1>1 DEF LogInv, Roomy, NeverOvercounts
<1>5. finish' \in 0..Len(slots) /\ memory' \in {"ok", "broken"}
  BY <1>1, <1>3 DEF Advance
<1>6. race # "growth" => finish' <= Cardinality(returned) + 1
  BY <1>2, <1>3, <1>4 DEF Advance
<1>7. race = "none" => finish' = finish + 1 /\ slots[finish + 1] = request[w] /\ memory' = "ok"
  <2> SUFFICES ASSUME race = "none"
               PROVE  finish' = finish + 1 /\ slots[finish + 1] = request[w] /\ memory' = "ok"
    OBVIOUS
  <2>1. at[w] = finish /\ mine[w] = block /\ slots[finish + 1] = request[w]
    BY <1>1 DEF LogInv, Alone
  <2>2. at[w] < Len(slots)
    BY <1>1 DEF LogInv, Roomy
  <2>3. QED
    BY <1>1, <1>3, <2>1, <2>2 DEF Advance
<1>8. QED
  BY <1>1, <1>5, <1>6, <1>7, ReturnKeeps

\* The capacity of the new block.
LEMMA CapacityLemma ==
  ASSUME NEW S, slots \in Seq(S)
  PROVE  Capacity \in Nat /\ Len(slots) < Capacity
<1>1. Len(slots) \in Nat
  OBVIOUS
<1>2. CASE slots = <<>>
  BY <1>1, <1>2 DEF Capacity
<1>3. CASE slots # <<>>
  <2>1. Len(slots) # 0
    BY <1>3, EmptySeq
  <2>2. QED
    BY <1>1, <1>3, <2>1 DEF Capacity
<1>4. QED
  BY <1>2, <1>3

\* Everything moves to a larger block, with the new element behind it.
LEMMA RelocateStep ==
  ASSUME LogInv, NEW w \in Workers, Relocate(w)
  PROVE  LogInv'
<1>1. /\ pc[w] = "growing" /\ memory = "ok" /\ pc' = [pc EXCEPT ![w] = "storing"]
      /\ UNCHANGED <<request, at, finish, seen, returned, copied, past, pages, race>>
  BY DEF Relocate
<1>2. /\ pc' \in [Workers -> {"idle", "counting", "recording"} \cup Accessing] /\ pc'[w] = "storing"
      /\ \A v \in Workers : v # w => pc'[v] = pc[v]
  BY <1>1 DEF LogInv, TypeOK, Accessing, Appending, Growing
<1>3. /\ finish \in 0..Len(slots) /\ Len(slots) \in Nat /\ at[w] \in Nat
      /\ slots \in Seq(Requests \cup {Garbage}) /\ block \in Nat /\ request[w] \in Requests \cup {Garbage}
      /\ mine \in [Workers -> Nat]
  BY DEF LogInv, TypeOK
<1>4. InFlight' /\ Copied' /\ NeverOvercounts' /\ StatusIsConsistent'
  BY <1>1, <1>2 DEF LogInv, InFlight, Copied, NeverOvercounts, StatusIsConsistent
<1>5. race # "growth" => /\ at[w] = finish /\ mine[w] = block
                         /\ \A v \in Workers : pc[v] \in Accessing => v = w
  BY <1>1 DEF LogInv, Roomy, Growing
<1>6. race # "growth" => \A v \in Workers : pc'[v] \in Accessing => v = w
  BY <1>2, <1>5
<1>7. CASE mine[w] # block \/ at[w] > Len(slots)
  <2>1. memory' = "broken" /\ UNCHANGED <<slots, block, mine>>
    BY <1>3, <1>7 DEF Relocate
  <2>2. race = "growth"
    BY <1>3, <1>5, <1>7
  <2>3. TypeOK'
    BY <1>1, <1>2, <2>1 DEF LogInv, TypeOK
  <2>4. Blocks'
    BY <2>1 DEF LogInv, Blocks
  <2>5. Roomy' /\ Alone' /\ ExactUntilRace'
    BY <1>1, <2>2 DEF Roomy, Alone, ExactUntilRace
  <2>6. QED
    BY <1>4, <2>3, <2>4, <2>5 DEF LogInv
<1>8. CASE mine[w] = block /\ at[w] <= Len(slots)
  <2>1. /\ slots' = [n \in 1..Capacity |-> IF n <= at[w] THEN slots[n]
                                            ELSE IF n = at[w] + 1 THEN request[w] ELSE Garbage]
        /\ block' = block + 1 /\ mine' = [mine EXCEPT ![w] = block + 1] /\ memory' = memory
    BY <1>3, <1>8 DEF Relocate
  <2>2. Capacity \in Nat /\ at[w] + 1 <= Capacity /\ Len(slots) < Capacity
    BY <1>3, <1>8, CapacityLemma
  <2>3. slots' \in Seq(Requests \cup {Garbage}) /\ Len(slots') = Capacity
    <3>1. \A n \in 1..Len(slots) : slots[n] \in Requests \cup {Garbage}
      BY <1>3, ElementOfSeq
    <3>2. slots' \in [1..Capacity -> Requests \cup {Garbage}]
      BY <1>3, <1>8, <2>1, <2>2, <3>1
    <3>3. slots' \in Seq(Requests \cup {Garbage})
      BY <2>2, <3>2, SeqDef
    <3>4. QED
      BY <2>2, <3>2, <3>3, LenProperties
  <2>4. /\ mine'[w] = block + 1 /\ mine' \in [Workers -> Nat]
        /\ \A v \in Workers : v # w => mine'[v] = mine[v] /\ mine[v] <= block /\ mine[v] \in Nat
    BY <1>3, <2>1 DEF LogInv, Blocks
  <2>5. TypeOK'
    <3>1. finish \in 0..Len(slots')
      BY <1>3, <2>2, <2>3
    <3>2. QED
      BY <1>1, <1>2, <1>3, <2>1, <2>3, <2>4, <3>1 DEF LogInv, TypeOK
  <2>6. Blocks'
    <3>1. \A v \in Workers : mine'[v] <= block + 1 /\ (v # w => mine'[v] # block + 1)
      BY <1>3, <2>4
    <3>2. block + 1 > 0 /\ at'[w] < Len(slots')
      BY <1>1, <1>3, <2>2, <2>3
    <3>3. QED
      BY <2>1, <3>1, <3>2 DEF Blocks
  <2>7. race # "growth" => finish < Len(slots') /\ finish + 1 \in 1..Capacity
    BY <1>3, <1>5, <2>2, <2>3
  <2>8. Roomy'
    <3>1. race # "growth" => at'[w] = finish' /\ mine'[w] = block'
      BY <1>1, <1>5, <2>1, <2>4
    <3>2. Growing \subseteq Accessing /\ {"placing", "advancing"} \subseteq Accessing
      BY DEF Accessing, Appending
    <3>3. QED
      BY <1>1, <1>2, <1>6, <2>7, <3>1, <3>2 DEF Roomy
  <2>9. race = "none" => slots'[finish + 1] = request[w] /\ \A n \in 1..finish : slots'[n] = slots[n]
    BY <1>3, <1>5, <2>1, <2>2, <2>7
  <2>10. Alone'
    <3>1. race = "none" => at'[w] = finish' /\ mine'[w] = block' /\ slots'[finish' + 1] = request'[w]
      BY <1>1, <1>5, <2>1, <2>4, <2>9
    <3>2. Appending \subseteq Accessing /\ "copying" \in Accessing
      BY DEF Accessing
    <3>3. QED
      BY <1>1, <1>2, <1>6, <3>1, <3>2 DEF Alone
  <2>11. ExactUntilRace'
    <3>1. race = "none" => Recorded' = Recorded
      BY <1>1, <2>9 DEF Recorded
    <3>2. QED
      BY <1>1, <2>1, <3>1 DEF LogInv, ExactUntilRace
  <2>12. QED
    BY <1>4, <2>5, <2>6, <2>8, <2>10, <2>11 DEF LogInv
<1>9. QED
  BY <1>3, <1>7, <1>8

\* The pointers are stored, and the element counts.
LEMMA StoreStep ==
  ASSUME LogInv, NEW w \in Workers, Store(w)
  PROVE  LogInv'
<1>1. /\ pc[w] = "storing" /\ pc[w] \in Appending /\ Return(w) /\ memory = "ok"
      /\ UNCHANGED <<request, at, mine, slots, block, seen, copied, past, pages, race>>
  BY DEF Store, Appending, Growing
<1>2. Cardinality(returned) \in Nat
  BY Finite DEF LogInv
<1>3. finish \in 0..Len(slots) /\ Len(slots) \in Nat /\ at[w] \in Nat
  BY DEF LogInv, TypeOK
<1>4. mine[w] = block => at[w] < Len(slots)
  BY <1>1 DEF LogInv, Blocks
<1>5. finish' \in 0..Len(slots) /\ memory' \in {"ok", "broken"}
  BY <1>1, <1>3, <1>4 DEF Store
<1>6. race # "growth" => finish' = finish + 1 /\ memory' = "ok"
  <2>1. race # "growth" => at[w] = finish /\ mine[w] = block
    BY <1>1 DEF LogInv, Roomy, Growing
  <2>2. QED
    BY <1>1, <2>1 DEF Store
<1>7. race # "growth" => finish' <= Cardinality(returned) + 1
  BY <1>2, <1>3, <1>6 DEF LogInv, NeverOvercounts
<1>8. race = "none" => slots[finish + 1] = request[w]
  BY <1>1 DEF LogInv, Alone
<1>9. QED
  BY <1>1, <1>5, <1>6, <1>7, <1>8, ReturnKeeps

\* Every step keeps the invariant of the log.
LEMMA LogNext == LogInv /\ [Next]_vars => LogInv'
<1> SUFFICES ASSUME LogInv, [Next]_vars PROVE LogInv'
  OBVIOUS
<1>1. CASE UNCHANGED vars
  BY <1>1 DEF vars, LogInv, TypeOK, InFlight, Blocks, Roomy, NeverOvercounts, Alone, ExactUntilRace, Copied, StatusIsConsistent, Recorded
<1>2. CASE Done
  BY <1>1, <1>2 DEF Done
<1>3. QED
  BY <1>1, <1>2, HandleStep, SizeStep, CopyStep, CountStep, EnterStep, PlaceStep, AdvanceStep, RelocateStep, StoreStep DEF Next

\* The invariant holds for any number of threads and of requests.
THEOREM LogInvariance == Spec => []LogInv
BY LogInit, LogNext, PTL DEF Spec

\* Type correctness; in particular finish never leaves the storage, whatever the
\* threads meet, up to the step that breaks memory.
THEOREM LogTypeCorrect == Spec => []TypeOK
<1>1. LogInv => TypeOK
  BY DEF LogInv
<1>2. QED
  BY <1>1, LogInvariance, PTL

\* The log is exact until an append has met another use of it.
THEOREM ExactTheorem == Spec => []ExactUntilRace
<1>1. LogInv => ExactUntilRace
  BY DEF LogInv
<1>2. QED
  BY <1>1, LogInvariance, PTL

\* Status pages are consistent until then.
THEOREM StatusTheorem == Spec => []StatusIsConsistent
<1>1. LogInv => StatusIsConsistent
  BY DEF LogInv
<1>2. QED
  BY <1>1, LogInvariance, PTL

\* Races that no growing thread takes part in never make it count too much.
THEOREM OvercountTheorem == Spec => []NeverOvercounts
<1>1. LogInv => NeverOvercounts
  BY DEF LogInv
<1>2. QED
  BY <1>1, LogInvariance, PTL
=============================================================================
