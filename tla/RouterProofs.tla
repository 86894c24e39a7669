---------------------------- MODULE RouterProofs ----------------------------
(***************************************************************************)
(* Proofs about Router, for URLs over any characters, tables of any length *)
(* and targets of any length.                                              *)
(***************************************************************************)
EXTENDS Router, Induction, SequenceTheorems, TLAPS

-----------------------------------------------------------------------------
(* rfind and find return positions                                         *)

\* rfind("/") returns the position of the last slash of a target.
LEMMA LastSlashFound ==
  ASSUME NEW t \in Seq(Chars)
  PROVE  /\ LastSlash(t) \in 0..Len(t)
         /\ LastSlash(t) # 0 => t[LastSlash(t)] = Slash
<1>1. CASE \E n \in 1..Len(t) : t[n] = Slash
  <2> DEFINE D == {d \in Nat : d < Len(t) /\ t[Len(t) - d] = Slash}
  <2>1. D # {}
    <3>1. PICK n \in 1..Len(t) : t[n] = Slash
      BY <1>1
    <3>2. Len(t) - n \in D
      BY <3>1
    <3>3. QED
      BY <3>2
  <2>2. PICK d \in D : \A e \in D : d <= e
    <3> HIDE DEF D
    <3>1. D \subseteq Nat
      BY DEF D
    <3>2. QED
      BY <2>1, <3>1, LeastElement
  <2>3. Len(t) - d \in 1..Len(t) /\ t[Len(t) - d] = Slash
    OBVIOUS
  <2>4. ASSUME NEW m \in ((Len(t) - d) + 1)..Len(t) PROVE t[m] # Slash
    <3>1. CASE t[m] = Slash
      <4>1. Len(t) - m \in D
        BY <3>1
      <4>2. QED
        BY <2>2, <4>1
    <3>2. QED
      BY <3>1
  <2>5. \E n \in 1..Len(t) : t[n] = Slash /\ \A m \in (n + 1)..Len(t) : t[m] # Slash
    BY <2>3, <2>4
  <2>6. QED
    BY <1>1, <2>5 DEF LastSlash
<1>2. CASE ~\E n \in 1..Len(t) : t[n] = Slash
  BY <1>2 DEF LastSlash
<1>3. QED
  BY <1>1, <1>2

\* find("?") from a position on returns the first question mark there, if any.
LEMMA FirstQMarkFound ==
  ASSUME NEW t \in Seq(Chars), NEW n \in 1..Len(t)
  PROVE  /\ FirstQMark(t, n) \in {0} \cup n..Len(t)
         /\ FirstQMark(t, n) # 0 => t[FirstQMark(t, n)] = QMark
<1>1. CASE \E m \in n..Len(t) : t[m] = QMark
  <2> DEFINE Q == {m \in n..Len(t) : t[m] = QMark}
  <2>1. PICK q \in Q : \A m \in Q : q <= m
    <3>1. Q \subseteq Nat /\ Q # {}
      BY <1>1
    <3> HIDE DEF Q
    <3>2. QED
      BY <3>1, LeastElement
  <2>2. q \in n..Len(t) /\ t[q] = QMark /\ \A k \in n..(q - 1) : t[k] # QMark
    BY <2>1
  <2>3. QED
    BY <1>1, <2>2 DEF FirstQMark
<1>2. CASE ~\E m \in n..Len(t) : t[m] = QMark
  BY <1>2 DEF FirstQMark
<1>3. QED
  BY <1>1, <1>2

\* Whatever erase leaves is a non-empty beginning of the target.
LEMMA EraseQueryLeaves ==
  ASSUME NEW t \in Seq(Chars), t # <<>>
  PROVE  \E k \in 1..Len(t) : EraseQuery(t) = SubSeq(t, 1, k)
<1>1. CASE LastSlash(t) = 0 \/ FirstQMark(t, LastSlash(t)) = 0
  <2>1. EraseQuery(t) = t
    BY <1>1 DEF EraseQuery
  <2>2. t = SubSeq(t, 1, Len(t)) /\ Len(t) \in 1..Len(t)
    OBVIOUS
  <2>3. QED
    BY <2>1, <2>2
<1>2. CASE LastSlash(t) # 0 /\ FirstQMark(t, LastSlash(t)) # 0
  <2> DEFINE l == LastSlash(t)
             q == FirstQMark(t, LastSlash(t))
  <2>1. l \in 1..Len(t) /\ t[l] = Slash
    BY <1>2, LastSlashFound
  <2>2. q \in l..Len(t) /\ t[q] = QMark
    BY <1>2, <2>1, FirstQMarkFound
  <2>3. q # l
    BY <2>1, <2>2, RouterAssumption
  <2>4. EraseQuery(t) = SubSeq(t, 1, q - l)
    BY <1>2 DEF EraseQuery
  <2>5. q - l \in 1..Len(t)
    BY <2>1, <2>2, <2>3
  <2>6. QED
    BY <2>4, <2>5
<1>3. QED
  BY <1>1, <1>2
-----------------------------------------------------------------------------
(* Type correctness                                                        *)

\* Registered prefixes are not empty and start with a slash.
LEMMA UrlPrefixShape ==
  ASSUME NEW u \in Urls
  PROVE  url_prefix(u) \in Seq(Chars) /\ url_prefix(u) # <<>> /\ url_prefix(u)[1] = Slash
<1>1. u \in Seq(Chars) /\ u # <<>> /\ Len(u) \in Nat /\ Len(u) >= 1
  BY RouterAssumption
<1> DEFINE v == RemoveTrailingSlash(u)
<1>2. v \in Seq(Chars) /\ v # <<>>
  <2>1. CASE EndsInSlash(u) /\ u # Root
    <3>1. Len(u) # 1
      <4>1. CASE Len(u) = 1
        <5>1. u[1] = Slash
          BY <2>1, <4>1 DEF EndsInSlash
        <5>2. u = Root
          BY <1>1, <4>1, <5>1 DEF Root
        <5>3. QED
          BY <2>1, <5>2
      <4>2. QED
        BY <4>1
    <3>2. Len(u) - 1 \in 1..Len(u)
      <4>1. \A k \in Nat : k >= 1 /\ k # 1 => k - 1 \in 1..k
        OBVIOUS
      <4>2. QED
        BY <1>1, <3>1, <4>1
    <3>3. Shorter(u) \in Seq(Chars) /\ Len(Shorter(u)) = Len(u) - 1
      <4>1. \A i \in 1..(Len(u) - 1) : u[i] \in Chars
        BY <1>1
      <4>2. SubSeq(u, 1, Len(u) - 1) \in Seq(Chars) /\ Len(SubSeq(u, 1, Len(u) - 1)) = Len(u) - 1
        BY <1>1, <3>2, <4>1, SubSeqProperties
      <4>3. QED
        BY <4>2 DEF Shorter
    <3>4. QED
      BY <1>1, <2>1, <3>2, <3>3 DEF RemoveTrailingSlash
  <2>2. CASE ~(EndsInSlash(u) /\ u # Root)
    BY <1>1, <2>2 DEF RemoveTrailingSlash
  <2>3. QED
    BY <2>1, <2>2
<1> HIDE DEF v
<1>3. AddLeadingSlash(v) \in Seq(Chars) /\ AddLeadingSlash(v) # <<>> /\ AddLeadingSlash(v)[1] = Slash
  <2>1. CASE v[1] # Slash
    <3>1. AddLeadingSlash(v) = Root \o v
      BY <1>2, <2>1 DEF AddLeadingSlash
    <3>2. Root \o v \in Seq(Chars) /\ Len(Root \o v) = 1 + Len(v) /\ (Root \o v)[1] = Slash
      BY <1>2, RouterAssumption DEF Root
    <3>3. QED
      BY <1>2, <3>1, <3>2
  <2>2. CASE v[1] = Slash
    BY <1>2, <2>2 DEF AddLeadingSlash
  <2>3. QED
    BY <2>1, <2>2
<1>4. QED
  BY <1>3 DEF url_prefix, v

\* The target that is matched is a non-empty beginning of the request target,
\* then the slash that construct_response appends.
LEMMA TargetShape ==
  ASSUME NEW t \in Targets
  PROVE  /\ t \in Seq(Chars)
         /\ EraseQuery(t) \o Root \in Seq(Chars)
         /\ \E k \in 1..Len(t) :
              /\ Len(EraseQuery(t) \o Root) = k + 1
              /\ \A n \in 1..k : (EraseQuery(t) \o Root)[n] = t[n]
<1>1. t \in Seq(Chars) /\ t # <<>>
  BY RouterAssumption
<1>2. PICK k \in 1..Len(t) : EraseQuery(t) = SubSeq(t, 1, k)
  BY <1>1, EraseQueryLeaves
<1>3. /\ SubSeq(t, 1, k) \in Seq(Chars)
      /\ Len(SubSeq(t, 1, k)) = k
      /\ \A n \in 1..k : SubSeq(t, 1, k)[n] = t[n]
  BY <1>1
<1>4. Root \in Seq(Chars) /\ Len(Root) = 1
  BY RouterAssumption DEF Root
<1> DEFINE e == EraseQuery(t)
<1>5. e \in Seq(Chars) /\ Len(e) = k /\ \A n \in 1..k : e[n] = t[n]
  BY <1>2, <1>3
<1> HIDE DEF e
<1>6. /\ e \o Root \in Seq(Chars) /\ Len(e \o Root) = k + 1
      /\ \A n \in 1..k : (e \o Root)[n] = t[n]
  <2>1. /\ e \o Root \in Seq(Chars) /\ Len(e \o Root) = Len(e) + Len(Root)
        /\ \A i \in 1..(Len(e) + Len(Root)) : (e \o Root)[i] = IF i <= Len(e) THEN e[i] ELSE Root[i - Len(e)]
    BY <1>4, <1>5, ConcatProperties
  <2>2. QED
    BY <1>4, <1>5, <2>1
<1>7. QED
  BY <1>1, <1>6 DEF e

\* The empty table is well typed.
LEMMA InitTypeOK == Init => TypeOK
BY DEF Init, TypeOK

\* Every step of the router keeps the types.
LEMMA NextTypeOK == TypeOK /\ [Next]_vars => TypeOK'
<1> SUFFICES ASSUME TypeOK, [Next]_vars PROVE TypeOK'
  OBVIOUS
<1>1. ASSUME NEW u \in Urls, NEW known \in BOOLEAN, NEW block \in BOOLEAN, CreateHandler(u, known, block)
      PROVE  TypeOK'
  <2>1. CASE UNCHANGED urlToHandler
    BY <1>1, <2>1 DEF TypeOK, CreateHandler
  <2>2. CASE urlToHandler' = Append(urlToHandler, url_prefix(u)) /\ UNCHANGED stage
    <3>1. /\ urlToHandler' \in Seq(Seq(Chars))
          /\ Len(urlToHandler') = Len(urlToHandler) + 1
          /\ urlToHandler'[Len(urlToHandler) + 1] = url_prefix(u)
          /\ \A n \in 1..Len(urlToHandler) : urlToHandler'[n] = urlToHandler[n]
      BY <2>2, UrlPrefixShape DEF TypeOK
    <3>2. \A n \in 1..Len(urlToHandler') : urlToHandler'[n] # <<>> /\ urlToHandler'[n][1] = Slash
      <4> SUFFICES ASSUME NEW n \in 1..Len(urlToHandler')
                   PROVE  urlToHandler'[n] # <<>> /\ urlToHandler'[n][1] = Slash
        OBVIOUS
      <4>1. CASE n \in 1..Len(urlToHandler)
        BY <3>1, <4>1 DEF TypeOK
      <4>2. CASE n = Len(urlToHandler) + 1
        BY <3>1, <4>2, UrlPrefixShape
      <4>3. QED
        BY <3>1, <4>1, <4>2 DEF TypeOK
    <3>3. QED
      BY <1>1, <2>2, <3>1, <3>2 DEF TypeOK, CreateHandler
  <2>3. QED
    BY <1>1, <2>1, <2>2 DEF CreateHandler
<1>2. ASSUME NEW t \in Targets, ConstructResponse(t) PROVE TypeOK'
  BY <1>2, TargetShape DEF TypeOK, ConstructResponse
<1>3. CASE MatchNext
  BY <1>3 DEF TypeOK, MatchNext
<1>4. CASE ConfigDone \/ Decide \/ Answered
  <2>1. CASE ConfigDone
    BY <2>1 DEF TypeOK, ConfigDone
  <2>2. CASE Decide
    BY <2>2 DEF TypeOK, Decide
  <2>3. CASE Answered
    BY <2>3 DEF TypeOK, Answered
  <2>4. QED
    BY <1>4, <2>1, <2>2, <2>3
<1>5. CASE UNCHANGED vars \/ Crashed
  BY <1>5 DEF TypeOK, vars, Crashed
<1>6. QED
  BY <1>1, <1>2, <1>3, <1>4, <1>5 DEF Next

\* The table only ever holds non-empty prefixes that start with a slash, and
\* every string the router builds is a proper one.
THEOREM TypeCorrect == Spec => []TypeOK
BY InitTypeOK, NextTypeOK, PTL DEF Spec
-----------------------------------------------------------------------------
(* The test in the loop                                                    *)

\* For a prefix of the table, the two conditions of the loop say that it covers
\* the target, whatever is read beyond the target's end.
LEMMA MatchIsCover ==
  ASSUME target \in Seq(Chars), target # <<>>,
         NEW p \in Seq(Chars), p # <<>>, p[1] = Slash,
         NEW d \in LastDirnameNotASubstr(p)
  PROVE  PrefixStringMatch(p) /\ d <=> Covers(p, target)
<1> DEFINE len == IF Len(p) < Len(target) THEN Len(p) ELSE Len(target)
<1>1. /\ SubSeq(target, 1, len) \in Seq(Chars)
      /\ Len(SubSeq(target, 1, len)) = len
      /\ \A i \in 1..len : SubSeq(target, 1, len)[i] = target[i]
  <2>1. len \in 1..Len(target)
    OBVIOUS
  <2> HIDE DEF len
  <2>2. \A i \in 1..len : target[i] \in Chars
    BY <2>1
  <2>3. QED
    BY <2>1, <2>2, SubSeqProperties
<1>2. PrefixStringMatch(p) <=> StartsWith(target, p)
  <2>1. CASE Len(p) <= Len(target)
    <3>1. len = Len(p)
      BY <2>1
    <3>2. SubSeq(target, 1, len) = p <=> \A n \in 1..Len(p) : target[n] = p[n]
      BY <1>1, <3>1
    <3>3. QED
      BY <2>1, <3>2 DEF PrefixStringMatch, StartsWith
  <2>2. CASE ~(Len(p) <= Len(target))
    <3>1. SubSeq(target, 1, len) # p
      BY <1>1, <2>2
    <3>2. QED
      BY <2>2, <3>1 DEF PrefixStringMatch, StartsWith
  <2>3. QED
    BY <2>1, <2>2
<1> HIDE DEF len
<1>3. Root \in Seq(Chars) /\ Len(Root) = 1 /\ Root[1] = Slash
  BY RouterAssumption DEF Root
<1>4. CASE p = Root
  <2>1. d
    <3>1. Len(p) = 1 /\ (Len(p) < Len(target) \/ Len(p) = Len(target))
      BY <1>3, <1>4
    <3>2. CASE Len(p) < Len(target)
      <4>1. d = (target[Len(p) + 1] = Slash \/ p = Root)
        BY <3>2 DEF LastDirnameNotASubstr
      <4>2. QED
        BY <1>4, <4>1
    <3>3. CASE Len(p) = Len(target)
      <4>1. ~(Len(p) < Len(target))
        <5>1. Len(target) = 1
          BY <3>1, <3>3
        <5>2. QED
          BY <3>1, <5>1
      <4>2. d = (p = Root)
        BY <3>3, <4>1 DEF LastDirnameNotASubstr
      <4>3. QED
        BY <1>4, <4>2
    <3>4. QED
      BY <3>1, <3>2, <3>3
  <2>2. QED
    BY <1>2, <1>4, <2>1 DEF Covers
<1>5. CASE p # Root
  <2>1. /\ p \o Root \in Seq(Chars)
        /\ Len(p \o Root) = Len(p) + 1
        /\ \A i \in 1..Len(p) : (p \o Root)[i] = p[i]
        /\ (p \o Root)[Len(p) + 1] = Slash
    <3>1. /\ p \o Root \in Seq(Chars) /\ Len(p \o Root) = Len(p) + Len(Root)
          /\ \A i \in 1..(Len(p) + Len(Root)) : (p \o Root)[i] = IF i <= Len(p) THEN p[i] ELSE Root[i - Len(p)]
      BY <1>3, ConcatProperties
    <3>2. QED
      BY <1>3, <3>1
  <2>2. StartsWith(target, p \o Root) <=>
          StartsWith(target, p) /\ Len(p) < Len(target) /\ target[Len(p) + 1] = Slash
    <3>1. ASSUME StartsWith(target, p \o Root)
          PROVE  StartsWith(target, p) /\ Len(p) < Len(target) /\ target[Len(p) + 1] = Slash
      BY <2>1, <3>1 DEF StartsWith
    <3>2. ASSUME StartsWith(target, p), Len(p) < Len(target), target[Len(p) + 1] = Slash
          PROVE  StartsWith(target, p \o Root)
      <4>1. ASSUME NEW n \in 1..(Len(p) + 1) PROVE target[n] = (p \o Root)[n]
        <5>1. CASE n \in 1..Len(p)
          BY <2>1, <3>2, <5>1 DEF StartsWith
        <5>2. CASE n = Len(p) + 1
          BY <2>1, <3>2, <5>2
        <5>3. n \in 1..Len(p) \/ n = Len(p) + 1
          OBVIOUS
        <5>4. QED
          BY <5>1, <5>2, <5>3
      <4>2. QED
        BY <2>1, <3>2, <4>1 DEF StartsWith
    <3>3. QED
      BY <3>1, <3>2
  <2>3. CASE Len(p) < Len(target)
    BY <1>2, <1>5, <2>2, <2>3 DEF LastDirnameNotASubstr, Covers
  <2>4. CASE Len(p) = Len(target)
    BY <1>2, <1>5, <2>2, <2>4 DEF LastDirnameNotASubstr, Covers
  <2>5. CASE Len(p) > Len(target)
    BY <1>2, <1>5, <2>2, <2>5 DEF Covers, StartsWith
  <2>6. QED
    BY <2>3, <2>4, <2>5
<1>6. QED
  BY <1>4, <1>5
-----------------------------------------------------------------------------
(* The loop                                                                *)

\* target is what construct_response made of the request.
TargetOfRequest ==
  stage \in {"matching", "decided"} =>
    request \in Targets /\ target = EraseQuery(request) \o Root

\* So far, correct_handler is the best of the entries looked at, and
\* longest_prefix_match is the length of its prefix.
LoopInv ==
  stage = "matching" =>
    /\ next <= Len(urlToHandler) + 1
    /\ BestOf(correct_handler, next - 1, target)
    /\ longest_prefix_match =
         IF correct_handler = 0 THEN 0 ELSE Len(urlToHandler[correct_handler])

Inv == TypeOK /\ TargetOfRequest /\ LoopInv /\ LongestPrefixWins

\* One round of the loop keeps the best prefix among the entries visited.
LEMMA MatchNextKeepsBest ==
  ASSUME Inv, MatchNext
  PROVE  LoopInv'
<1> DEFINE p == urlToHandler[next]
<1>1. /\ TypeOK /\ stage = "matching" /\ next \in 1..Len(urlToHandler)
      /\ p \in Seq(Chars) /\ p # <<>> /\ p[1] = Slash /\ Len(p) \in Nat /\ Len(p) > 0
  BY DEF Inv, MatchNext, TypeOK
<1>2. target \in Seq(Chars) /\ target # <<>>
  <2>1. request \in Targets /\ target = EraseQuery(request) \o Root
    BY <1>1 DEF Inv, TargetOfRequest
  <2>2. PICK k \in 1..Len(request) : Len(target) = k + 1
    BY <2>1, TargetShape
  <2>3. QED
    BY <1>1, <2>2 DEF TypeOK
<1>3. /\ BestOf(correct_handler, next - 1, target)
      /\ longest_prefix_match =
           IF correct_handler = 0 THEN 0 ELSE Len(urlToHandler[correct_handler])
  BY <1>1 DEF Inv, LoopInv
<1>4. UNCHANGED <<stage, urlToHandler, request, target>> /\ next' = next + 1
  BY DEF MatchNext
<1>5. \/ /\ Covers(p, target) /\ Len(p) > longest_prefix_match
         /\ longest_prefix_match' = Len(p) /\ correct_handler' = next
      \/ /\ ~(Covers(p, target) /\ Len(p) > longest_prefix_match)
         /\ UNCHANGED <<longest_prefix_match, correct_handler>>
  <2>1. PICK d \in LastDirnameNotASubstr(p) :
          IF PrefixStringMatch(p) /\ IsLonger(p) /\ d
          THEN longest_prefix_match' = Len(p) /\ correct_handler' = next
          ELSE UNCHANGED <<longest_prefix_match, correct_handler>>
    BY DEF MatchNext
  <2>2. PrefixStringMatch(p) /\ d <=> Covers(p, target)
    BY <1>1, <1>2, MatchIsCover
  <2>3. QED
    BY <2>1, <2>2 DEF IsLonger
<1>6. \A k \in 1..Len(urlToHandler) : Len(urlToHandler[k]) \in Nat /\ Len(urlToHandler[k]) > 0
  BY <1>1 DEF TypeOK
<1>7. correct_handler \in 0..Len(urlToHandler) /\ next \in Nat
  BY <1>1 DEF TypeOK
<1>8. BestOf(correct_handler', next, target)
  <2>1. CASE /\ Covers(p, target) /\ Len(p) > longest_prefix_match
             /\ longest_prefix_match' = Len(p) /\ correct_handler' = next
    <3>1. ASSUME NEW k \in 1..next, Covers(urlToHandler[k], target)
          PROVE  \/ Len(urlToHandler[k]) < Len(p)
                 \/ Len(urlToHandler[k]) = Len(p) /\ next <= k
      <4>1. CASE k = next
        BY <1>1, <4>1
      <4>2. CASE k \in 1..(next - 1)
        BY <1>1, <1>3, <1>6, <1>7, <2>1, <3>1, <4>2 DEF BestOf
      <4>3. QED
        BY <1>1, <4>1, <4>2
    <3>2. QED
      BY <1>1, <2>1, <3>1 DEF BestOf
  <2>2. CASE /\ ~(Covers(p, target) /\ Len(p) > longest_prefix_match)
             /\ UNCHANGED <<longest_prefix_match, correct_handler>>
    <3>1. CASE correct_handler = 0
      <4>1. ~Covers(p, target)
        BY <1>1, <1>3, <2>2, <3>1
      <4>2. \A k \in 1..next : ~Covers(urlToHandler[k], target)
        BY <1>1, <1>3, <3>1, <4>1 DEF BestOf
      <4>3. QED
        BY <2>2, <3>1, <4>2 DEF BestOf
    <3>2. CASE correct_handler # 0
      <4> DEFINE h == correct_handler
      <4>1. h \in 1..(next - 1) /\ Covers(urlToHandler[h], target)
        BY <1>3, <3>2 DEF BestOf
      <4>2. ASSUME NEW k \in 1..next, Covers(urlToHandler[k], target)
            PROVE  \/ Len(urlToHandler[k]) < Len(urlToHandler[h])
                   \/ Len(urlToHandler[k]) = Len(urlToHandler[h]) /\ h <= k
        <5>1. CASE k = next
          BY <1>1, <1>3, <1>6, <1>7, <2>2, <3>2, <4>1, <4>2, <5>1
        <5>2. CASE k \in 1..(next - 1)
          BY <1>3, <3>2, <4>2, <5>2 DEF BestOf
        <5>3. QED
          BY <1>1, <5>1, <5>2
      <4>3. h \in 1..next
        BY <1>1, <4>1
      <4>4. QED
        BY <2>2, <3>2, <4>1, <4>2, <4>3 DEF BestOf
    <3>3. QED
      BY <3>1, <3>2
  <2>3. QED
    BY <1>5, <2>1, <2>2
<1>9. longest_prefix_match' =
        IF correct_handler' = 0 THEN 0 ELSE Len(urlToHandler'[correct_handler'])
  BY <1>1, <1>3, <1>4, <1>5
<1>10. next' <= Len(urlToHandler') + 1 /\ next' - 1 = next
  BY <1>1, <1>4
<1>11. QED
  BY <1>4, <1>8, <1>9, <1>10 DEF LoopInv, BestOf

\* The invariant holds of the empty table.
LEMMA InvInit == Init => Inv
BY InitTypeOK DEF Init, Inv, TargetOfRequest, LoopInv, LongestPrefixWins

\* Every step of the router keeps the invariant.
LEMMA InvNext == Inv /\ [Next]_vars => Inv'
<1> SUFFICES ASSUME Inv, [Next]_vars PROVE Inv'
  OBVIOUS
<1>1. TypeOK /\ TypeOK'
  BY NextTypeOK DEF Inv
<1>2. CASE UNCHANGED vars \/ Crashed
  BY <1>1, <1>2 DEF vars, Crashed, Inv, TargetOfRequest, LoopInv, LongestPrefixWins, BestOf
<1>3. CASE \E u \in Urls, known, block \in BOOLEAN : CreateHandler(u, known, block)
  <2>1. stage = "config" /\ stage' \in {"config", "crashed"}
    BY <1>3 DEF CreateHandler
  <2>2. QED
    BY <1>1, <2>1 DEF Inv, TargetOfRequest, LoopInv, LongestPrefixWins
<1>4. CASE ConfigDone \/ Answered
  <2>1. stage' = "ready"
    BY <1>4 DEF ConfigDone, Answered
  <2>2. QED
    BY <1>1, <2>1 DEF Inv, TargetOfRequest, LoopInv, LongestPrefixWins
<1>5. ASSUME NEW t \in Targets, ConstructResponse(t) PROVE Inv'
  <2>1. /\ stage' = "matching" /\ next' = 1 /\ longest_prefix_match' = 0 /\ correct_handler' = 0
        /\ request' = t /\ target' = EraseQuery(t) \o Root /\ UNCHANGED urlToHandler
    BY <1>5 DEF ConstructResponse
  <2>2. TargetOfRequest'
    BY <2>1 DEF TargetOfRequest
  <2>3. LoopInv'
    BY <1>1, <2>1 DEF LoopInv, BestOf, TypeOK
  <2>4. QED
    BY <1>1, <2>1, <2>2, <2>3 DEF Inv, LongestPrefixWins
<1>6. CASE MatchNext
  <2>1. stage = "matching" /\ UNCHANGED <<stage, request, target>>
    BY <1>6 DEF MatchNext
  <2>2. QED
    BY <1>1, <1>6, <2>1, MatchNextKeepsBest DEF Inv, TargetOfRequest, LongestPrefixWins
<1>7. CASE Decide
  <2>1. /\ stage = "matching" /\ stage' = "decided" /\ next > Len(urlToHandler)
        /\ UNCHANGED <<urlToHandler, request, target, next, longest_prefix_match, correct_handler>>
    BY <1>7 DEF Decide
  <2>2. next - 1 = Len(urlToHandler)
    BY <1>1, <2>1 DEF Inv, LoopInv, TypeOK
  <2>3. LongestPrefixWins'
    BY <2>1, <2>2 DEF Inv, LoopInv, LongestPrefixWins, BestOf
  <2>4. QED
    BY <1>1, <2>1, <2>3 DEF Inv, TargetOfRequest, LoopInv
<1>8. QED
  BY <1>2, <1>3, <1>4, <1>5, <1>6, <1>7 DEF Next

\* Every reachable state satisfies the inductive invariant Inv: the handler loop
\* has kept the best prefix among the locations it has visited so far.
THEOREM Invariance == Spec => []Inv
BY InvInit, InvNext, PTL DEF Spec

\* The loop of construct_response finds the longest covering prefix, the first
\* one among equals, for tables and targets of any size and whatever the read
\* beyond the end of the target returns.
THEOREM LongestPrefixTheorem == Spec => []LongestPrefixWins
<1>1. Inv => LongestPrefixWins
  BY DEF Inv
<1>2. QED
  BY <1>1, Invariance, PTL

-----------------------------------------------------------------------------
(* What the handlers cut off                                               *)

\* A prefix that covers the target with its query erased also starts the
\* request target itself.
LEMMA CoverIsPrefixOfRequest ==
  ASSUME NEW r \in Targets, NEW p \in Seq(Chars), p # <<>>,
         Covers(p, EraseQuery(r) \o Root)
  PROVE  StartsWith(r, p)
<1> DEFINE t == EraseQuery(r) \o Root
<1>1. PICK k \in 1..Len(r) : Len(t) = k + 1 /\ \A n \in 1..k : t[n] = r[n]
  BY TargetShape
<1>2. r \in Seq(Chars)
  BY TargetShape
<1> HIDE DEF t
<1>3. Root \in Seq(Chars) /\ Len(Root) = 1 /\ Root[1] = Slash
  BY RouterAssumption DEF Root
<1>4. Len(p) <= k /\ \A n \in 1..Len(p) : t[n] = p[n]
  <2>1. CASE p = Root
    <3>1. StartsWith(t, Root)
      BY <2>1 DEF Covers, t
    <3>2. Len(p) = 1
      BY <1>3, <2>1
    <3>3. \A n \in 1..Len(p) : t[n] = p[n]
      BY <2>1, <3>1 DEF StartsWith
    <3>4. QED
      BY <1>1, <3>2, <3>3
  <2>2. CASE p # Root
    <3>1. StartsWith(t, p \o Root)
      BY <2>2 DEF Covers, t
    <3>2. /\ Len(p \o Root) = Len(p) + 1
          /\ \A i \in 1..Len(p) : (p \o Root)[i] = p[i]
      <4>1. /\ Len(p \o Root) = Len(p) + Len(Root)
            /\ \A i \in 1..(Len(p) + Len(Root)) :
                 (p \o Root)[i] = IF i <= Len(p) THEN p[i] ELSE Root[i - Len(p)]
        BY <1>3, ConcatProperties
      <4>2. QED
        BY <1>3, <4>1
    <3>3. QED
      BY <1>1, <3>1, <3>2 DEF StartsWith
  <2>3. QED
    BY <2>1, <2>2
<1>5. QED
  BY <1>1, <1>2, <1>4 DEF StartsWith

\* Without its last character a URL is shorter by one and otherwise the same.
LEMMA ShorterByOne ==
  ASSUME NEW u \in Seq(Chars), u # <<>>
  PROVE  /\ Len(Shorter(u)) = Len(u) - 1
         /\ \A n \in 1..(Len(u) - 1) : Shorter(u)[n] = u[n]
<1>1. Len(u) - 1 \in Nat /\ \A i \in 1..(Len(u) - 1) : u[i] \in Chars
  OBVIOUS
<1> DEFINE m == Len(u) - 1
<1>2. m \in Nat /\ \A i \in 1..m : u[i] \in Chars
  BY <1>1
<1> HIDE DEF m
<1>3. /\ Len(SubSeq(u, 1, m)) = (IF 1 <= m THEN m - 1 + 1 ELSE 0)
      /\ \A i \in 1..(m - 1 + 1) : SubSeq(u, 1, m)[i] = u[1 + i - 1]
  BY <1>2, SubSeqProperties
<1>4. Len(SubSeq(u, 1, m)) = m /\ \A n \in 1..m : SubSeq(u, 1, m)[n] = u[n]
  BY <1>2, <1>3
<1>5. QED
  BY <1>4 DEF Shorter, m

\* Trimming the trailing slash of the prefix and of the target, as the file
\* handler does, keeps the one a beginning of the other.
LEMMA TrimmedPrefix ==
  ASSUME NEW r \in Seq(Chars), NEW p \in Seq(Chars), p # <<>>, StartsWith(r, p)
  PROVE  StartsWith(FileTarget(r), HandlerPrefix(p)) /\ StartsWith(r, HandlerPrefix(p))
<1>1. \A u \in Seq(Chars) : u # <<>> =>
        /\ Len(Shorter(u)) = Len(u) - 1
        /\ \A n \in 1..(Len(u) - 1) : Shorter(u)[n] = u[n]
  BY ShorterByOne
<1>2. r # <<>> /\ Len(p) <= Len(r) /\ Len(p) >= 1 /\ \A n \in 1..Len(p) : r[n] = p[n]
  BY DEF StartsWith
<1>3. CASE EndsInSlash(p)
  <2>1. Len(HandlerPrefix(p)) = Len(p) - 1 /\ \A n \in 1..(Len(p) - 1) : HandlerPrefix(p)[n] = p[n]
    BY <1>1, <1>3 DEF HandlerPrefix
  <2>2. Len(FileTarget(r)) >= Len(r) - 1 /\ \A n \in 1..(Len(r) - 1) : FileTarget(r)[n] = r[n]
    BY <1>1, <1>2 DEF FileTarget
  <2>3. QED
    BY <1>2, <2>1, <2>2 DEF StartsWith
<1>4. CASE ~EndsInSlash(p)
  <2>1. HandlerPrefix(p) = p
    BY <1>4 DEF HandlerPrefix
  <2>2. CASE EndsInSlash(r)
    <3>1. Len(p) # Len(r)
      BY <1>2, <1>4, <2>2 DEF EndsInSlash
    <3>2. Len(FileTarget(r)) = Len(r) - 1 /\ \A n \in 1..(Len(r) - 1) : FileTarget(r)[n] = r[n]
      BY <1>1, <1>2, <2>2 DEF FileTarget
    <3>3. QED
      BY <1>2, <2>1, <3>1, <3>2 DEF StartsWith
  <2>3. CASE ~EndsInSlash(r)
    BY <2>1, <2>3 DEF FileTarget
  <2>4. QED
    BY <2>2, <2>3
<1>5. QED
  BY <1>3, <1>4

\* The substr calls of the file and the proxy handler never run out of range.
THEOREM SuffixTheorem == Spec => []SuffixInRange
<1>1. Inv => SuffixInRange
  <2> SUFFICES ASSUME Inv, stage = "decided", correct_handler # 0
               PROVE  /\ StartsWith(FileTarget(request), HandlerPrefix(urlToHandler[correct_handler]))
                      /\ StartsWith(request, HandlerPrefix(urlToHandler[correct_handler]))
    BY DEF SuffixInRange
  <2> DEFINE p == urlToHandler[correct_handler]
  <2>1. p \in Seq(Chars) /\ p # <<>>
    BY DEF Inv, TypeOK
  <2>2. Covers(p, target)
    BY DEF Inv, LongestPrefixWins, BestOf
  <2>3. request \in Targets /\ target = EraseQuery(request) \o Root
    BY DEF Inv, TargetOfRequest
  <2>4. StartsWith(request, p)
    BY <2>1, <2>2, <2>3, CoverIsPrefixOfRequest
  <2>5. request \in Seq(Chars)
    BY DEF Inv, TypeOK
  <2> HIDE DEF p
  <2>6. StartsWith(FileTarget(request), HandlerPrefix(p)) /\ StartsWith(request, HandlerPrefix(p))
    BY <2>1, <2>4, <2>5, TrimmedPrefix
  <2>7. QED
    BY <2>6 DEF p
<1>2. QED
  BY <1>1, Invariance, PTL

-----------------------------------------------------------------------------
(* The prefixes that handlers get                                          *)

\* What create_all_handlers makes of the URLs in the config, and the constructors
\* of the handlers of that, is empty or begins with a slash: Handlers assumes no
\* more of its prefixes.
PrefixesAreRooted ==
  \A n \in 1..Len(urlToHandler) :
    LET p == HandlerPrefix(urlToHandler[n]) IN p # <<>> => p[1] = Slash

\* Every handler in the table has such a prefix, whatever the config says.
THEOREM PrefixTheorem == Spec => []PrefixesAreRooted
<1>1. TypeOK => PrefixesAreRooted
  <2> SUFFICES ASSUME TypeOK, NEW n \in 1..Len(urlToHandler), HandlerPrefix(urlToHandler[n]) # <<>>
               PROVE  HandlerPrefix(urlToHandler[n])[1] = Slash
    BY DEF PrefixesAreRooted
  <2> DEFINE u == urlToHandler[n]
  <2>1. u \in Seq(Chars) /\ u # <<>> /\ u[1] = Slash
    BY DEF TypeOK
  <2>0. HandlerPrefix(u) # <<>>
    OBVIOUS
  <2> HIDE DEF u
  <2>2. CASE EndsInSlash(u)
    <3>1. Shorter(u) # <<>> /\ HandlerPrefix(u) = Shorter(u)
      BY <2>0, <2>2 DEF HandlerPrefix
    <3>2. Len(Shorter(u)) = Len(u) - 1 /\ \A k \in 1..(Len(u) - 1) : Shorter(u)[k] = u[k]
      BY <2>1, ShorterByOne
    <3>3. Len(u) \in Nat \ {0} /\ \A k \in 1..(Len(u) - 1) : u[k] \in Chars
      BY <2>1
    <3>4. Shorter(u) \in Seq(Chars)
      BY <3>3, SubSeqProperties DEF Shorter
    <3>5. 1 \in 1..(Len(u) - 1)
      BY <3>1, <3>2, <3>3, <3>4, EmptySeq
    <3>6. QED
      BY <2>1, <3>1, <3>2, <3>5 DEF u
  <2>3. CASE ~EndsInSlash(u)
    BY <2>1, <2>3 DEF HandlerPrefix, u
  <2>4. QED
    BY <2>2, <2>3
<1>2. QED
  BY <1>1, TypeCorrect, PTL
=============================================================================
