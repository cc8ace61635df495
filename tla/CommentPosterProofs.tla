------------------------- MODULE CommentPosterProofs -------------------------
(***************************************************************************)
(* Theorems about CommentPoster: whose comments are rewritten, how many    *)
(* c3x has, and what the last one shows, for any number of jobs, comments  *)
(* and pages, on every forge.                                              *)
(***************************************************************************)
EXTENDS CommentPoster, FiniteSetTheorems, WellFoundedInduction, TLAPS

-----------------------------------------------------------------------------
(* Lists of comments.                                                      *)

Records ==
    [id : Nat \ {0}, author : {"c3x", "user"}, marked : BOOLEAN, report : 0 .. NumJobs]

\* The place in the old list of what the new one has at k, 0 for the new comment.
InsertedFrom(k) ==
    IF forge = "gitlab" THEN k - 1 ELSE IF k = Len(comments) + 1 THEN 0 ELSE k

RemovedFrom(i, k) == IF k < i THEN k ELSE k + 1

\* A comment is put at one of the ends.
LEMMA InsertFacts ==
    ASSUME comments \in Seq(Records), NEW c \in Records
    PROVE  /\ Insert(c) \in Seq(Records) /\ Len(Insert(c)) = Len(comments) + 1
           /\ \A k \in 1 .. Len(comments) + 1 :
                /\ InsertedFrom(k) \in 0 .. Len(comments) /\ InsertedFrom(k) <= k
                /\ InsertedFrom(k) = 0 => Insert(c)[k] = c
                /\ InsertedFrom(k) # 0 => Insert(c)[k] = comments[InsertedFrom(k)]
<1>1. CASE forge = "gitlab"
  BY <1>1 DEF Insert, InsertedFrom
<1>2. CASE forge # "gitlab"
  BY <1>2 DEF Insert, InsertedFrom
<1> QED
  BY <1>1, <1>2

\* A comment is taken out.
LEMMA RemoveFacts ==
    ASSUME comments \in Seq(Records), NEW i \in DOMAIN comments
    PROVE  /\ RemoveAt(comments, i) \in Seq(Records)
           /\ Len(RemoveAt(comments, i)) = Len(comments) - 1
           /\ \A k \in 1 .. Len(comments) - 1 :
                /\ RemovedFrom(i, k) \in 1 .. Len(comments)
                /\ RemoveAt(comments, i)[k] = comments[RemovedFrom(i, k)]
<1> DEFINE a == SubSeq(comments, 1, i - 1)
           b == SubSeq(comments, i + 1, Len(comments))
<1>1. i \in 1 .. Len(comments) /\ Len(comments) \in Nat
  OBVIOUS
<1>2. /\ a \in Seq(Records) /\ Len(a) = i - 1
      /\ \A k \in 1 .. i - 1 : a[k] = comments[k]
  BY <1>1
<1>3. /\ b \in Seq(Records) /\ Len(b) = Len(comments) - i
      /\ \A k \in 1 .. Len(comments) - i : b[k] = comments[k + i]
  BY <1>1
<1>4. RemoveAt(comments, i) = a \o b
  BY DEF RemoveAt
<1> HIDE DEF a, b
<1> QED
  BY <1>1, <1>2, <1>3, <1>4 DEF RemovedFrom

-----------------------------------------------------------------------------
(* What a page shows.                                                      *)

\* A set of numbers has a least one.
LEMMA MinIsLeast ==
    ASSUME NEW S \in SUBSET Nat, S # {}
    PROVE  Min(S) \in S /\ \A w \in S : Min(S) <= w
<1>1. PICK d \in S : \A e \in S : ~(<<e, d>> \in OpToRel(<, Nat))
  BY NatLessThanWellFounded, WFMin
<1>2. \A e \in S : ~(e < d)
  BY <1>1 DEF OpToRel
<1>3. \A e \in S : d <= e
  BY <1>2
<1> QED
  BY <1>3 DEF Min

\* The search finds a comment with the marker, if the page has one.
LEMMA SearchFacts ==
    ASSUME NEW list \in Seq(Records)
    PROVE  LET i == SelectInSeq(list, Marked)
           IN  /\ i # 0 => i \in 1 .. Len(list) /\ Marked(list[i])
               /\ i = 0 => \A k \in 1 .. Len(list) : ~Marked(list[k])
<1> DEFINE I == {i \in 1 .. Len(list) : Marked(list[i])}
<1>1. SelectInSeq(list, Marked) = IF I # {} THEN Min(I) ELSE 0
  BY DEF SelectInSeq
<1>2. I # {} => Min(I) \in I
  BY MinIsLeast
<1> QED
  BY <1>1, <1>2

\* A page is a part of the list.
LEMMA PageFacts ==
    ASSUME comments \in Seq(Records), NEW n \in Nat \ {0}
    PROVE  LET first == (n - 1) * PageLength
               last == IF n * PageLength < Len(comments) THEN n * PageLength ELSE Len(comments)
           IN  /\ PageLength \in Nat /\ first \in Nat /\ n * PageLength \in Nat
               /\ n * PageLength = first + PageLength
               /\ Listed(n) \in Seq(Records)
               /\ Len(Listed(n)) = IF first < last THEN last - first ELSE 0
               /\ \A k \in 1 .. Len(Listed(n)) : /\ first + k \in 1 .. last
                                                /\ Listed(n)[k] = comments[first + k]
<1> DEFINE size == PageLength
           first == (n - 1) * PageLength
           end == n * PageLength
           last == IF end < Len(comments) THEN end ELSE Len(comments)
<1>1. size \in Nat
  BY SizeAssumption DEF PageLength
<1>2. first \in Nat /\ end \in Nat /\ end = first + size
  <2> HIDE DEF size
  <2>1. /\ (n - 1) * size \in Nat /\ n * size \in Nat
        /\ n * size = (n - 1) * size + size
    BY <1>1
  <2> QED
    BY <2>1 DEF size
<1>3. Listed(n) = SubSeq(comments, first + 1, last)
  BY DEF Listed
<1> HIDE DEF size, first, end
<1>4. last \in 0 .. Len(comments)
  BY <1>2
<1>5. /\ Listed(n) \in Seq(Records)
      /\ Len(Listed(n)) = IF first < last THEN last - first ELSE 0
      /\ \A k \in 1 .. Len(Listed(n)) : Listed(n)[k] = comments[first + k]
  <2> HIDE DEF last
  <2> QED
    BY <1>2, <1>3, <1>4
<1>6. \A k \in 1 .. Len(Listed(n)) : first + k \in 1 .. last
  BY <1>2, <1>4, <1>5
<1> QED
  BY <1>1, <1>2, <1>5, <1>6 DEF size, first, end

-----------------------------------------------------------------------------
(* Whose comments are rewritten.                                           *)

States == {"idle", "list", "create", "edit", "posted", "failed"}

ListInv ==
    /\ comments \in Seq(Records) /\ created \in Nat
    /\ \A i \in DOMAIN comments : comments[i].id <= created
    /\ \A i, k \in DOMAIN comments : comments[i].id = comments[k].id => i = k

JobsInv ==
    /\ pc \in [Jobs -> States]
    /\ page \in [Jobs -> Nat \ {0}] /\ found \in [Jobs -> Nat]

\* The comment of this identity, if there is one, is c3x's or a quote of one.
Own(id) ==
    /\ id <= created
    /\ \A i \in DOMAIN comments : comments[i].id = id => ByC3X(i) \/ Quoted(i)

\* What carries the marker is c3x's or a quote, ...
MarksInv ==
    /\ \A i \in DOMAIN comments : Marked(comments[i]) => ByC3X(i) \/ Quoted(i)
    /\ \A i \in DOMAIN comments : ByC3X(i) => Marked(comments[i])
    /\ OnlyQuotesTouched

\* ... and so is what has been found.
MarkInv ==
    /\ MarksInv
    /\ orderly \in BOOLEAN /\ (orderly => quoted = {})
    /\ \A j \in Jobs : pc[j] = "edit" => Own(found[j])

OwnInv == ListInv /\ JobsInv /\ MarkInv

LEMMA OwnInit == Init => OwnInv
BY DEF Init, OwnInv, ListInv, JobsInv, MarkInv, MarksInv, OnlyQuotesTouched, States

\* A comment that is new keeps all that.
LEMMA InsertKeeps ==
    ASSUME OwnInv, NEW author, NEW report \in 0 .. NumJobs, NEW marked \in BOOLEAN,
           \/ author = "c3x" /\ marked = TRUE
           \/ author = "user" /\ report = 0 /\ (marked => created + 1 \in quoted'),
           comments' = Insert(Comment(author, marked, report)), created' = created + 1,
           quoted \subseteq quoted'
    PROVE  /\ ListInv' /\ MarksInv'
           /\ \A id \in Nat : Own(id) => Own(id)'
<1> DEFINE c == Comment(author, marked, report)
<1>1. /\ c \in Records /\ c.id = created + 1 /\ c.author = author /\ c.report = report
      /\ Marked(c) <=> marked
  BY DEF Comment, Records, OwnInv, ListInv, Marked
<1>2. /\ comments' \in Seq(Records) /\ Len(comments') = Len(comments) + 1
      /\ \A k \in 1 .. Len(comments) + 1 :
           /\ InsertedFrom(k) \in 0 .. Len(comments) /\ InsertedFrom(k) <= k
           /\ InsertedFrom(k) = 0 => comments'[k] = c
           /\ InsertedFrom(k) # 0 => comments'[k] = comments[InsertedFrom(k)]
  BY <1>1, InsertFacts DEF OwnInv, ListInv
<1>3. \A k, l \in 1 .. Len(comments) + 1 : InsertedFrom(k) = InsertedFrom(l) => k = l
  BY DEF InsertedFrom, OwnInv, ListInv
<1> HIDE DEF c
<1>4. comments \in Seq(Records) /\ created \in Nat
  BY DEF OwnInv, ListInv
<1>5. DOMAIN comments' = 1 .. Len(comments) + 1 /\ DOMAIN comments = 1 .. Len(comments)
  BY <1>2, <1>4
<1>6. \A i \in DOMAIN comments : comments[i].id \in Nat /\ comments[i].id <= created
  <2>1. \A i \in DOMAIN comments : comments[i] \in Records
    BY <1>4
  <2> QED
    BY <2>1 DEF OwnInv, ListInv, Records
<1>7. ListInv'
  <2>1. \A k \in DOMAIN comments' : comments'[k].id <= created'
    BY <1>1, <1>2, <1>4, <1>5, <1>6
  <2>2. \A k, l \in DOMAIN comments' : comments'[k].id = comments'[l].id => k = l
    BY <1>1, <1>2, <1>3, <1>4, <1>5, <1>6 DEF OwnInv, ListInv
  <2> QED
    BY <1>2, <1>4, <2>1, <2>2 DEF ListInv
<1>8. ASSUME NEW k \in DOMAIN comments'
      PROVE  /\ Marked(comments[k])' => ByC3X(k)' \/ Quoted(k)'
             /\ ByC3X(k)' => Marked(comments[k])'
             /\ ByC3X(k)' \/ Quoted(k)' \/ comments'[k].report = 0
  <2>1. CASE InsertedFrom(k) = 0
    <3>1. comments'[k] = c
      BY <1>2, <1>5, <2>1
    <3> QED
      BY <1>1, <3>1 DEF Marked, ByC3X, Quoted
  <2>2. CASE InsertedFrom(k) # 0
    <3>1. InsertedFrom(k) \in DOMAIN comments /\ comments'[k] = comments[InsertedFrom(k)]
      BY <1>2, <1>4, <1>5, <2>2
    <3> QED
      BY <3>1 DEF OwnInv, MarkInv, MarksInv, OnlyQuotesTouched, Marked, ByC3X, Quoted
  <2> QED
    BY <2>1, <2>2
<1>9. MarksInv'
  BY <1>8 DEF MarksInv, OnlyQuotesTouched
<1>10. ASSUME NEW id \in Nat, Own(id) PROVE Own(id)'
  BY <1>1, <1>2, <1>4, <1>5, <1>10 DEF Own, ByC3X, Quoted
<1> QED
  BY <1>7, <1>9, <1>10

\* A comment that is deleted does, ...
LEMMA RemoveKeeps ==
    ASSUME OwnInv, NEW i \in DOMAIN comments, comments' = RemoveAt(comments, i),
           UNCHANGED <<created, quoted>>
    PROVE  /\ ListInv' /\ MarksInv'
           /\ \A id \in Nat : Own(id) => Own(id)'
<1>1. comments \in Seq(Records) /\ created \in Nat
  BY DEF OwnInv, ListInv
<1>2. /\ comments' \in Seq(Records) /\ DOMAIN comments' = 1 .. Len(comments) - 1
      /\ \A k \in DOMAIN comments' : /\ RemovedFrom(i, k) \in DOMAIN comments
                                    /\ comments'[k] = comments[RemovedFrom(i, k)]
  <2>1. /\ comments' \in Seq(Records) /\ Len(comments') = Len(comments) - 1
        /\ \A k \in 1 .. Len(comments) - 1 :
             /\ RemovedFrom(i, k) \in 1 .. Len(comments)
             /\ comments'[k] = comments[RemovedFrom(i, k)]
    BY <1>1, RemoveFacts
  <2> QED
    BY <1>1, <2>1
<1>3. \A k, l \in DOMAIN comments' : RemovedFrom(i, k) = RemovedFrom(i, l) => k = l
  BY <1>1, <1>2 DEF RemovedFrom
<1>4. ListInv'
  BY <1>1, <1>2, <1>3 DEF OwnInv, ListInv
<1>5. MarksInv'
  BY <1>2 DEF OwnInv, MarkInv, MarksInv, OnlyQuotesTouched, ByC3X, Quoted, Marked
<1>6. ASSUME NEW id \in Nat, Own(id) PROVE Own(id)'
  BY <1>2, <1>6 DEF Own, ByC3X, Quoted
<1> QED
  BY <1>4, <1>5, <1>6

\* ... and so does one that is rewritten.
LEMMA EditKeeps ==
    ASSUME OwnInv, NEW j \in Jobs, Edit(j), pc[j] = "edit"
    PROVE  /\ ListInv' /\ MarksInv'
           /\ \A id \in Nat : Own(id) => Own(id)'
           /\ DOMAIN comments' = DOMAIN comments /\ Len(comments') = Len(comments)
           /\ \A k \in DOMAIN comments :
                /\ comments'[k].id = comments[k].id /\ comments'[k].author = comments[k].author
                /\ comments[k].id = found[j] => comments'[k].report = j
<1>1. comments \in Seq(Records) /\ created \in Nat /\ UNCHANGED <<created, quoted>>
  BY DEF OwnInv, ListInv, Edit
<1> DEFINE new(k) == IF comments[k].id = found[j]
                     THEN [comments[k] EXCEPT !.marked = TRUE, !.report = j]
                     ELSE comments[k]
<1>2. \A k \in DOMAIN comments : comments[k] \in Records
  BY <1>1
<1>3. ASSUME NEW k \in DOMAIN comments
      PROVE  /\ new(k) \in Records /\ new(k).id = comments[k].id
             /\ new(k).author = comments[k].author
             /\ comments[k].id = found[j] => new(k).marked = TRUE /\ new(k).report = j
             /\ comments[k].id # found[j] => new(k) = comments[k]
  <2>1. comments[k] \in Records /\ j \in 0 .. NumJobs
    BY <1>2, <1>3, SizeAssumption DEF Jobs
  <2>2. CASE comments[k].id = found[j]
    <3> DEFINE r == comments[k]
    <3>1. new(k) = [r EXCEPT !.marked = TRUE, !.report = j]
      BY <2>2
    <3>2. r = [id |-> r.id, author |-> r.author, marked |-> r.marked, report |-> r.report]
      BY <2>1 DEF Records
    <3> HIDE DEF r
    <3>3. new(k) = [id |-> r.id, author |-> r.author, marked |-> TRUE, report |-> j]
      BY <3>1, <3>2
    <3> QED
      BY <2>1, <2>2, <3>3 DEF Records, r
  <2>3. CASE comments[k].id # found[j]
    BY <2>1, <2>3
  <2> QED
    BY <2>2, <2>3
<1>4. comments' = [k \in DOMAIN comments |-> new(k)]
  BY DEF Edit
<1> HIDE DEF new
<1>5. /\ comments' \in Seq(Records) /\ DOMAIN comments' = DOMAIN comments
      /\ Len(comments') = Len(comments) /\ \A k \in DOMAIN comments : comments'[k] = new(k)
  <2>1. DOMAIN comments = 1 .. Len(comments) /\ Len(comments) \in Nat
    BY <1>1
  <2>2. comments' = [k \in 1 .. Len(comments) |-> new(k)]
    BY <1>4, <2>1
  <2>3. comments' \in [1 .. Len(comments) -> Records]
    BY <1>3, <2>1, <2>2
  <2>4. comments' \in Seq(Records) /\ Len(comments') = Len(comments)
    BY <2>1, <2>3
  <2> QED
    BY <2>1, <2>2, <2>4
<1>6. \A k \in DOMAIN comments :
         /\ comments'[k].id = comments[k].id /\ comments'[k].author = comments[k].author
         /\ comments[k].id = found[j] => comments'[k].marked = TRUE /\ comments'[k].report = j
         /\ comments[k].id # found[j] => comments'[k] = comments[k]
  BY <1>3, <1>5
<1>7. Own(found[j])
  BY DEF OwnInv, MarkInv
<1>8. ListInv'
  <2>1. \A i \in DOMAIN comments : comments[i].id <= created
    BY DEF OwnInv, ListInv
  <2>2. \A i, k \in DOMAIN comments : comments[i].id = comments[k].id => i = k
    BY DEF OwnInv, ListInv
  <2> QED
    BY <1>1, <1>5, <1>6, <2>1, <2>2 DEF ListInv
<1>9. MarksInv'
  BY <1>1, <1>5, <1>6, <1>7
     DEF OwnInv, MarkInv, MarksInv, OnlyQuotesTouched, ByC3X, Quoted, Own, Marked
<1>10. ASSUME NEW id \in Nat, Own(id) PROVE Own(id)'
  BY <1>1, <1>5, <1>6, <1>10 DEF Own, ByC3X, Quoted
<1> QED
  BY <1>5, <1>6, <1>8, <1>9, <1>10

\* So does one that its author edits, ...
LEMMA UserEditKeeps ==
    ASSUME OwnInv, UserEdits
    PROVE  /\ ListInv' /\ MarksInv'
           /\ \A id \in Nat : Own(id) => Own(id)'
<1>1. comments \in Seq(Records) /\ created \in Nat /\ UNCHANGED created
  BY DEF OwnInv, ListInv, UserEdits
<1>2. PICK i \in DOMAIN comments, marked \in BOOLEAN :
          /\ ~ByC3X(i)
          /\ comments' = [comments EXCEPT ![i] = [@ EXCEPT !.marked = marked, !.report = 0]]
          /\ quoted' = quoted \cup (IF marked THEN {comments[i].id} ELSE {})
  BY Zenon DEF UserEdits
<1> DEFINE r == comments[i]
           new == [r EXCEPT !.marked = marked, !.report = 0]
<1>3. /\ new \in Records /\ new.id = r.id /\ new.author = r.author
      /\ new.marked = marked /\ new.report = 0
  <2>1. r \in Records /\ 0 \in 0 .. NumJobs
    BY <1>1, <1>2, SizeAssumption
  <2> HIDE DEF r
  <2> QED
    BY <1>2, <2>1 DEF Records
<1>4. comments' = [comments EXCEPT ![i] = new]
  BY <1>2
<1>5. /\ comments' \in Seq(Records) /\ DOMAIN comments' = DOMAIN comments
      /\ comments'[i] = new
      /\ \A k \in DOMAIN comments : k # i => comments'[k] = comments[k]
  <2> HIDE DEF new
  <2>1. DOMAIN comments = 1 .. Len(comments) /\ Len(comments) \in Nat
    BY <1>1
  <2>2. comments' \in [1 .. Len(comments) -> Records]
    BY <1>1, <1>3, <1>4, <2>1
  <2>3. comments' \in Seq(Records)
    BY <2>1, <2>2
  <2> QED
    BY <1>2, <1>4, <2>1, <2>2, <2>3
<1>6. /\ new.id = comments[i].id /\ new.author = comments[i].author
      /\ new.marked = marked /\ new.report = 0
      /\ quoted \subseteq quoted' /\ (marked => comments[i].id \in quoted')
  BY <1>2, <1>3
<1> HIDE DEF new, r
<1>7. ListInv'
  BY <1>1, <1>2, <1>5, <1>6 DEF OwnInv, ListInv
<1>8. MarksInv'
  BY <1>2, <1>5, <1>6
     DEF OwnInv, MarkInv, MarksInv, OnlyQuotesTouched, ByC3X, Quoted, Marked
<1>9. ASSUME NEW id \in Nat, Own(id) PROVE Own(id)'
  BY <1>1, <1>2, <1>5, <1>6, <1>9 DEF Own, ByC3X, Quoted
<1> QED
  BY <1>7, <1>8, <1>9

\* What is found is c3x's or a quote, and has the marker's place on the page.
LEMMA FoundIsOwn ==
    ASSUME OwnInv, NEW j \in Jobs, pc[j] = "list", SelectInSeq(Listed(page[j]), Marked) # 0
    PROVE  LET i == SelectInSeq(Listed(page[j]), Marked)
               id == Listed(page[j])[i].id
           IN  id \in Nat /\ Own(id)
<1> DEFINE n == page[j]
           i == SelectInSeq(Listed(n), Marked)
           first == (n - 1) * PageLength
<1>1. comments \in Seq(Records) /\ n \in Nat \ {0}
  BY DEF OwnInv, ListInv, JobsInv
<1>2. /\ Listed(n) \in Seq(Records) /\ first \in Nat
      /\ \A k \in 1 .. Len(Listed(n)) : /\ first + k \in 1 .. Len(comments)
                                       /\ Listed(n)[k] = comments[first + k]
  <2> DEFINE last == IF n * PageLength < Len(comments) THEN n * PageLength ELSE Len(comments)
  <2>1. /\ Listed(n) \in Seq(Records) /\ first \in Nat /\ n * PageLength \in Nat
        /\ \A k \in 1 .. Len(Listed(n)) : /\ first + k \in 1 .. last
                                         /\ Listed(n)[k] = comments[first + k]
    BY <1>1, PageFacts
  <2>2. last <= Len(comments) /\ last \in Nat
    BY <1>1, <2>1
  <2> HIDE DEF last, first
  <2> QED
    BY <1>1, <2>1, <2>2
<1>3. i \in 1 .. Len(Listed(n)) /\ Marked(Listed(n)[i])
  BY <1>2, SearchFacts
<1> HIDE DEF i, first, n
<1>4. PICK k \in DOMAIN comments : Listed(n)[i] = comments[k] /\ Marked(comments[k])
  BY <1>1, <1>2, <1>3
<1>5. (ByC3X(k) \/ Quoted(k)) /\ comments[k].id <= created
  BY <1>4 DEF OwnInv, MarkInv, MarksInv, ListInv
<1>6. comments[k].id \in Nat
  <2>1. comments[k] \in Records
    BY <1>1, <1>4
  <2> QED
    BY <2>1 DEF Records
<1>7. \A l \in DOMAIN comments : comments[l].id = comments[k].id => l = k
  BY <1>4 DEF OwnInv, ListInv
<1> QED
  BY <1>4, <1>5, <1>6, <1>7 DEF Own, Quoted, ByC3X, i, n

\* Each step keeps it.
LEMMA OwnStep ==
    ASSUME OwnInv, [Next]_vars
    PROVE  OwnInv'
<1>1. /\ comments \in Seq(Records) /\ created \in Nat /\ pc \in [Jobs -> States]
      /\ page \in [Jobs -> Nat \ {0}] /\ found \in [Jobs -> Nat]
  BY DEF OwnInv, ListInv, JobsInv
<1>2. \A j \in Jobs : pc[j] = "edit" => Own(found[j])
  BY DEF OwnInv, MarkInv
<1>3. ASSUME NEW j \in Jobs, Begin(j)  PROVE OwnInv'
  <2>1. /\ UNCHANGED <<orderly, comments, created, quoted>> /\ pc' = [pc EXCEPT ![j] = "list"]
        /\ page' = [page EXCEPT ![j] = 1] /\ found' = [found EXCEPT ![j] = 0]
    BY <1>3 DEF Begin, Goto, server
  <2>2. ListInv' /\ JobsInv'
    BY <1>1, <2>1 DEF OwnInv, ListInv, JobsInv, States
  <2>3. \A k \in Jobs : pc'[k] = "edit" => pc[k] = "edit" /\ found'[k] = found[k]
    BY <1>1, <2>1
  <2>4. MarkInv'
    BY <1>2, <2>1, <2>3
       DEF OwnInv, MarkInv, MarksInv, Marked, ByC3X, Quoted, OnlyQuotesTouched, Own
  <2> QED
    BY <2>2, <2>4 DEF OwnInv
<1>4. ASSUME NEW j \in Jobs, ListPage(j)  PROVE OwnInv'
  <2> DEFINE listed == Listed(page[j])
             i == SelectInSeq(listed, Marked)
  <2>1. UNCHANGED <<orderly, comments, created, quoted>> /\ pc[j] = "list"
    BY <1>4 DEF ListPage, server
  <2>2. i # 0 => listed[i].id \in Nat /\ Own(listed[i].id)
    BY <2>1, FoundIsOwn
  <2>3. \/ i # 0 /\ found' = [found EXCEPT ![j] = listed[i].id]
           /\ pc' = [pc EXCEPT ![j] = "edit"] /\ page' = page
        \/ pc' = [pc EXCEPT ![j] = "create"] /\ found' = found /\ page' = page
        \/ pc' = pc /\ found' = found /\ page' = [page EXCEPT ![j] = page[j] + 1]
    BY <1>4 DEF ListPage, Goto
  <2> HIDE DEF listed, i
  <2>4. ListInv' /\ JobsInv'
    <3>1. page[j] + 1 \in Nat \ {0}
      BY <1>1
    <3> QED
      BY <1>1, <2>1, <2>2, <2>3, <3>1 DEF OwnInv, ListInv, JobsInv, States
  <2>5. \A k \in Jobs : pc'[k] = "edit" => Own(found'[k])
    BY <1>1, <1>2, <2>1, <2>2, <2>3
  <2>6. MarkInv'
    BY <2>1, <2>5
       DEF OwnInv, MarkInv, MarksInv, Marked, ByC3X, Quoted, OnlyQuotesTouched, Own
  <2> QED
    BY <2>4, <2>6 DEF OwnInv
<1>5. ASSUME NEW j \in Jobs, Create(j) \/ Edit(j)  PROVE OwnInv'
  <2>1. /\ ListInv' /\ MarksInv' /\ (orderly => quoted' = {}) /\ orderly' = orderly
        /\ \A id \in Nat : Own(id) => Own(id)'
    <3>1. CASE Create(j)
      <4>1. /\ comments' = Insert(Comment("c3x", TRUE, j)) /\ created' = created + 1
            /\ j \in 0 .. NumJobs /\ quoted' = quoted /\ orderly' = orderly
        BY <3>1, SizeAssumption DEF Create, Jobs
      <4> QED
        BY <4>1, InsertKeeps DEF OwnInv, MarkInv
    <3>2. CASE Edit(j)
      BY <3>2, EditKeeps DEF Edit, OwnInv, MarkInv
    <3> QED
      BY <1>5, <3>1, <3>2
  <2>2. PICK l \in {"posted", "failed"} : pc' = [pc EXCEPT ![j] = l]
    BY <1>5 DEF Create, Edit, Goto
  <2>3. UNCHANGED <<page, found>>
    BY <1>5 DEF Create, Edit
  <2>4. JobsInv'
    BY <1>1, <2>2, <2>3 DEF JobsInv, States
  <2>5. ASSUME NEW k \in Jobs, pc'[k] = "edit"  PROVE Own(found[k])'
    <3>1. pc[k] = "edit"
      BY <1>1, <2>2, <2>5
    <3>2. PICK id \in Nat : id = found[k]
      BY <1>1
    <3>3. Own(id)
      BY <1>2, <3>1, <3>2
    <3> QED
      BY <2>1, <2>3, <3>2, <3>3
  <2> QED
    BY <2>1, <2>4, <2>5 DEF OwnInv, MarkInv
<1>6. ASSUME NEW j \in Jobs, EditGone(j) \/ RequestFails(j)  PROVE OwnInv'
  <2>1. /\ UNCHANGED <<orderly, comments, created, quoted, page, found>>
        /\ pc' = [pc EXCEPT ![j] = "failed"]
    BY <1>6 DEF EditGone, RequestFails, Goto, server
  <2>2. ListInv' /\ JobsInv'
    BY <1>1, <2>1 DEF OwnInv, ListInv, JobsInv, States
  <2>3. \A k \in Jobs : pc'[k] = "edit" => pc[k] = "edit"
    BY <1>1, <2>1
  <2> QED
    BY <1>2, <2>1, <2>2, <2>3
       DEF OwnInv, MarkInv, MarksInv, Marked, ByC3X, Quoted, OnlyQuotesTouched, Own
<1>7. ASSUME UserComments \/ UserEdits \/ CommentDeleted  PROVE OwnInv'
  <2>1. /\ ListInv' /\ MarksInv' /\ (orderly => quoted' = {}) /\ orderly' = orderly
        /\ \A id \in Nat : Own(id) => Own(id)'
    <3>1. CASE UserComments
      <4>1. PICK marked \in {FALSE, ~orderly} :
                /\ comments' = Insert(Comment("user", marked, 0))
                /\ quoted' = quoted \cup (IF marked THEN {created + 1} ELSE {})
        BY <3>1, Zenon DEF UserComments
      <4>2. /\ created' = created + 1 /\ 0 \in 0 .. NumJobs /\ marked \in BOOLEAN
            /\ quoted \subseteq quoted' /\ (marked => created + 1 \in quoted')
        <5>1. created' = created + 1 /\ 0 \in 0 .. NumJobs
          BY <3>1, SizeAssumption DEF UserComments
        <5>2. marked \in BOOLEAN
          BY DEF OwnInv, MarkInv
        <5>3. quoted \subseteq quoted' /\ (marked => created + 1 \in quoted')
          BY <4>1
        <5> QED
          BY <5>1, <5>2, <5>3
      <4>3. (orderly => quoted' = {}) /\ orderly' = orderly
        <5>1. orderly => marked = FALSE
          BY <4>1
        <5> QED
          BY <3>1, <4>1, <5>1 DEF UserComments, OwnInv, MarkInv
      <4> QED
        BY <4>1, <4>2, <4>3, InsertKeeps
    <3>2. CASE UserEdits
      BY <3>2, UserEditKeeps DEF UserEdits, OwnInv, MarkInv
    <3>3. CASE CommentDeleted
      BY <3>3, RemoveKeeps DEF CommentDeleted, OwnInv, MarkInv
    <3> QED
      BY <1>7, <3>1, <3>2, <3>3
  <2>2. UNCHANGED <<pc, page, found>>
    BY <1>7 DEF UserComments, UserEdits, CommentDeleted
  <2>3. JobsInv'
    BY <1>1, <2>2 DEF JobsInv
  <2>4. ASSUME NEW k \in Jobs, pc'[k] = "edit"  PROVE Own(found[k])'
    <3>1. PICK id \in Nat : id = found[k]
      BY <1>1
    <3>2. Own(id)
      BY <1>2, <2>2, <2>4, <3>1
    <3> QED
      BY <2>1, <2>2, <3>1, <3>2
  <2> QED
    BY <2>1, <2>3, <2>4 DEF OwnInv, MarkInv
<1>8. CASE UNCHANGED vars
  BY <1>8 DEF vars, server, OwnInv, ListInv, JobsInv, MarkInv, MarksInv, Marked, ByC3X,
              Quoted, OnlyQuotesTouched, Own
<1> QED
  BY <1>3, <1>4, <1>5, <1>6, <1>7, <1>8 DEF Next, Proceed

\* Whatever any number of jobs do at the same time, wherever they fail, and
\* whatever else is commented, edited and deleted: a comment of another
\* person's is rewritten only if somebody once wrote the marker into it.
THEOREM OthersCorrect == Spec => []OnlyQuotesTouched
<1>1. Init => OwnInv
  BY OwnInit
<1>2. OwnInv /\ [Next]_vars => OwnInv'
  BY OwnStep
<1>3. OwnInv => OnlyQuotesTouched
  BY DEF OwnInv, MarkInv, MarksInv
<1> QED
  BY <1>1, <1>2, <1>3, PTL DEF Spec

-----------------------------------------------------------------------------
(* How many comments c3x has, and what the last one shows, when the jobs   *)
(* run one after another and other people only add to the list.            *)

\* The pages that GitLab and Bitbucket walk hold all comments there are.
Capacity ==
    Forges \cap {"gitlab", "bitbucket"} # {} => MaxComments <= PageLimit * PageSize

Orderly == orderly /\ Capacity

InOrder ==
    \A j, k \in Jobs : k < j /\ pc[j] # "idle" => pc[k] \in {"posted", "failed"}

Room ==
    /\ forge \in Forges
    /\ Len(comments) <= created /\ created <= MaxComments
    /\ \A j \in Jobs : Running(j) => created < MaxComments

\* The pages a job has seen show no comment of c3x's, and at the end no page does.
Searched(j) ==
    /\ pc[j] = "list" =>
          \A i \in DOMAIN comments : ByC3X(i) => i > (page[j] - 1) * PageLength
    /\ pc[j] = "create" => \A i \in DOMAIN comments : ~ByC3X(i)

OrderInv ==
    OwnInv /\ InOrder /\ Room /\ OneComment /\ ShowsLast /\ \A j \in Jobs : Searched(j)

LEMMA OrderInit == Init => OrderInv
<1> SUFFICES ASSUME Init PROVE OrderInv
  OBVIOUS
<1>1. /\ comments = <<>> /\ created = 0 /\ forge \in Forges
      /\ \A j \in Jobs : pc[j] = "idle"
  BY DEF Init
<1>2. OwnInv
  BY OwnInit
<1>3. InOrder /\ Room /\ OneComment /\ ShowsLast
  BY <1>1, SizeAssumption DEF InOrder, Room, Running, OneComment, ShowsLast
<1>4. \A j \in Jobs : Searched(j)
  BY <1>1 DEF Searched
<1> QED
  BY <1>2, <1>3, <1>4 DEF OrderInv

\* What is taken for the last page is the last.
LEMMA LastPageCovers ==
    ASSUME Orderly, Room, comments \in Seq(Records), created \in Nat,
           NEW n \in Nat \ {0}, LastPage(n)
    PROVE  Len(comments) <= n * PageLength
<1> DEFINE first == (n - 1) * PageLength
           end == n * PageLength
           last == IF end < Len(comments) THEN end ELSE Len(comments)
<1>1. /\ PageLength \in Nat /\ first \in Nat /\ end \in Nat /\ end = first + PageLength
      /\ Len(Listed(n)) = IF first < last THEN last - first ELSE 0
  BY PageFacts
<1>2. Len(comments) \in Nat
  OBVIOUS
<1>3. CASE forge \in {"gitlab", "bitbucket"} /\ n >= PageLimit
  <2>1. Len(comments) <= PageLimit * PageSize /\ PageLength = PageSize
    <3>1. MaxComments <= PageLimit * PageSize
      BY <1>3 DEF Orderly, Capacity, Room
    <3>2. PageLimit * PageSize \in Nat
      BY SizeAssumption
    <3> HIDE DEF first, end
    <3> QED
      BY <1>2, <1>3, <3>1, <3>2, SizeAssumption DEF Room, PageLength
  <2>2. \A a, b, c \in Nat : a >= b => a * c >= b * c
    OBVIOUS
  <2>3. n * PageSize >= PageLimit * PageSize
    BY <1>3, <2>2, SizeAssumption
  <2> DEFINE x == n * PageSize
             y == PageLimit * PageSize
  <2>4. x \in Nat /\ y \in Nat /\ x >= y /\ Len(comments) <= y
    BY <2>1, <2>3, SizeAssumption
  <2> HIDE DEF x, y
  <2>5. Len(comments) <= x
    BY <1>2, <2>4
  <2> QED
    BY <2>1, <2>5 DEF x
<1>4. CASE forge = "gitlab" /\ Len(Listed(n)) < PageLength
  <2> HIDE DEF first, end
  <2>1. Len(comments) <= end
    BY <1>1, <1>2, <1>4
  <2> QED
    BY <2>1 DEF end
<1>5. CASE n * PageLength >= Len(comments)
  BY <1>1, <1>2, <1>5
<1> QED
  BY <1>3, <1>4, <1>5 DEF LastPage

\* A page without the marker is one without a comment of c3x's.
LEMMA PageSearched ==
    ASSUME OwnInv, NEW n \in Nat \ {0}, SelectInSeq(Listed(n), Marked) = 0,
           \A i \in DOMAIN comments : ByC3X(i) => i > (n - 1) * PageLength
    PROVE  \A i \in DOMAIN comments : ByC3X(i) => i > n * PageLength
<1> DEFINE first == (n - 1) * PageLength
           end == n * PageLength
           last == IF end < Len(comments) THEN end ELSE Len(comments)
<1>1. comments \in Seq(Records)
  BY DEF OwnInv, ListInv
<1>2. /\ PageLength \in Nat /\ first \in Nat /\ end \in Nat /\ end = first + PageLength
      /\ Listed(n) \in Seq(Records)
      /\ Len(Listed(n)) = IF first < last THEN last - first ELSE 0
      /\ \A k \in 1 .. Len(Listed(n)) : Listed(n)[k] = comments[first + k]
  BY <1>1, PageFacts
<1>3. \A k \in 1 .. Len(Listed(n)) : ~Marked(Listed(n)[k])
  BY <1>2, SearchFacts
<1> SUFFICES ASSUME NEW i \in DOMAIN comments, ByC3X(i), ~(i > end) PROVE FALSE
  OBVIOUS
<1>4. i > first
  OBVIOUS
<1> HIDE DEF first, end
<1>5. i \in 1 .. Len(comments) /\ Len(comments) \in Nat
  BY <1>1
<1>6. i - first \in 1 .. Len(Listed(n)) /\ first + (i - first) = i
  BY <1>2, <1>4, <1>5
<1>7. ~Marked(comments[i])
  BY <1>2, <1>3, <1>6
<1> QED
  BY <1>7 DEF OwnInv, MarkInv, MarksInv

\* While a job runs it is the only one, and no other can claim to be the last.
LEMMA OnlyRunner ==
    ASSUME InOrder, NEW j \in Jobs, Running(j), NEW l \in States \ {"idle"},
           pc \in [Jobs -> States], pc' = [pc EXCEPT ![j] = l]
    PROVE  /\ InOrder'
           /\ \A k \in Jobs : k # j => ~Running(k) /\ ~Running(k)'
           /\ \A k \in Jobs : pc'[k] = "posted" /\ (\A m \in Jobs : m > k => pc'[m] = "idle")
                                => k = j
<1>1. Jobs \subseteq Int
  BY DEF Jobs
<1>2. \A k \in Jobs : k # j => k < j \/ k > j
  BY <1>1
<1>3. \A k \in Jobs : k > j => pc[k] = "idle"
  BY <1>1 DEF InOrder, Running
<1>4. \A k \in Jobs : k < j => pc[k] \in {"posted", "failed"}
  BY <1>1 DEF InOrder, Running
<1>5. \A k \in Jobs : k # j => pc'[k] = pc[k]
  OBVIOUS
<1>6. pc'[j] = l /\ l # "idle"
  OBVIOUS
<1>7. InOrder'
  BY <1>1, <1>2, <1>3, <1>4, <1>5, <1>6 DEF InOrder
<1>8. \A k \in Jobs : k # j => ~Running(k) /\ ~Running(k)'
  BY <1>2, <1>3, <1>4, <1>5 DEF Running
<1>9. \A k \in Jobs : pc'[k] = "posted" /\ (\A m \in Jobs : m > k => pc'[m] = "idle") => k = j
  BY <1>1, <1>2, <1>3, <1>5, <1>6
<1> QED
  BY <1>7, <1>8, <1>9

\* A job begins when no other runs.
LEMMA BeginKeeps ==
    ASSUME Orderly, OrderInv, OwnInv', NEW j \in Jobs, Begin(j)
    PROVE  OrderInv'
<1>1. /\ UNCHANGED <<orderly, forge, comments, created>> /\ pc' = [pc EXCEPT ![j] = "list"]
      /\ page' = [page EXCEPT ![j] = 1]
      /\ \A k \in Jobs : k < j => pc[k] \in {"posted", "failed"}
      /\ \A k \in Jobs : k > j => pc[k] = "idle"
  BY DEF Begin, Goto, server, Orderly
<1>2. /\ pc \in [Jobs -> States] /\ page \in [Jobs -> Nat \ {0}] /\ created \in Nat
      /\ comments \in Seq(Records)
  BY DEF OrderInv, OwnInv, JobsInv, ListInv
<1>3. Jobs \subseteq Int /\ \A k \in Jobs : k # j => k < j \/ k > j
  BY DEF Jobs
<1>4. created < MaxComments
  <2> DEFINE R == {k \in Jobs : Running(k)}
  <2>1. IsFiniteSet(R)
    <3>1. IsFiniteSet(Jobs)
      BY FS_Interval, SizeAssumption DEF Jobs
    <3>2. R \in SUBSET Jobs
      OBVIOUS
    <3> HIDE DEF R
    <3> QED
      BY <3>1, <3>2, FS_Subset
  <2>2. Cardinality(R) \in Nat
    BY <2>1, FS_CardinalityType
  <2>3. created + Cardinality(R) < MaxComments
    BY DEF Begin, Bound, Orderly
  <2> HIDE DEF R
  <2> QED
    BY <1>2, <2>2, <2>3, SizeAssumption
<1>5. InOrder'
  BY <1>1, <1>2, <1>3 DEF InOrder
<1>6. Room' /\ OneComment'
  BY <1>1, <1>4 DEF OrderInv, Room, OneComment, ByC3X
<1>7. ShowsLast'
  BY <1>1, <1>2, <1>3 DEF OrderInv, ShowsLast, ByC3X
<1>8. ASSUME NEW k \in Jobs  PROVE Searched(k)'
  <2>1. PageLength' = PageLength /\ PageLength \in Nat
    BY <1>1, SizeAssumption DEF PageLength
  <2>2. CASE k = j
    <3>1. pc'[k] = "list" /\ page'[k] = 1
      BY <1>1, <1>2, <2>2
    <3>2. (page'[k] - 1) * PageLength' = 0
      <4>1. (1 - 1) * PageLength = 0
        BY <2>1
      <4> QED
        BY <2>1, <3>1, <4>1
    <3>3. \A i \in DOMAIN comments : i > 0
      BY <1>2
    <3> QED
      BY <1>1, <3>1, <3>2, <3>3 DEF Searched, ByC3X
  <2>3. CASE k # j
    <3>1. pc'[k] \notin {"list", "create"}
      BY <1>1, <1>2, <1>3, <2>3
    <3> QED
      BY <3>1 DEF Searched
  <2> QED
    BY <2>2, <2>3
<1> QED
  BY <1>5, <1>6, <1>7, <1>8 DEF OrderInv

\* So it does when it has read a page.
LEMMA ListPageKeeps ==
    ASSUME Orderly, OrderInv, OwnInv', NEW j \in Jobs, ListPage(j)
    PROVE  OrderInv'
<1> DEFINE n == page[j]
           i == SelectInSeq(Listed(n), Marked)
<1>1. /\ pc \in [Jobs -> States] /\ page \in [Jobs -> Nat \ {0}] /\ created \in Nat
      /\ comments \in Seq(Records) /\ OwnInv /\ InOrder /\ Room /\ Searched(j)
  BY DEF OrderInv, OwnInv, JobsInv, ListInv
<1>2. UNCHANGED <<orderly, forge, comments, created>> /\ pc[j] = "list" /\ Running(j)
  BY DEF ListPage, server, Running
<1>3. \/ pc' = [pc EXCEPT ![j] = "edit"] /\ page' = page
      \/ i = 0 /\ LastPage(n) /\ pc' = [pc EXCEPT ![j] = "create"] /\ page' = page
      \/ i = 0 /\ pc' = [pc EXCEPT ![j] = "list"] /\ page' = [page EXCEPT ![j] = n + 1]
  <2>1. pc[j] = "list" => pc = [pc EXCEPT ![j] = "list"]
    BY <1>1
  <2> QED
    BY <1>2, <2>1 DEF ListPage, Goto
<1>4. PICK l \in {"edit", "create", "list"} : pc' = [pc EXCEPT ![j] = l]
  BY <1>3
<1>5. /\ InOrder'
      /\ \A k \in Jobs : k # j => ~Running(k) /\ ~Running(k)'
      /\ \A k \in Jobs : pc'[k] = "posted" /\ (\A m \in Jobs : m > k => pc'[m] = "idle")
                           => k = j
  <2>1. l \in States \ {"idle"}
    BY DEF States
  <2> QED
    BY <1>1, <1>2, <1>4, <2>1, OnlyRunner
<1>6. pc'[j] = l /\ Running(j)'
  BY <1>1, <1>4 DEF Running
<1>7. Room' /\ OneComment'
  <2>1. \A k \in Jobs : Running(k)' => Running(k)
    BY <1>2, <1>5
  <2> QED
    BY <1>2, <2>1 DEF OrderInv, Room, OneComment, ByC3X
<1>8. ShowsLast'
  BY <1>5, <1>6 DEF ShowsLast
<1>9. Searched(j)'
  <2>1. PageLength' = PageLength /\ n \in Nat \ {0} /\ PageLength \in Nat
    BY <1>1, <1>2, SizeAssumption DEF PageLength
  <2>2. \A k \in DOMAIN comments : ByC3X(k) => k > (n - 1) * PageLength
    BY <1>1, <1>2 DEF Searched
  <2> HIDE DEF i
  <2>3. i = 0 => \A k \in DOMAIN comments : ByC3X(k) => k > n * PageLength
    BY <1>1, <2>1, <2>2, PageSearched DEF i
  <2>4. CASE pc'[j] = "edit"
    BY <2>4 DEF Searched
  <2>5. CASE pc'[j] = "create"
    <3>1. i = 0 /\ LastPage(n)
      BY <1>1, <1>3, <2>5
    <3>2. Len(comments) <= n * PageLength
      BY <1>1, <2>1, <3>1, LastPageCovers
    <3> DEFINE end == n * PageLength
    <3>3. end \in Nat /\ Len(comments) <= end
          /\ \A k \in DOMAIN comments : ByC3X(k) => k > end
      BY <2>1, <2>3, <3>1, <3>2
    <3> HIDE DEF end
    <3>4. \A k \in DOMAIN comments : ~ByC3X(k)
      BY <1>1, <3>3
    <3> QED
      BY <1>2, <2>5, <3>4 DEF Searched, ByC3X
  <2>6. CASE pc'[j] = "list"
    <3>1. i = 0 /\ page'[j] = n + 1
      BY <1>1, <1>3, <2>6
    <3>2. (page'[j] - 1) * PageLength' = n * PageLength
      <4>1. page'[j] - 1 = n
        BY <2>1, <3>1
      <4> QED
        BY <2>1, <4>1
    <3> QED
      BY <1>2, <2>3, <2>6, <3>1, <3>2 DEF Searched, ByC3X
  <2> QED
    BY <1>6, <2>4, <2>5, <2>6
<1>10. \A k \in Jobs : k # j => Searched(k)'
  BY <1>5 DEF Searched, Running
<1> QED
  BY <1>5, <1>7, <1>8, <1>9, <1>10 DEF OrderInv

\* A comment is created when there is none, ...
LEMMA CreateKeeps ==
    ASSUME Orderly, OrderInv, OwnInv', NEW j \in Jobs, Create(j)
    PROVE  OrderInv'
<1>1. /\ pc \in [Jobs -> States] /\ created \in Nat /\ comments \in Seq(Records)
      /\ InOrder /\ Room /\ \A k \in DOMAIN comments : ~ByC3X(k)
  BY DEF OrderInv, OwnInv, JobsInv, ListInv, Create, Searched
<1>2. /\ UNCHANGED <<orderly, forge, page>> /\ pc[j] = "create" /\ Running(j)
      /\ created' = created + 1 /\ comments' = Insert(Comment("c3x", TRUE, j))
  BY DEF Create, Running
<1>3. PICK l \in {"posted", "failed"} : pc' = [pc EXCEPT ![j] = l]
  BY DEF Create, Goto
<1>4. /\ InOrder'
      /\ \A k \in Jobs : k # j => ~Running(k) /\ ~Running(k)'
      /\ \A k \in Jobs : pc'[k] = "posted" /\ (\A m \in Jobs : m > k => pc'[m] = "idle")
                           => k = j
  <2>1. l \in States \ {"idle"}
    BY DEF States
  <2> QED
    BY <1>1, <1>2, <1>3, <2>1, OnlyRunner
<1>5. \A k \in Jobs : ~Running(k)'
  <2>1. ~Running(j)'
    BY <1>1, <1>3 DEF Running
  <2> QED
    BY <1>4, <2>1
<1> DEFINE c == Comment("c3x", TRUE, j)
<1>6. c \in Records /\ c.author = "c3x" /\ c.report = j
  BY <1>1, SizeAssumption DEF Comment, Records, Jobs
<1> HIDE DEF c
<1>7. /\ Len(comments') = Len(comments) + 1 /\ DOMAIN comments' = 1 .. Len(comments) + 1
      /\ \A k \in DOMAIN comments' :
           /\ InsertedFrom(k) \in 0 .. Len(comments)
           /\ InsertedFrom(k) = 0 => comments'[k] = c
           /\ InsertedFrom(k) # 0 => comments'[k] = comments[InsertedFrom(k)]
  <2>1. comments' = Insert(c)
    BY <1>2 DEF c
  <2>2. /\ comments' \in Seq(Records) /\ Len(comments') = Len(comments) + 1
        /\ \A k \in 1 .. Len(comments) + 1 :
             /\ InsertedFrom(k) \in 0 .. Len(comments)
             /\ InsertedFrom(k) = 0 => comments'[k] = c
             /\ InsertedFrom(k) # 0 => comments'[k] = comments[InsertedFrom(k)]
    BY <1>1, <1>6, <2>1, InsertFacts
  <2>3. DOMAIN comments' = 1 .. Len(comments) + 1
    BY <1>1, <2>2
  <2> QED
    BY <2>2, <2>3
<1>8. \A k \in DOMAIN comments' : ByC3X(k)' => InsertedFrom(k) = 0 /\ comments'[k].report = j
  <2>1. \A k \in DOMAIN comments' : InsertedFrom(k) # 0 => InsertedFrom(k) \in DOMAIN comments
    BY <1>1, <1>7
  <2> QED
    BY <1>1, <1>6, <1>7, <2>1 DEF ByC3X
<1>9. OneComment'
  <2>1. \A k, m \in DOMAIN comments' : InsertedFrom(k) = 0 /\ InsertedFrom(m) = 0 => k = m
    BY <1>1, <1>7 DEF InsertedFrom
  <2> QED
    BY <1>8, <2>1 DEF OneComment
<1>10. ShowsLast'
  BY <1>4, <1>8 DEF ShowsLast
<1>11. Room'
  <2>1. created < MaxComments /\ Len(comments) <= created /\ Len(comments) \in Nat
    BY <1>1, <1>2 DEF Room
  <2>2. Len(comments') <= created' /\ created' <= MaxComments
    <3>1. Len(comments') = Len(comments) + 1 /\ created' = created + 1
      BY <1>2, <1>7
    <3>2. created \in Nat /\ MaxComments \in Nat
      BY <1>1, SizeAssumption
    <3>3. Len(comments) + 1 <= created + 1 /\ created + 1 <= MaxComments
      BY <2>1, <3>2
    <3> QED
      BY <3>1, <3>3
  <2>3. forge' \in Forges
    BY <1>1, <1>2 DEF Room
  <2> QED
    BY <1>5, <2>2, <2>3 DEF Room
<1>12. \A k \in Jobs : Searched(k)'
  BY <1>5 DEF Searched, Running
<1> QED
  BY <1>4, <1>9, <1>10, <1>11, <1>12 DEF OrderInv

\* ... the only one is edited, ...
LEMMA OrderEditKeeps ==
    ASSUME Orderly, OrderInv, OwnInv', NEW j \in Jobs, Edit(j)
    PROVE  OrderInv'
<1>1. /\ pc \in [Jobs -> States] /\ created \in Nat /\ comments \in Seq(Records)
      /\ InOrder /\ Room /\ OneComment /\ OwnInv /\ Own(found[j])
  BY DEF OrderInv, OwnInv, JobsInv, ListInv, MarkInv, Edit
<1>2. UNCHANGED <<orderly, forge, page, created>> /\ pc[j] = "edit" /\ Running(j)
  BY DEF Edit, Running
<1>3. PICK l \in {"posted", "failed"} : pc' = [pc EXCEPT ![j] = l]
  BY DEF Edit, Goto
<1>4. /\ InOrder'
      /\ \A k \in Jobs : k # j => ~Running(k) /\ ~Running(k)'
      /\ \A k \in Jobs : pc'[k] = "posted" /\ (\A m \in Jobs : m > k => pc'[m] = "idle")
                           => k = j
  <2>1. l \in States \ {"idle"}
    BY DEF States
  <2> QED
    BY <1>1, <1>2, <1>3, <2>1, OnlyRunner
<1>5. \A k \in Jobs : ~Running(k)'
  <2>1. ~Running(j)'
    BY <1>1, <1>3 DEF Running
  <2> QED
    BY <1>4, <2>1
<1>6. /\ DOMAIN comments' = DOMAIN comments /\ Len(comments') = Len(comments)
      /\ \A k \in DOMAIN comments :
           /\ comments'[k].author = comments[k].author
           /\ comments[k].id = found[j] => comments'[k].report = j
  BY <1>1, <1>2, EditKeeps
<1>7. PICK e \in DOMAIN comments : comments[e].id = found[j]
  BY DEF Edit, Exists
<1>8. ByC3X(e)
  BY <1>1, <1>7 DEF Own, Quoted, OwnInv, MarkInv, Orderly
<1>9. \A k \in DOMAIN comments' : ByC3X(k)' => k = e
  BY <1>1, <1>6, <1>8 DEF OneComment, ByC3X, Orderly
<1>10. OneComment'
  BY <1>9 DEF OneComment
<1>11. ShowsLast'
  BY <1>4, <1>6, <1>7, <1>9 DEF ShowsLast
<1>12. Room'
  BY <1>1, <1>2, <1>5, <1>6 DEF Room
<1>13. \A k \in Jobs : Searched(k)'
  BY <1>5 DEF Searched, Running
<1> QED
  BY <1>4, <1>10, <1>11, <1>12, <1>13 DEF OrderInv

\* ... and a request that fails changes nothing.
LEMMA FailureKeeps ==
    ASSUME Orderly, OrderInv, OwnInv', NEW j \in Jobs, EditGone(j) \/ RequestFails(j)
    PROVE  OrderInv'
<1>1. pc \in [Jobs -> States] /\ InOrder /\ Room
  BY DEF OrderInv, OwnInv, JobsInv
<1>2. /\ UNCHANGED <<orderly, forge, comments, created>> /\ Running(j)
      /\ pc' = [pc EXCEPT ![j] = "failed"]
  BY DEF EditGone, RequestFails, Running, Goto, server
<1>3. /\ InOrder'
      /\ \A k \in Jobs : k # j => ~Running(k) /\ ~Running(k)'
      /\ \A k \in Jobs : pc'[k] = "posted" /\ (\A m \in Jobs : m > k => pc'[m] = "idle")
                           => k = j
  <2>1. "failed" \in States \ {"idle"}
    BY DEF States
  <2> QED
    BY <1>1, <1>2, <2>1, OnlyRunner
<1>4. \A k \in Jobs : ~Running(k)' /\ pc'[j] = "failed"
  BY <1>1, <1>2, <1>3 DEF Running
<1>5. Room' /\ OneComment'
  BY <1>2, <1>4 DEF OrderInv, Room, OneComment, ByC3X
<1>6. ShowsLast' /\ \A k \in Jobs : Searched(k)'
  BY <1>3, <1>4 DEF ShowsLast, Searched, Running
<1> QED
  BY <1>3, <1>5, <1>6 DEF OrderInv

\* Other people's comments only push c3x's further down the list.
LEMMA UserKeeps ==
    ASSUME Orderly, OrderInv, OwnInv', UserComments
    PROVE  OrderInv'
<1>1. /\ page \in [Jobs -> Nat \ {0}] /\ created \in Nat /\ comments \in Seq(Records)
      /\ created' \in Nat /\ comments' \in Seq(Records)
      /\ InOrder /\ Room /\ OneComment /\ ShowsLast
  BY DEF OrderInv, OwnInv, JobsInv, ListInv
<1>2. UNCHANGED <<orderly, forge, pc, page>> /\ created' = created + 1 /\ created + 1 < MaxComments
  BY DEF UserComments, Bound, Orderly
<1>3. PICK marked \in {FALSE, ~orderly} :
          /\ comments' = Insert(Comment("user", marked, 0))
          /\ quoted' = quoted \cup (IF marked THEN {created + 1} ELSE {})
  BY Zenon DEF UserComments
<1> DEFINE c == Comment("user", marked, 0)
<1>4. c \in Records /\ c.author = "user"
  <2>1. marked \in BOOLEAN
    BY DEF OrderInv, OwnInv, MarkInv
  <2> QED
    BY <1>1, <2>1, SizeAssumption DEF Comment, Records
<1>5. comments' = Insert(c)
  BY <1>3
<1> HIDE DEF c
<1>6. /\ Len(comments') = Len(comments) + 1 /\ DOMAIN comments' = 1 .. Len(comments) + 1
      /\ \A k \in DOMAIN comments' : InsertedFrom(k) \in 0 .. Len(comments)
                                     /\ InsertedFrom(k) <= k
      /\ \A k \in DOMAIN comments' : ByC3X(k)' =>
           /\ InsertedFrom(k) \in DOMAIN comments /\ ByC3X(InsertedFrom(k))
           /\ comments'[k].report = comments[InsertedFrom(k)].report
  <2>1. /\ Len(comments') = Len(comments) + 1
        /\ \A k \in 1 .. Len(comments) + 1 :
             /\ InsertedFrom(k) \in 0 .. Len(comments) /\ InsertedFrom(k) <= k
             /\ InsertedFrom(k) = 0 => comments'[k] = c
             /\ InsertedFrom(k) # 0 => comments'[k] = comments[InsertedFrom(k)]
    BY <1>1, <1>4, <1>5, InsertFacts
  <2>2. /\ DOMAIN comments' = 1 .. Len(comments) + 1
        /\ DOMAIN comments = 1 .. Len(comments) /\ Len(comments) \in Nat
    BY <1>1, <2>1
  <2> QED
    BY <1>4, <2>1, <2>2 DEF ByC3X
<1>7. InOrder' /\ Room'
  BY <1>1, <1>2, <1>6, SizeAssumption DEF InOrder, Room, Running
<1>8. OneComment'
  <2>1. \A k, m \in DOMAIN comments' : InsertedFrom(k) = InsertedFrom(m) => k = m
    BY <1>1, <1>6 DEF InsertedFrom
  <2> QED
    BY <1>1, <1>6, <2>1 DEF OneComment, Orderly
<1>9. ShowsLast'
  BY <1>1, <1>2, <1>6 DEF ShowsLast
<1>10. ASSUME NEW k \in Jobs  PROVE Searched(k)'
  <2> DEFINE first == (page[k] - 1) * PageLength
  <2>1. Searched(k)
    BY DEF OrderInv
  <2>2. first \in Nat /\ first' = first
    <3>1. PageLength' = PageLength /\ PageLength \in Nat
      BY <1>2, SizeAssumption DEF PageLength
    <3> QED
      BY <1>1, <1>2, <3>1
  <2>3. /\ pc[k] = "list" => \A i \in DOMAIN comments : ByC3X(i) => i > first
        /\ pc[k] = "create" => \A i \in DOMAIN comments : ~ByC3X(i)
    BY <2>1 DEF Searched
  <2> HIDE DEF first
  <2>4. pc[k] = "list" => \A i \in DOMAIN comments' : ByC3X(i)' => i > first
    BY <1>1, <1>6, <2>2, <2>3
  <2>5. pc[k] = "create" => \A i \in DOMAIN comments' : ~ByC3X(i)'
    BY <1>6, <2>3
  <2>6. /\ pc[k] = "list" => \A i \in DOMAIN comments' : ByC3X(i)' => i > first'
        /\ pc[k] = "create" => \A i \in DOMAIN comments' : ~ByC3X(i)'
    BY <2>2, <2>4, <2>5
  <2> QED
    BY <1>2, <2>6 DEF Searched, first
<1> QED
  BY <1>7, <1>8, <1>9, <1>10 DEF OrderInv

\* What is deleted is c3x's only comment.
LEMMA DeletedKeeps ==
    ASSUME Orderly, OrderInv, OwnInv', CommentDeleted
    PROVE  OrderInv'
<1>1. /\ comments \in Seq(Records) /\ InOrder /\ Room /\ OneComment
      /\ created \in Nat /\ created' = created /\ UNCHANGED <<orderly, forge, pc, page>>
  BY DEF OrderInv, OwnInv, ListInv, CommentDeleted
<1>2. PICK i \in DOMAIN comments :
          (orderly => ByC3X(i)) /\ comments' = RemoveAt(comments, i)
  BY DEF CommentDeleted
<1>3. ByC3X(i)
  BY <1>2 DEF Orderly
<1>4. /\ Len(comments') = Len(comments) - 1 /\ DOMAIN comments' = 1 .. Len(comments) - 1
      /\ \A k \in DOMAIN comments' : /\ RemovedFrom(i, k) \in DOMAIN comments
                                    /\ comments'[k] = comments[RemovedFrom(i, k)]
  <2>1. /\ comments' \in Seq(Records) /\ Len(comments') = Len(comments) - 1
        /\ \A k \in 1 .. Len(comments) - 1 :
             /\ RemovedFrom(i, k) \in 1 .. Len(comments)
             /\ comments'[k] = comments[RemovedFrom(i, k)]
    BY <1>1, <1>2, RemoveFacts
  <2> QED
    BY <1>1, <2>1
<1>5. \A k \in DOMAIN comments' : RemovedFrom(i, k) # i
  BY <1>1, <1>2, <1>4 DEF RemovedFrom
<1>6. \A k \in DOMAIN comments' : ~ByC3X(k)'
  BY <1>1, <1>3, <1>4, <1>5 DEF OneComment, ByC3X, Orderly
<1>7. InOrder' /\ Room'
  BY <1>1, <1>4, SizeAssumption DEF InOrder, Room, Running
<1>8. OneComment' /\ ShowsLast' /\ \A k \in Jobs : Searched(k)'
  BY <1>6 DEF OneComment, ShowsLast, Searched
<1> QED
  BY <1>7, <1>8 DEF OrderInv

LEMMA OrderStep ==
    ASSUME Orderly, OrderInv, [Next]_vars
    PROVE  OrderInv'
<1>1. OwnInv'
  BY OwnStep DEF Orderly, OrderInv
<1>2. ASSUME NEW j \in Jobs, Begin(j) \/ Proceed(j) \/ RequestFails(j)
      PROVE  OrderInv'
  BY <1>1, <1>2, BeginKeeps, ListPageKeeps, CreateKeeps, OrderEditKeeps, FailureKeeps
     DEF Proceed
<1>3. ASSUME UserComments \/ UserEdits \/ CommentDeleted  PROVE OrderInv'
  BY <1>1, <1>3, UserKeeps, DeletedKeeps DEF UserEdits, Orderly
<1>4. CASE UNCHANGED vars
  BY <1>1, <1>4 DEF vars, server, OrderInv, InOrder, Room, Running, OneComment, ShowsLast,
                    ByC3X, Searched, PageLength
<1> QED
  BY <1>2, <1>3, <1>4 DEF Next

\* All that, of the behaviours it is about.
PostInv == OwnInv /\ (orderly => OrderInv)

LEMMA PostInit == Init => PostInv
BY OwnInit, OrderInit DEF PostInv

LEMMA PostStep ==
    ASSUME Capacity, PostInv, [Next]_vars
    PROVE  PostInv' /\ orderly' = orderly
<1>1. OwnInv'
  BY OwnStep DEF PostInv
<1>2. orderly' = orderly
  BY DEF Next, Begin, Proceed, ListPage, Create, Edit, EditGone, RequestFails, UserComments,
         UserEdits, CommentDeleted, vars, server
<1>3. orderly => OrderInv'
  BY OrderStep DEF PostInv, Orderly
<1> QED
  BY <1>1, <1>2, <1>3 DEF PostInv

\* Jobs that run one after another keep c3x to one comment, wherever one of
\* them fails and is run again, if every page is walked and nobody deletes a
\* comment of another person's from under the walk.
THEOREM OneCommentCorrect ==
    ASSUME Capacity
    PROVE  Spec => []OneComment
<1>1. Init => PostInv
  BY PostInit
<1>2. PostInv /\ [Next]_vars => PostInv'
  BY PostStep
<1>3. PostInv => OneComment
  BY DEF PostInv, OrderInv, OneComment
<1> QED
  BY <1>1, <1>2, <1>3, PTL DEF Spec

\* That comment shows the report of the last job to succeed.
THEOREM LastShownCorrect ==
    ASSUME Capacity
    PROVE  Spec => []ShowsLast
<1>1. Init => PostInv
  BY PostInit
<1>2. PostInv /\ [Next]_vars => PostInv'
  BY PostStep
<1>3. PostInv => ShowsLast
  BY DEF PostInv, OrderInv, ShowsLast
<1> QED
  BY <1>1, <1>2, <1>3, PTL DEF Spec

-----------------------------------------------------------------------------
(* The same jobs replace one report by the next: what they do to the       *)
(* comment of c3x's is a behaviour of Reports.                             *)

\* At most one job is the last that is not idle.
LEMMA LastBegun ==
    ASSUME NEW f, NEW j \in Jobs, f[j] # "idle", \A k \in Jobs : k > j => f[k] = "idle"
    PROVE  (CHOOSE k \in Jobs : /\ f[k] # "idle"
                                /\ \A m \in Jobs : m > k => f[m] = "idle") = j
<1> DEFINE Latest(k) == f[k] # "idle" /\ \A m \in Jobs : m > k => f[m] = "idle"
<1>1. \A k \in Jobs : Latest(k) => k = j
  <2> SUFFICES ASSUME NEW k \in Jobs, Latest(k) PROVE k = j
    OBVIOUS
  <2>1. ~(k > j) /\ ~(j > k)
    OBVIOUS
  <2> QED
    BY <2>1 DEF Jobs
<1>2. Latest(j)
  OBVIOUS
<1> HIDE DEF Latest
<1>3. (CHOOSE k \in Jobs : Latest(k)) = j
  BY <1>1, <1>2
<1> QED
  BY <1>3 DEF Latest

\* Whose turn it is, and how far it is, ...
LEMMA TurnIs ==
    ASSUME orderly, NEW j \in Jobs, pc[j] # "idle", \A k \in Jobs : k > j => pc[k] = "idle"
    PROVE  Turn = j /\ Status = IF Running(j) THEN "running" ELSE pc[j]
<1>1. Turn = j
  BY LastBegun DEF Turn
<1> QED
  BY <1>1 DEF Status, Jobs

\* ... and after a step.
LEMMA TurnBecomes ==
    ASSUME orderly', NEW j \in Jobs, pc'[j] # "idle",
           \A k \in Jobs : k > j => pc'[k] = "idle"
    PROVE  Turn' = j /\ Status' = IF Running(j)' THEN "running" ELSE pc'[j]
<1>1. Turn' = j
  BY LastBegun DEF Turn
<1> QED
  BY <1>1 DEF Status, Jobs

LEMMA NoTurn ==
    ASSUME ~orderly \/ \A j \in Jobs : pc[j] = "idle"
    PROVE  Turn = 0 /\ Status = "idle"
BY DEF Turn, Status

\* While a job runs it is its turn, and so it is when it has ended.
LEMMA RunnerHasTurn ==
    ASSUME orderly, orderly', InOrder, NEW j \in Jobs, Running(j), NEW l \in States \ {"idle"},
           pc \in [Jobs -> States], pc' = [pc EXCEPT ![j] = l]
    PROVE  /\ Turn = j /\ Status = "running"
           /\ Turn' = j
           /\ Status' = IF l \in {"list", "create", "edit"} THEN "running" ELSE l
<1>1. /\ pc[j] # "idle" /\ pc'[j] = l /\ l # "idle"
      /\ \A k \in Jobs : k > j => pc[k] = "idle" /\ pc'[k] = "idle"
  BY DEF InOrder, Running, Jobs
<1>2. Turn = j /\ Status = "running"
  BY <1>1, TurnIs
<1>3. Turn' = j /\ Status' = IF Running(j)' THEN "running" ELSE pc'[j]
  BY <1>1, TurnBecomes
<1> QED
  BY <1>1, <1>2, <1>3 DEF Running

Unseen == UNCHANGED <<Turn, Status, Shown>>

\* A job begins that was the next, or had failed.
LEMMA BeginStarts ==
    ASSUME Orderly, OrderInv, NEW j \in Jobs, Begin(j)
    PROVE  Board!Next
<1>1. /\ pc[j] \in {"idle", "failed"} /\ pc' = [pc EXCEPT ![j] = "list"]
      /\ UNCHANGED <<orderly, comments>> /\ orderly
      /\ \A k \in Jobs : k < j => pc[k] \in {"posted", "failed"}
      /\ \A k \in Jobs : k > j => pc[k] = "idle"
      /\ pc \in [Jobs -> States] /\ j \in 1 .. NumJobs
  BY DEF Begin, Goto, server, Orderly, OrderInv, OwnInv, JobsInv, Jobs
<1>2. Turn' = j /\ Status' = "running"
  <2>1. pc'[j] = "list" /\ \A k \in Jobs : k > j => pc'[k] = "idle"
    BY <1>1 DEF Jobs
  <2> QED
    BY <1>1, <2>1, TurnBecomes DEF Running
<1>3. Shown' = Shown
  BY <1>1 DEF Shown, ByC3X
<1>4. CASE pc[j] = "failed"
  <2>1. Turn = j /\ Status = "failed"
    BY <1>1, <1>4, TurnIs DEF Running
  <2> QED
    BY <1>1, <1>2, <1>3, <2>1 DEF Board!Next, Board!Start
<1>5. CASE pc[j] = "idle" /\ j = 1
  <2>1. \A k \in Jobs : pc[k] = "idle"
    BY <1>1, <1>5 DEF Jobs
  <2>2. Turn = 0 /\ Status = "idle"
    BY <2>1, NoTurn
  <2> QED
    BY <1>1, <1>2, <1>3, <1>5, <2>2 DEF Board!Next, Board!Start
<1>6. CASE pc[j] = "idle" /\ j # 1
  <2>1. PICK i \in Jobs : j = i + 1
    <3>1. j - 1 \in Jobs /\ j = (j - 1) + 1
      BY <1>1, <1>6, SizeAssumption DEF Jobs
    <3> QED
      BY <3>1
  <2>2. /\ pc[i] \in {"posted", "failed"}
        /\ \A k \in Jobs : k > i => pc[k] = "idle"
    <3>1. \A k \in Jobs : k > i => k = j \/ k > j
      BY <2>1 DEF Jobs
    <3>2. i < j
      BY <2>1 DEF Jobs
    <3> QED
      BY <1>1, <1>6, <3>1, <3>2
  <2>3. Turn = i /\ Status \in {"posted", "failed"}
    BY <1>1, <2>2, TurnIs DEF Running
  <2> QED
    BY <1>1, <1>2, <1>3, <2>1, <2>3 DEF Board!Next, Board!Start
<1> QED
  BY <1>1, <1>4, <1>5, <1>6

\* Reading the list shows nothing.
LEMMA ListUnseen ==
    ASSUME Orderly, OrderInv, NEW j \in Jobs, ListPage(j)
    PROVE  Unseen
<1>1. /\ pc \in [Jobs -> States] /\ InOrder /\ pc[j] = "list" /\ Running(j)
      /\ UNCHANGED <<orderly, comments>> /\ orderly
  BY DEF OrderInv, OwnInv, JobsInv, ListPage, Running, server, Orderly
<1>2. PICK l \in {"list", "create", "edit"} : pc' = [pc EXCEPT ![j] = l]
  <2>1. pc = [pc EXCEPT ![j] = "list"]
    BY <1>1
  <2> QED
    BY <2>1 DEF ListPage, Goto
<1>3. Turn = j /\ Status = "running" /\ Turn' = j /\ Status' = "running"
  <2>1. l \in States \ {"idle"}
    BY DEF States
  <2> QED
    BY <1>1, <1>2, <2>1, RunnerHasTurn
<1>4. Shown' = Shown
  BY <1>1 DEF Shown, ByC3X
<1> QED
  BY <1>3, <1>4 DEF Unseen

\* A comment is created where there was none, or the only one is edited.
LEMMA WritePublishes ==
    ASSUME Orderly, OrderInv, OrderInv', NEW j \in Jobs, Create(j) \/ Edit(j)
    PROVE  Board!Publish
<1>1. /\ pc \in [Jobs -> States] /\ InOrder /\ Running(j)
      /\ OwnInv /\ comments \in Seq(Records) /\ comments' \in Seq(Records) /\ created \in Nat
      /\ OneComment' /\ orderly /\ orderly'
  BY DEF OrderInv, OwnInv, JobsInv, ListInv, Create, Edit, Running, Orderly
<1>2. PICK l \in {"posted", "failed"} : pc' = [pc EXCEPT ![j] = l]
  BY DEF Create, Edit, Goto
<1>3. Turn = j /\ Status = "running" /\ Turn' = j /\ Status' = l
  <2>1. l \in States \ {"idle"} /\ l \notin {"list", "create", "edit"}
    BY DEF States
  <2> QED
    BY <1>1, <1>2, <2>1, RunnerHasTurn
<1>4. \E e \in DOMAIN comments' : ByC3X(e)' /\ comments'[e].report = j
  <2>1. CASE Create(j)
    <3> DEFINE c == Comment("c3x", TRUE, j)
    <3>1. c \in Records /\ c.author = "c3x" /\ c.report = j /\ comments' = Insert(c)
      BY <1>1, <2>1, SizeAssumption DEF Create, Comment, Records, Jobs
    <3> HIDE DEF c
    <3>2. PICK e \in 1 .. Len(comments) + 1 : InsertedFrom(e) = 0
      BY <1>1 DEF InsertedFrom
    <3>3. Len(comments') = Len(comments) + 1 /\ comments'[e] = c
      BY <1>1, <3>1, <3>2, InsertFacts
    <3>4. e \in DOMAIN comments'
      BY <1>1, <3>3
    <3> QED
      BY <3>1, <3>3, <3>4 DEF ByC3X
  <2>2. CASE Edit(j)
    <3>1. pc[j] = "edit" /\ Own(found[j])
      BY <2>2 DEF Edit, OrderInv, OwnInv, MarkInv
    <3>2. PICK e \in DOMAIN comments : comments[e].id = found[j]
      BY <2>2 DEF Edit, Exists
    <3>3. ByC3X(e)
      BY <1>1, <3>1, <3>2 DEF Own, Quoted, OwnInv, MarkInv, Orderly
    <3>4. /\ DOMAIN comments' = DOMAIN comments
          /\ comments'[e].author = comments[e].author /\ comments'[e].report = j
      BY <1>1, <2>2, <3>1, <3>2, EditKeeps
    <3> QED
      BY <3>3, <3>4 DEF ByC3X
  <2> QED
    BY <2>1, <2>2
<1>5. Shown' = {j}
  BY <1>1, <1>4 DEF Shown, OneComment
<1> QED
  BY <1>3, <1>5 DEF Board!Publish

\* A request that fails ends the turn.
LEMMA FailureFails ==
    ASSUME Orderly, OrderInv, NEW j \in Jobs, EditGone(j) \/ RequestFails(j)
    PROVE  Board!Fail
<1>1. /\ pc \in [Jobs -> States] /\ InOrder /\ Running(j)
      /\ UNCHANGED <<orderly, comments>> /\ orderly /\ pc' = [pc EXCEPT ![j] = "failed"]
  BY DEF OrderInv, OwnInv, JobsInv, EditGone, RequestFails, Running, Goto, server, Orderly
<1>2. Turn = j /\ Status = "running" /\ Turn' = j /\ Status' = "failed"
  <2>1. "failed" \in States \ {"idle"}
    BY DEF States
  <2> QED
    BY <1>1, <2>1, RunnerHasTurn
<1>3. Shown' = Shown
  BY <1>1 DEF Shown, ByC3X
<1> QED
  BY <1>2, <1>3 DEF Board!Fail

\* Other people's comments show no report.
LEMMA UserUnseen ==
    ASSUME Orderly, OrderInv, UserComments
    PROVE  Unseen
<1>1. comments \in Seq(Records) /\ created \in Nat /\ UNCHANGED <<orderly, pc>> /\ orderly
  BY DEF OrderInv, OwnInv, ListInv, UserComments, Orderly
<1>2. PICK marked \in {FALSE, ~orderly} :
          /\ comments' = Insert(Comment("user", marked, 0))
          /\ quoted' = quoted \cup (IF marked THEN {created + 1} ELSE {})
  BY Zenon DEF UserComments
<1> DEFINE c == Comment("user", marked, 0)
<1>3. c \in Records /\ c.author = "user"
  <2>1. marked \in BOOLEAN
    BY DEF OrderInv, OwnInv, MarkInv
  <2> QED
    BY <1>1, <2>1, SizeAssumption DEF Comment, Records
<1>4. comments' = Insert(c)
  BY <1>2
<1> HIDE DEF c
<1>5. /\ DOMAIN comments = 1 .. Len(comments) /\ DOMAIN comments' = 1 .. Len(comments) + 1
      /\ \A k \in DOMAIN comments' :
           /\ InsertedFrom(k) \in 0 .. Len(comments)
           /\ InsertedFrom(k) = 0 => comments'[k] = c
           /\ InsertedFrom(k) # 0 => comments'[k] = comments[InsertedFrom(k)]
  <2>1. /\ comments' \in Seq(Records) /\ Len(comments') = Len(comments) + 1
        /\ \A k \in 1 .. Len(comments) + 1 :
             /\ InsertedFrom(k) \in 0 .. Len(comments)
             /\ InsertedFrom(k) = 0 => comments'[k] = c
             /\ InsertedFrom(k) # 0 => comments'[k] = comments[InsertedFrom(k)]
    BY <1>1, <1>3, <1>4, InsertFacts
  <2> QED
    BY <1>1, <2>1
<1>6. \A i \in DOMAIN comments : \E k \in DOMAIN comments' : InsertedFrom(k) = i
  <2> SUFFICES ASSUME NEW i \in DOMAIN comments
               PROVE  \E k \in DOMAIN comments' : InsertedFrom(k) = i
    OBVIOUS
  <2>1. i \in 1 .. Len(comments) /\ Len(comments) \in Nat
    BY <1>1
  <2>2. CASE forge = "gitlab"
    <3>1. i + 1 \in DOMAIN comments' /\ InsertedFrom(i + 1) = i
      BY <1>5, <2>1, <2>2 DEF InsertedFrom
    <3> QED
      BY <3>1
  <2>3. CASE forge # "gitlab"
    <3>1. i \in DOMAIN comments' /\ InsertedFrom(i) = i
      BY <1>5, <2>1, <2>3 DEF InsertedFrom
    <3> QED
      BY <3>1
  <2> QED
    BY <2>2, <2>3
<1>7. Shown' = Shown
  <2>1. ASSUME NEW i \in DOMAIN comments, ByC3X(i)
        PROVE  comments[i].report \in Shown'
    <3>1. PICK k \in DOMAIN comments' : InsertedFrom(k) = i
      BY <1>6
    <3>2. comments'[k] = comments[i]
      BY <1>1, <1>5, <3>1
    <3> QED
      BY <1>1, <2>1, <3>2 DEF Shown, ByC3X
  <2>2. ASSUME NEW k \in DOMAIN comments', ByC3X(k)'
        PROVE  comments'[k].report \in Shown
    <3>1. comments'[k].author = "c3x"
      BY <2>2 DEF ByC3X
    <3>2. InsertedFrom(k) # 0
      BY <1>3, <1>5, <3>1
    <3>3. InsertedFrom(k) \in DOMAIN comments /\ comments'[k] = comments[InsertedFrom(k)]
      BY <1>1, <1>5, <3>2
    <3> QED
      BY <1>1, <3>1, <3>3 DEF Shown, ByC3X
  <2> QED
    BY <1>1, <2>1, <2>2 DEF Shown
<1>8. Turn' = Turn /\ Status' = Status
  BY <1>1 DEF Turn, Status, Running
<1> QED
  BY <1>7, <1>8 DEF Unseen

\* The comment that is deleted was the one on show.
LEMMA DeletedWithdraws ==
    ASSUME Orderly, OrderInv, CommentDeleted
    PROVE  Board!Withdraw
<1>1. comments \in Seq(Records) /\ OneComment /\ UNCHANGED <<orderly, pc>> /\ orderly
  BY DEF OrderInv, OwnInv, ListInv, CommentDeleted, Orderly
<1>2. PICK i \in DOMAIN comments :
          (orderly => ByC3X(i)) /\ comments' = RemoveAt(comments, i)
  BY DEF CommentDeleted
<1>3. ByC3X(i)
  BY <1>2 DEF Orderly
<1>4. \A k \in DOMAIN comments' :
          /\ RemovedFrom(i, k) \in DOMAIN comments /\ RemovedFrom(i, k) # i
          /\ comments'[k] = comments[RemovedFrom(i, k)]
  <2>1. /\ comments' \in Seq(Records) /\ Len(comments') = Len(comments) - 1
        /\ \A k \in 1 .. Len(comments) - 1 :
             /\ RemovedFrom(i, k) \in 1 .. Len(comments)
             /\ comments'[k] = comments[RemovedFrom(i, k)]
    BY <1>1, <1>2, RemoveFacts
  <2> QED
    BY <1>1, <1>2, <2>1 DEF RemovedFrom
<1>5. \A k \in DOMAIN comments' : ~ByC3X(k)'
  BY <1>1, <1>3, <1>4 DEF OneComment, ByC3X
<1>6. Shown' = {} /\ Shown # {}
  BY <1>1, <1>3, <1>5 DEF Shown
<1>7. Turn' = Turn /\ Status' = Status
  BY <1>1 DEF Turn, Status, Running
<1> QED
  BY <1>6, <1>7 DEF Board!Withdraw

\* Of jobs at once Reports says nothing.
LEMMA RaceUnseen ==
    ASSUME ~orderly, orderly' = orderly
    PROVE  Unseen
<1>1. Turn = 0 /\ Status = "idle" /\ Turn' = 0 /\ Status' = "idle"
  BY DEF Turn, Status
<1>2. Shown = {} /\ Shown' = {}
  BY DEF Shown
<1> QED
  BY <1>1, <1>2 DEF Unseen

\* Every step is one of Reports, or shows nothing.
LEMMA StepReports ==
    ASSUME Orderly, OrderInv, OrderInv', [Next]_vars
    PROVE  [Board!Next]_(Board!reportVars)
<1>1. ASSUME NEW j \in Jobs, Begin(j) \/ Proceed(j) \/ RequestFails(j)
      PROVE  [Board!Next]_(Board!reportVars)
  BY <1>1, BeginStarts, ListUnseen, WritePublishes, FailureFails
     DEF Proceed, Board!Next, Board!reportVars, Unseen
<1>2. CASE UserComments
  BY <1>2, UserUnseen DEF Board!reportVars, Unseen
<1>3. CASE UserEdits \/ CommentDeleted
  BY <1>3, DeletedWithdraws DEF Board!Next, UserEdits, Orderly
<1>4. CASE UNCHANGED vars
  BY <1>4 DEF vars, server, Board!reportVars, Turn, Status, Running, Shown, ByC3X
<1> QED
  BY <1>1, <1>2, <1>3, <1>4 DEF Next

\* Jobs that run one after another implement Reports: whatever fails, is lost
\* or is deleted, only the job whose turn it is changes the report on show, and
\* it shows its own and nothing else.
THEOREM ReportsCorrect ==
    ASSUME Capacity
    PROVE  Spec => ReportsSpec
<1>1. Init => PostInv
  BY PostInit
<1>2. PostInv /\ [Next]_vars => PostInv'
  BY PostStep
<1>3. Init => Board!Init
  BY NoTurn DEF Init, Board!Init, Shown
<1>4. PostInv /\ PostInv' /\ [Next]_vars => [Board!Next]_(Board!reportVars)
  <2> SUFFICES ASSUME PostInv, PostInv', [Next]_vars
               PROVE  [Board!Next]_(Board!reportVars)
    OBVIOUS
  <2>1. orderly' = orderly
    BY PostStep
  <2>2. CASE orderly
    BY <2>1, <2>2, StepReports DEF PostInv, Orderly
  <2>3. CASE ~orderly
    BY <2>1, <2>3, RaceUnseen DEF Unseen, Board!reportVars
  <2> QED
    BY <2>2, <2>3
<1> QED
  BY <1>1, <1>2, <1>3, <1>4, PTL DEF Spec, ReportsSpec, Board!Spec

\* What is on show is one report, of the job whose turn it is or of an earlier one.
NotAhead ==
    /\ Turn \in Nat
    /\ \A r, s \in Shown : r \in Nat /\ r <= Turn /\ r = s

\* No report ever replaces that of a later job, ...
NeverOlder == \A old \in Shown, new \in Shown' : old <= new

\* ... so that a job run again does not undo what a later one has shown.
THEOREM NewestStays ==
    ASSUME Capacity
    PROVE  Spec => [][NeverOlder]_Shown
<1>1. Board!Init => NotAhead
  BY DEF Board!Init, NotAhead
<1>2. NotAhead /\ [Board!Next]_(Board!reportVars) => NotAhead' /\ [NeverOlder]_Shown
  <2> SUFFICES ASSUME NotAhead, [Board!Next]_(Board!reportVars)
               PROVE  NotAhead' /\ [NeverOlder]_Shown
    OBVIOUS
  <2>1. CASE \E j \in 1 .. NumJobs : Board!Start(j)
    <3>1. (Turn' = Turn \/ Turn' = Turn + 1) /\ Shown' = Shown
      BY <2>1 DEF Board!Start
    <3> QED
      BY <3>1 DEF NotAhead
  <2>2. CASE Board!Publish
    <3>1. Shown' = {Turn} /\ Turn' = Turn
      BY <2>2 DEF Board!Publish
    <3> QED
      BY <3>1 DEF NotAhead, NeverOlder
  <2>3. CASE Board!Fail \/ Board!Withdraw \/ UNCHANGED Board!reportVars
    <3>1. Shown' \in {Shown, {}} /\ Turn' = Turn
      BY <2>3 DEF Board!Fail, Board!Withdraw, Board!reportVars
    <3> QED
      BY <3>1 DEF NotAhead, NeverOlder
  <2> QED
    BY <2>1, <2>2, <2>3 DEF Board!Next
<1> QED
  BY <1>1, <1>2, ReportsCorrect, PTL DEF ReportsSpec, Board!Spec

-----------------------------------------------------------------------------
(* The types.                                                              *)

RangeInv ==
    /\ forge \in Forges /\ users \in 0 .. MaxUsers
    /\ quoted \subseteq 1 .. created
    /\ \A j \in Jobs : found[j] <= created
    /\ \A j \in Jobs : pc[j] = "edit" => found[j] # 0

\* What is found on a page is a comment that was made.
LEMMA FoundInRange ==
    ASSUME OwnInv, NEW j \in Jobs, pc[j] = "list", SelectInSeq(Listed(page[j]), Marked) # 0
    PROVE  LET id == Listed(page[j])[SelectInSeq(Listed(page[j]), Marked)].id
           IN  id \in Nat \ {0} /\ id <= created
<1> DEFINE list == Listed(page[j])
           i == SelectInSeq(list, Marked)
<1>1. list \in Seq(Records)
  BY PageFacts DEF OwnInv, ListInv, JobsInv
<1>2. list[i].id \in Nat /\ Own(list[i].id)
  BY FoundIsOwn
<1> HIDE DEF list
<1>3. i \in 1 .. Len(list)
  BY <1>1, SearchFacts DEF list
<1>4. list[i] \in Records
  BY <1>1, <1>3
<1>5. list[i].id \in Nat \ {0}
  BY <1>4 DEF Records
<1> QED
  BY <1>2, <1>5 DEF Own, list

LEMMA RangeStep ==
    ASSUME OwnInv, RangeInv, [Next]_vars
    PROVE  RangeInv'
<1>1. /\ pc \in [Jobs -> States] /\ found \in [Jobs -> Nat] /\ comments \in Seq(Records)
      /\ created \in Nat
  BY DEF OwnInv, JobsInv, ListInv
<1>2. /\ forge \in Forges /\ users \in 0 .. MaxUsers
      /\ quoted \subseteq 1 .. created
      /\ \A k \in Jobs : found[k] <= created
      /\ \A k \in Jobs : pc[k] = "edit" => found[k] # 0
  BY DEF RangeInv
<1>3. ASSUME NEW j \in Jobs, Begin(j)  PROVE RangeInv'
  <2>1. /\ UNCHANGED <<forge, users, quoted, created>> /\ pc' = [pc EXCEPT ![j] = "list"]
        /\ found' = [found EXCEPT ![j] = 0]
    BY <1>3 DEF Begin, Goto, server
  <2> QED
    BY <1>1, <1>2, <2>1 DEF RangeInv
<1>4. ASSUME NEW j \in Jobs, ListPage(j)  PROVE RangeInv'
  <2> DEFINE listed == Listed(page[j])
             i == SelectInSeq(listed, Marked)
             id == listed[i].id
  <2>1. UNCHANGED <<forge, users, quoted, created>> /\ pc[j] = "list"
    BY <1>4 DEF ListPage, server
  <2>2. i # 0 => id \in Nat \ {0} /\ id <= created
    BY <2>1, FoundInRange
  <2>3. \/ i # 0 /\ found' = [found EXCEPT ![j] = id] /\ pc' = [pc EXCEPT ![j] = "edit"]
        \/ pc' = [pc EXCEPT ![j] = "create"] /\ found' = found
        \/ pc' = pc /\ found' = found
    BY <1>4 DEF ListPage, Goto
  <2> HIDE DEF listed, i, id
  <2>4. \A k \in Jobs : found'[k] <= created
    BY <1>1, <1>2, <2>2, <2>3
  <2>5. \A k \in Jobs : pc'[k] = "edit" => found'[k] # 0
    BY <1>1, <1>2, <2>2, <2>3
  <2> QED
    BY <1>2, <2>1, <2>4, <2>5 DEF RangeInv
<1>5. ASSUME NEW j \in Jobs, Create(j) \/ Edit(j) \/ EditGone(j) \/ RequestFails(j)
      PROVE  RangeInv'
  <2>1. /\ UNCHANGED <<forge, users, quoted, found>>
        /\ created' = created \/ created' = created + 1
        /\ \E l \in {"posted", "failed"} : pc' = [pc EXCEPT ![j] = l]
    BY <1>5 DEF Create, Edit, EditGone, RequestFails, Goto, server
  <2>2. quoted \subseteq 1 .. created' /\ \A k \in Jobs : found[k] <= created'
    BY <1>1, <1>2, <2>1
  <2> QED
    BY <1>1, <1>2, <2>1, <2>2 DEF RangeInv
<1>6. CASE UserComments
  <2>1. /\ users' = users + 1 /\ users < MaxUsers /\ created' = created + 1
        /\ UNCHANGED <<forge, pc, found>> /\ MaxUsers \in Nat
        /\ quoted' \subseteq quoted \cup {created + 1}
    BY <1>6, SizeAssumption DEF UserComments
  <2>2. /\ users' \in 0 .. MaxUsers /\ quoted' \subseteq 1 .. created'
        /\ \A k \in Jobs : found[k] <= created'
    BY <1>1, <1>2, <2>1
  <2> QED
    BY <1>2, <2>1, <2>2 DEF RangeInv
<1>7. CASE UserEdits
  <2>1. UNCHANGED <<forge, users, created, pc, found>>
    BY <1>7 DEF UserEdits
  <2>2. PICK i \in DOMAIN comments : quoted' \subseteq quoted \cup {comments[i].id}
    BY <1>7 DEF UserEdits
  <2>3. comments[i].id \in 1 .. created
    <3>1. comments[i] \in Records /\ comments[i].id <= created
      BY <1>1 DEF OwnInv, ListInv
    <3> QED
      BY <1>1, <3>1 DEF Records
  <2> QED
    BY <1>2, <2>1, <2>2, <2>3 DEF RangeInv
<1>8. CASE CommentDeleted \/ UNCHANGED vars
  BY <1>2, <1>8 DEF CommentDeleted, vars, server, RangeInv
<1> QED
  BY <1>3, <1>4, <1>5, <1>6, <1>7, <1>8 DEF Next, Proceed

\* Identities stay unique, and a job edits only a comment that was made: also
\* of jobs at once, and of lists that are edited and shortened under them.
THEOREM TypeCorrect == Spec => []TypeOK
<1>1. Init => OwnInv /\ RangeInv
  BY OwnInit, SizeAssumption DEF Init, RangeInv
<1>2. OwnInv /\ RangeInv /\ [Next]_vars => OwnInv' /\ RangeInv'
  BY OwnStep, RangeStep
<1>3. OwnInv /\ RangeInv => TypeOK
  <2> SUFFICES ASSUME OwnInv, RangeInv PROVE TypeOK
    OBVIOUS
  <2>1. /\ comments \in Seq(Records) /\ created \in Nat
        /\ pc \in [Jobs -> States] /\ page \in [Jobs -> Nat \ {0}] /\ found \in [Jobs -> Nat]
        /\ \A i, k \in DOMAIN comments : comments[i].id = comments[k].id => i = k
        /\ \A i \in DOMAIN comments : comments[i].id <= created
        /\ orderly \in BOOLEAN
    BY DEF OwnInv, ListInv, JobsInv, MarkInv
  <2>2. ASSUME NEW i \in DOMAIN comments
        PROVE  comments[i] \in [id : 1 .. created, author : {"c3x", "user"},
                                marked : BOOLEAN, report : 0 .. NumJobs]
    <3>1. comments[i] \in Records /\ comments[i].id <= created
      BY <2>1
    <3> QED
      BY <2>1, <3>1 DEF Records
  <2>3. /\ found \in [Jobs -> 0 .. created] /\ forge \in Forges /\ users \in 0 .. MaxUsers
        /\ quoted \subseteq 1 .. created
        /\ \A j \in Jobs : pc[j] = "edit" => found[j] # 0
    BY <2>1 DEF RangeInv
  <2> QED
    BY <2>1, <2>2, <2>3 DEF TypeOK, States
<1> QED
  BY <1>1, <1>2, <1>3, PTL DEF Spec
=============================================================================
