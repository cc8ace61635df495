--------------------------- MODULE CommentPoster ---------------------------
(***************************************************************************)
(* Post and findExisting of internal/comment: CI jobs that each report on  *)
(* one pull request, whose comments other people write, edit and delete.   *)
(* A job walks the pages of the comment list, one request each, and then   *)
(* edits the comment that carries the marker or creates one.               *)
(*                                                                         *)
(* The four forges differ in how many pages are walked, how the last one   *)
(* is recognized, and where the server lists a new comment.                *)
(***************************************************************************)
EXTENDS Naturals, Sequences, FiniteSets, SequencesExt

CONSTANTS
    NumJobs,        \* job j posts report j
    Forges,         \* the code hosts to choose from
    PageSize,
    PageLimit,      \* the safety bound of GitLab's and Bitbucket's loops
    MaxUsers,       \* bound on the comments of other people
    MaxComments,    \* bound on all comments ever made
    MaxRaceComments \* where jobs run at once, on those made when a job begins

ASSUME SizeAssumption ==
    /\ NumJobs \in Nat /\ PageSize \in Nat \ {0} /\ PageLimit \in Nat \ {0}
    /\ MaxUsers \in Nat /\ MaxComments \in Nat /\ MaxRaceComments \in Nat
ASSUME ForgeAssumption == Forges \subseteq {"github", "gitlab", "bitbucket", "azure"}

Jobs == 1 .. NumJobs

VARIABLES
    orderly,        \* never changes: a job begins when the earlier have ended, and
                    \* nobody else writes the marker or takes comments off the list
    forge,
    comments,       \* the server's list, as it is paged
    created,        \* how many were ever made; identities
    users,          \* and how many of them by other people
    quoted,         \* those into which somebody else ever wrote the marker (history)
    pc,
    page,           \* the page a job asks for next
    found           \* the comment it found

server == <<orderly, forge, comments, created, users, quoted>>
vars == <<server, pc, page, found>>

Comment(author, marked, report) ==
    [id |-> created + 1, author |-> author, marked |-> marked, report |-> report]

\* GitLab lists the newest comment first.
Insert(c) == IF forge = "gitlab" THEN <<c>> \o comments ELSE Append(comments, c)

\* Azure DevOps lists everything at once: more than is ever made.
PageLength ==
    IF forge = "azure" THEN MaxComments + MaxRaceComments + NumJobs ELSE PageSize

Listed(n) ==
    SubSeq(comments, (n - 1) * PageLength + 1,
           IF n * PageLength < Len(comments) THEN n * PageLength ELSE Len(comments))

\* Faulty Marked: the marker is empty.
MarkedAny(c) == TRUE

\* strings.Contains(body, Marker)
Marked(c) == c.marked

\* Faulty LastPage: only one page is read.
LastPageFirst(n) == TRUE

\* For GitLab's poster a short page is the last, else the server tells.
LastPage(n) ==
    \/ forge \in {"gitlab", "bitbucket"} /\ n >= PageLimit
    \/ IF forge = "gitlab" THEN Len(Listed(n)) < PageLength
       ELSE n * PageLength >= Len(comments)

Init ==
    /\ orderly \in BOOLEAN
    /\ forge \in Forges
    /\ comments = <<>> /\ created = 0 /\ users = 0 /\ quoted = {}
    /\ pc = [j \in Jobs |-> "idle"]
    /\ page = [j \in Jobs |-> 1]
    /\ found = [j \in Jobs |-> 0]

Bound == IF orderly THEN MaxComments ELSE MaxRaceComments

Goto(j, l) == pc' = [pc EXCEPT ![j] = l]
Running(j) == pc[j] \in {"list", "create", "edit"}

\* A job runs, or one that failed runs again.
Begin(j) ==
    /\ pc[j] \in {"idle", "failed"}
    /\ orderly => \A k \in Jobs :
          /\ k < j => pc[k] \in {"posted", "failed"}
          /\ k > j => pc[k] = "idle"
    /\ created + Cardinality({k \in Jobs : Running(k)}) < Bound
    /\ page' = [page EXCEPT ![j] = 1]
    /\ found' = [found EXCEPT ![j] = 0]
    /\ Goto(j, "list")
    /\ UNCHANGED server

\* Faulty ListPage: the page number is not advanced.
ListPageAgain(j) ==
    /\ pc[j] = "list"
    /\ LET listed == Listed(page[j])
           i == SelectInSeq(listed, Marked)
       IN  IF i # 0
           THEN found' = [found EXCEPT ![j] = listed[i].id] /\ Goto(j, "edit")
           ELSE Goto(j, IF LastPage(page[j]) THEN "create" ELSE "list")
                /\ UNCHANGED found
    /\ UNCHANGED <<server, page>>

\* One page is read, and searched.
ListPage(j) ==
    /\ pc[j] = "list"
    /\ LET listed == Listed(page[j])
           i == SelectInSeq(listed, Marked)
       IN  \/ /\ i # 0
              /\ found' = [found EXCEPT ![j] = listed[i].id]
              /\ Goto(j, "edit")
              /\ UNCHANGED page
           \/ /\ i = 0 /\ LastPage(page[j])
              /\ Goto(j, "create")
              /\ UNCHANGED <<page, found>>
           \/ /\ i = 0 /\ ~LastPage(page[j])
              /\ page' = [page EXCEPT ![j] = @ + 1]
              /\ UNCHANGED <<pc, found>>
    /\ UNCHANGED server

\* The comment is created, whether or not the answer arrives in time.
Create(j) ==
    /\ pc[j] = "create"
    /\ comments' = Insert(Comment("c3x", TRUE, j))
    /\ created' = created + 1
    /\ \E l \in {"posted", "failed"} : Goto(j, l)
    /\ UNCHANGED <<orderly, forge, users, quoted, page, found>>

Exists(id) == \E i \in DOMAIN comments : comments[i].id = id

\* The comment that was found gets the new body, likewise.
Edit(j) ==
    /\ pc[j] = "edit"
    /\ Exists(found[j])
    /\ comments' = [i \in DOMAIN comments |->
          IF comments[i].id = found[j]
          THEN [comments[i] EXCEPT !.marked = TRUE, !.report = j]
          ELSE comments[i]]
    /\ \E l \in {"posted", "failed"} : Goto(j, l)
    /\ UNCHANGED <<orderly, forge, created, users, quoted, page, found>>

\* Faulty RequestFails: the status of the answer to a write is not looked at.
RequestFailsUnseen(j) ==
    /\ Running(j)
    /\ Goto(j, IF pc[j] = "list" THEN "failed" ELSE "posted")
    /\ UNCHANGED <<server, page, found>>

\* The comment was deleted since it was found.
EditGone(j) ==
    /\ pc[j] = "edit"
    /\ ~Exists(found[j])
    /\ Goto(j, "failed")
    /\ UNCHANGED <<server, page, found>>

\* No connection, a status of 300 or more, a timeout, an answer that is not JSON.
RequestFails(j) ==
    /\ Running(j)
    /\ Goto(j, "failed")
    /\ UNCHANGED <<server, page, found>>

\* Somebody comments, perhaps quoting c3x's comment, markup included.
UserComments ==
    /\ users < MaxUsers /\ created + 1 < Bound
    /\ \E marked \in {FALSE, ~orderly} :
          /\ comments' = Insert(Comment("user", marked, 0))
          /\ quoted' = quoted \cup (IF marked THEN {created + 1} ELSE {})
    /\ users' = users + 1
    /\ created' = created + 1
    /\ UNCHANGED <<orderly, forge, pc, page, found>>

ByC3X(i) == comments[i].author = "c3x"
Quoted(i) == comments[i].id \in quoted

\* Somebody edits a comment of theirs: a quote goes in, or out again.
UserEdits ==
    /\ ~orderly
    /\ \E i \in DOMAIN comments, marked \in BOOLEAN :
          /\ ~ByC3X(i)
          /\ comments' = [comments EXCEPT ![i] =
                 [@ EXCEPT !.marked = marked, !.report = 0]]
          /\ quoted' = quoted \cup (IF marked THEN {comments[i].id} ELSE {})
    /\ UNCHANGED <<orderly, forge, created, users, pc, page, found>>

\* A comment is deleted: of other people's, only where that is not ruled out.
CommentDeleted ==
    /\ \E i \in DOMAIN comments :
          /\ orderly => ByC3X(i)
          /\ comments' = RemoveAt(comments, i)
    /\ UNCHANGED <<orderly, forge, created, users, quoted, pc, page, found>>

\* A request is answered.
Proceed(j) == ListPage(j) \/ Create(j) \/ Edit(j) \/ EditGone(j)

Next ==
    \/ \E j \in Jobs : Begin(j) \/ Proceed(j) \/ RequestFails(j)
    \/ UserComments \/ UserEdits
    \/ CommentDeleted

\* A request that does not fail is answered: every request has a timeout.
Spec == Init /\ [][Next]_vars /\ \A j \in Jobs : WF_vars(Proceed(j))

-----------------------------------------------------------------------------
(* Properties.                                                             *)

\* Type invariant: identities are unique, and a job edits only what it found.
TypeOK ==
    /\ orderly \in BOOLEAN /\ forge \in Forges
    /\ created \in Nat /\ users \in 0 .. MaxUsers
    /\ quoted \subseteq 1 .. created
    /\ \A i \in DOMAIN comments :
          comments[i] \in [id : 1 .. created, author : {"c3x", "user"},
                           marked : BOOLEAN, report : 0 .. NumJobs]
    /\ \A i, k \in DOMAIN comments : comments[i].id = comments[k].id => i = k
    /\ pc \in [Jobs -> {"idle", "list", "create", "edit", "posted", "failed"}]
    /\ page \in [Jobs -> Nat \ {0}]
    /\ found \in [Jobs -> 0 .. created]
    /\ \A j \in Jobs : pc[j] = "edit" => found[j] # 0

\* A run "finds and edits the existing comment instead of stacking new ones",
\* whatever fails, is lost or is run again, as long as jobs run one after another.
OneComment ==
    orderly => \A i, k \in DOMAIN comments : ByC3X(i) /\ ByC3X(k) => i = k

\* Jobs at once, comments deleted and edited under them: what they rewrite is
\* c3x's, or somebody once wrote the marker into it.
OnlyQuotesTouched ==
    \A i \in DOMAIN comments : ByC3X(i) \/ Quoted(i) \/ comments[i].report = 0

\* comment.go's "every comment c3x writes carries a sentinel ... so a subsequent
\* run finds and edits the existing comment": what is edited is a comment of
\* c3x's.  A comment that quotes one carries the sentinel too.
OthersUntouched == \A i \in DOMAIN comments : ByC3X(i) \/ comments[i].report = 0

\* Of jobs that run one after another, c3x's comment shows the last to succeed.
ShowsLast ==
    \A j \in Jobs :
        orderly /\ pc[j] = "posted" /\ (\A k \in Jobs : k > j => pc[k] = "idle") =>
            \A i \in DOMAIN comments : ByC3X(i) => comments[i].report = j

\* What is seen of that: whose turn it is, how far it is, and the reports on show.
\* Of jobs at once Reports says nothing.
Turn ==
    IF ~orderly \/ \A j \in Jobs : pc[j] = "idle" THEN 0
    ELSE CHOOSE j \in Jobs : /\ pc[j] # "idle"
                            /\ \A k \in Jobs : k > j => pc[k] = "idle"
Status ==
    IF Turn = 0 THEN "idle" ELSE IF Running(Turn) THEN "running" ELSE pc[Turn]
Shown == {comments[i].report : i \in {k \in DOMAIN comments : orderly /\ ByC3X(k)}}

Board == INSTANCE Reports WITH turn <- Turn, status <- Status, shown <- Shown

\* Jobs that run one after another replace one report by the next.
ReportsSpec == Board!Spec

\* Post returns, however the list changes under it.
PostEnds == \A j \in Jobs : pc[j] = "list" ~> pc[j] \in {"posted", "failed"}
=============================================================================
