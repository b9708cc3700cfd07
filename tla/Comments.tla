------------------------------- MODULE Comments -------------------------------
(***************************************************************************)
(* A threaded comments() attachment (feedback/comments/_comments.py, its   *)
(* serializer, and CommentActions of feedback/viewsets.py): comments and   *)
(* replies, edited and deleted by callers at once.  Nothing stores how     *)
(* deep a comment is: a reply's place is checked by walking up its parents *)
(* with a query each, and a deletion finds its replies level by level.     *)
(***************************************************************************)
EXTENDS Naturals, FiniteSets

CONSTANTS Commenters,   \* calls, each made MaxCalls times at most
          CommentIds, Targets, max_depth,
          MaxCalls      \* bound on the calls made

VARIABLES comments,     \* each comment as committed: [parent, target], or Gone
          posting,      \* each call: what it does, and where it is
          calls,        \* how many were begun
          anew          \* an edit has put a comment back that was deleted meanwhile
commentsVars == <<comments, posting, calls, anew>>

Gone == [parent |-> {}, target |-> "none"]
Resting == [at |-> "idle"]
Rows_Now == {i \in CommentIds : comments[i] # Gone}

ASSUME CommentsAssumption == max_depth \in Nat /\ MaxCalls \in Nat /\ "none" \notin Targets

Replies_To(ids) == {i \in Rows_Now : comments[i].parent \cap ids # {}}

CommentsInit ==
    /\ comments = [i \in CommentIds |-> Gone]
    /\ posting = [c \in Commenters |-> Resting] /\ calls = 0 /\ anew = FALSE

Ends_Posting(c) == posting' = [posting EXCEPT ![c] = Resting]

-----------------------------------------------------------------------------
\* Refused unless the parent, fetched with its own parent_id, is on the same target;
\* a comment that replies to none is refused nothing.
Posts(c) ==
    /\ posting[c].at = "idle" /\ calls < MaxCalls /\ calls' = calls + 1
    /\ \E target \in Targets, parent \in {{}} \cup {{i} : i \in Rows_Now} :
        /\ \A i \in parent : comments[i].target = target
        /\ posting' = [posting EXCEPT ![c] =
                [at |-> IF parent = {} THEN "save" ELSE "walk", target |-> target,
                 parent |-> parent, depth |-> 1, above |-> UNION {comments[i].parent : i \in parent}]]
    /\ UNCHANGED <<comments, anew>>

\* check_parent(): up the parents, a query for each, until one replies to none - or is
\* gone by then.
TooDeep_ByOne(depth) == depth > max_depth + 1
TooDeep(depth) == depth > max_depth
Walks(c) ==
    /\ posting[c].at = "walk"
    /\ LET above == posting[c].above
           depth == posting[c].depth
       IN IF above # {} /\ ~TooDeep(depth)
          THEN posting' = [posting EXCEPT ![c].depth = depth + 1,
                                          ![c].above = UNION {comments[i].parent : i \in above}]
          ELSE IF TooDeep(depth) THEN Ends_Posting(c)
          ELSE posting' = [posting EXCEPT ![c].at = "save"]
    /\ UNCHANGED <<comments, calls, anew>>

\* Keys are never given twice: no call knows the one a new row gets.
Known == UNION {IF posting[c].at \in {"edit", "collect", "delete"}
                THEN posting[c].found \cup posting[c].row.parent
                ELSE IF posting[c].at \in {"walk", "save"} THEN posting[c].parent \cup posting[c].above
                ELSE {} : c \in Commenters}

\* The row is inserted under a key of its own; at the commit its parent has to be there.
Saves_Comment(c) ==
    /\ posting[c].at = "save"
    /\ IF posting[c].parent \subseteq Rows_Now
       THEN \E i \in CommentIds \ (Rows_Now \cup Known) :
                comments' = [comments EXCEPT ![i] =
                    [parent |-> posting[c].parent, target |-> posting[c].target]]
       ELSE UNCHANGED comments
    /\ Ends_Posting(c) /\ UNCHANGED <<calls, anew>>

-----------------------------------------------------------------------------
\* Its author, or who moderates it, edits one: the row as it was fetched is saved whole -
\* inserted anew when it is gone - and its parent has to be there.
Fetches_Comment(c) ==
    /\ posting[c].at = "idle" /\ calls < MaxCalls /\ calls' = calls + 1
    /\ \E i \in Rows_Now, at \in {"edit", "collect"} :
            posting' = [posting EXCEPT ![c] = [at |-> at, id |-> i, row |-> comments[i],
                                              found |-> {i}, level |-> {i}]]
    /\ UNCHANGED <<comments, anew>>
Edits_Comment(c) ==
    /\ posting[c].at = "edit"
    /\ IF posting[c].row.parent \subseteq Rows_Now
       THEN /\ comments' = [comments EXCEPT ![posting[c].id] = posting[c].row]
            /\ anew' = (anew \/ posting[c].id \notin Rows_Now)
       ELSE UNCHANGED <<comments, anew>>
    /\ Ends_Posting(c) /\ UNCHANGED calls

\* Its replies are found level by level, and all are deleted at once: one made meanwhile
\* keeps its parent, and the deletion fails.
Collects(c) ==
    /\ posting[c].at = "collect"
    /\ LET level == Replies_To(posting[c].level)
       IN posting' = [posting EXCEPT ![c].found = @ \cup level, ![c].level = level,
                                     ![c].at = IF level = {} THEN "delete" ELSE "collect"]
    /\ UNCHANGED <<comments, calls, anew>>
Deletes_Comments(c) ==
    /\ posting[c].at = "delete"
    /\ LET found == posting[c].found
       IN comments' = IF Replies_To(found) \subseteq found
                      THEN [i \in CommentIds |-> IF i \in found THEN Gone ELSE comments[i]]
                      ELSE comments
    /\ Ends_Posting(c) /\ UNCHANGED <<calls, anew>>

CommentsNext ==
    \E c \in Commenters : \/ Posts(c) \/ Walks(c) \/ Saves_Comment(c) \/ Fetches_Comment(c)
                          \/ Edits_Comment(c) \/ Collects(c) \/ Deletes_Comments(c)
CommentsSpec == CommentsInit /\ [][CommentsNext]_commentsVars

-----------------------------------------------------------------------------
\* `chain` goes up from a reply, each comment in it a reply to the next.
Chain(chain, n) == \A k \in 0..n - 1 : chain[k + 1] \in comments[chain[k]].parent
Within(n) == \A chain \in [0..n + 1 -> Rows_Now] : ~Chain(chain, n + 1)

\* However replies, edits and deletions meet, every reply is under a comment that is
\* there and on the same thing, no more than max_depth deep - where a walk takes more
\* than one query, unless an edit put a comment back that was gone as the walk passed.
ThreadsHold ==
    /\ \A i \in Rows_Now : \A p \in comments[i].parent : comments[p].target = comments[i].target
    /\ max_depth <= 1 \/ ~anew => Within(max_depth)
=============================================================================
