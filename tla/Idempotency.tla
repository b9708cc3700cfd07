----------------------------- MODULE Idempotency ----------------------------
(***************************************************************************)
(* Requests of one caller under one Idempotency-Key                        *)
(* (isik/django/apps/idempotency/claims.py and drf.py); two callers, or    *)
(* two keys, never meet.                                                   *)
(*                                                                         *)
(* A request is served in one transaction. It inserts the claim before its *)
(* handler runs, against the unique index on (claimed_by, key): while      *)
(* another transaction's insert of it is uncommitted Postgres makes this   *)
(* one wait, up to its lock_timeout if it has one. The claim is committed  *)
(* with the handler's work, or goes with it.                               *)
(*                                                                         *)
(* A request stands for the row its handler writes, and for the claim it   *)
(* makes: one transaction makes each at most once. A retry is another      *)
(* request. Claims expire by nothing, but a project may delete them.       *)
(*                                                                         *)
(* An operator whose name ends in _ and what is wrong with it is a mutant: *)
(* no action uses one, and each property is seen to fail under its own.    *)
(***************************************************************************)
CONSTANTS
  Requests,        \* the requests sent under the key
  Fingerprints,    \* request_fingerprint()'s values
  FingerprintOf,   \* each request's: its method, path, query and body
  NoReplay,        \* those of an action in idempotency_no_replay_actions
  ByReference,     \* whether the claim keeps the row's key, or the body itself
  Impatient,       \* those whose claim is given a lock_timeout; the others wait
  MayPurge,        \* whether the project deletes claims
  None             \* no request

ASSUME IdempotencyAssumption ==
  /\ None \notin Requests
  /\ FingerprintOf \in [Requests -> Fingerprints]
  /\ NoReplay \subseteq Fingerprints
  /\ ByReference \in BOOLEAN
  /\ Impatient \subseteq Requests
  /\ MayPurge \in BOOLEAN

VARIABLES
  claim,     \* the committed claim: the request that made it, or None
  holder,    \* the request whose claim is inserted and not committed, or None
  pc,        \* where each request is
  answer,    \* what it was answered with
  replayOf,  \* the request whose response it was answered with
  done,      \* the requests whose work is committed, under an answer below 400
  refused,   \* those whose work is committed, under an answer of 400 or above
  purged,    \* those whose claim has been deleted
  gone       \* those whose row has been deleted since

db   == <<claim, done, refused, purged, gone>>
vars == <<db, holder, pc, answer, replayOf>>

(* "refused" is the handler's own 400 or above, raised or returned.        *)
Answers == {"done", "refused", "in_flight", "reused", "not_replayable", "gone", "replayed",
            "not_found", "error"}

Init ==
  /\ claim    = None
  /\ holder   = None
  /\ pc       = [r \in Requests |-> "claiming"]
  /\ answer   = [r \in Requests |-> "none"]
  /\ replayOf = [r \in Requests |-> None]
  /\ done     = {}
  /\ refused  = {}
  /\ purged   = {}
  /\ gone     = {}

(* The transaction ends, its locks with it.                                *)
Released(r) == IF holder = r THEN None ELSE holder

Ends(r, with) ==
  /\ pc'     = [pc EXCEPT ![r] = "over"]
  /\ answer' = [answer EXCEPT ![r] = with]

RollsBack(r, with) ==
  /\ Ends(r, with)
  /\ holder' = Released(r)
  /\ UNCHANGED <<db, replayOf>>

(***************************************************************************)
(* claim_idempotency_key().                                                *)
(***************************************************************************)
Blocked_ByAnyClaim == holder # None \/ claim # None

(* Another transaction has inserted the key, and has yet to end.           *)
Blocked == holder # None

Insert(r) ==
  /\ pc[r] = "claiming"
  /\ ~Blocked
  /\ claim = None
  /\ holder' = r
  /\ pc' = [pc EXCEPT ![r] = "handling"]
  /\ UNCHANGED <<db, answer, replayOf>>

(* The insert fails, and its savepoint is rolled back.                     *)
Collide(r) ==
  /\ pc[r] = "claiming"
  /\ ~Blocked
  /\ claim # None
  /\ pc' = [pc EXCEPT ![r] = "collided"]
  /\ UNCHANGED <<db, holder, answer, replayOf>>

LockTimesOut(r) ==
  /\ r \in Impatient
  /\ pc[r] = "claiming"
  /\ Blocked
  /\ RollsBack(r, "in_flight")

(* The claim that was met is gone before it is read: DoesNotExist, which   *)
(* nothing catches.                                                        *)
FindsNothing(r) ==
  /\ pc[r] = "collided"
  /\ claim = None
  /\ RollsBack(r, "not_found")

(***************************************************************************)
(* initial(), once there is a claim to answer from: the request it was     *)
(* spent on, then whether it may be sent again, then the replay - which    *)
(* asks the view's permissions on the row again.                           *)
(***************************************************************************)
SameRequest_NotCompared(r) == TRUE

SameRequest(r) == FingerprintOf[claim] = FingerprintOf[r]

Refuses(r) ==
  /\ pc[r] = "collided"
  /\ claim # None
  /\ \/ ~SameRequest(r) /\ RollsBack(r, "reused")
     \/ SameRequest(r) /\ FingerprintOf[r] \in NoReplay /\ RollsBack(r, "not_replayable")
     \/ /\ SameRequest(r)
        /\ FingerprintOf[r] \notin NoReplay
        /\ ByReference
        /\ claim \notin gone
        /\ RollsBack(r, "refused")

(* By reference, the row is read again: as it is now, or no longer there.  *)
(* A response with no body has no row that could be gone.                  *)
Replays(r) ==
  /\ pc[r] = "collided"
  /\ claim # None
  /\ SameRequest(r)
  /\ FingerprintOf[r] \notin NoReplay
  /\ IF ByReference /\ claim \in gone
       THEN RollsBack(r, "gone")
       ELSE /\ Ends(r, "replayed")
            /\ replayOf' = [replayOf EXCEPT ![r] = claim]
            /\ UNCHANGED <<db, holder>>

(***************************************************************************)
(* The handler, and finalize_response(). One that raises has the whole     *)
(* transaction rolled back; one that returns 400 or above keeps its work,  *)
(* and has its claim deleted under it.                                     *)
(***************************************************************************)
Raises(r) ==
  /\ pc[r] = "handling"
  /\ RollsBack(r, "refused")

Returns(r) ==
  /\ pc[r] = "handling"
  /\ \E to \in {"recorded", "released"} : pc' = [pc EXCEPT ![r] = to]
  /\ UNCHANGED <<db, holder, answer, replayOf>>

ReleasedClaim_Kept(r) == r

(* The claim a response of 400 or above leaves.                            *)
ReleasedClaim(r) == claim

(* The transaction commits; the response is yet to be sent.                *)
Commit(r) ==
  /\ \/ /\ pc[r] = "recorded"
        /\ claim' = r
        /\ done' = done \union {r}
        /\ UNCHANGED refused
     \/ /\ pc[r] = "released"
        /\ claim' = ReleasedClaim(r)
        /\ refused' = refused \union {r}
        /\ UNCHANGED done
  /\ pc' = [pc EXCEPT ![r] = "answering"]
  /\ holder' = Released(r)
  /\ UNCHANGED <<purged, gone, answer, replayOf>>

Respond(r) ==
  /\ pc[r] = "answering"
  /\ Ends(r, IF r \in done THEN "done" ELSE "refused")
  /\ UNCHANGED <<db, holder, replayOf>>

(* The server dies, or the commit fails - or the response cannot be        *)
(* recorded, which is an error of its own. Past the commit only the        *)
(* response is lost: the work stands, and the caller cannot tell.          *)
Crash(r) ==
  /\ pc[r] # "over"
  /\ RollsBack(r, "error")

(***************************************************************************)
(* The project's own deletes.                                              *)
(***************************************************************************)
Purge ==
  /\ MayPurge
  /\ claim # None
  /\ purged' = purged \union {claim}
  /\ claim'  = None
  /\ UNCHANGED <<done, refused, gone, holder, pc, answer, replayOf>>

DeleteRow(r) ==
  /\ r \in done \ gone
  /\ gone' = gone \union {r}
  /\ UNCHANGED <<claim, done, refused, purged, holder, pc, answer, replayOf>>

Serve(r) ==
  \/ Insert(r) \/ Collide(r) \/ LockTimesOut(r) \/ FindsNothing(r)
  \/ Refuses(r) \/ Replays(r) \/ Raises(r) \/ Returns(r) \/ Commit(r) \/ Respond(r)

Next ==
  \/ \E r \in Requests : Serve(r) \/ Crash(r) \/ DeleteRow(r)
  \/ Purge

Spec == Init /\ [][Next]_vars

(* A request that can go on does; none has to die.                         *)
FairSpec == Spec /\ \A r \in Requests : WF_vars(Serve(r))

-----------------------------------------------------------------------------
InTransaction == {"handling", "recorded", "released"}

(* Every variable holds what it may, and who holds the key is past its     *)
(* insert and yet to commit, and the only one that is.                     *)
TypeOK ==
  /\ claim \in Requests \union {None}
  /\ holder \in Requests \union {None}
  /\ pc \in [Requests -> {"claiming", "collided", "answering", "over"} \union InTransaction]
  /\ answer \in [Requests -> Answers \union {"none"}]
  /\ replayOf \in [Requests -> Requests \union {None}]
  /\ done \subseteq Requests /\ refused \subseteq Requests
  /\ purged \subseteq Requests /\ gone \subseteq Requests
  /\ \A r \in Requests : pc[r] \in InTransaction <=> holder = r

(* A key is spent once: of the work done under it, and not under a refusal,*)
(* all but what the standing claim is of had its claim deleted by the      *)
(* project; and a claim stands only for work that was done. However many   *)
(* requests run at once, wait, fail, are refused or die.                   *)
SpentOnce ==
  /\ done \ purged = (IF claim = None THEN {} ELSE {claim})
  /\ purged \subseteq done

(* What a request is told is so: done, when its own work is committed;     *)
(* replayed, when the same request's is; refused over the key, when some   *)
(* other request did its work. One whose work is committed is told just    *)
(* that, or dies without an answer: never that it failed over the key, or  *)
(* was another's; and work kept under a refusal is never told of as done.  *)
AnswersTrue ==
  \A r \in Requests :
    /\ answer[r] = "done" => r \in done
    /\ r \in done => answer[r] \in {"none", "done", "error"}
    /\ answer[r] = "replayed" =>
         replayOf[r] \in done /\ FingerprintOf[replayOf[r]] = FingerprintOf[r]
    /\ answer[r] \in {"reused", "not_replayable", "gone"} => done \ {r} # {}
    /\ r \in refused => answer[r] \in {"none", "refused", "error"}

(* Work is under way for one request at a time, and the claim it would     *)
(* leave is the only one: none stands while a request is past its insert.  *)
OneAtATime ==
  \A r \in Requests : pc[r] \in InTransaction =>
    claim = None /\ \A s \in Requests \ {r} : pc[s] \notin InTransaction

(* Every request is answered, whoever it waits for and whoever dies.       *)
EventuallyAnswered == \A r \in Requests : <>(pc[r] = "over")

=============================================================================
