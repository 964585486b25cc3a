------------------------------ MODULE Article ------------------------------
(* One article between its author, reviewers and readers.                    *)
(*                                                                           *)
(* Every use case reads the document, decides, and updates it at another     *)
(* await; only the single update is atomic and none repeats its condition.   *)
(* mongoose leaves keys that are undefined out of $set, so an update cannot  *)
(* clear a field.                                                            *)
EXTENDS Naturals

CONSTANTS Reader, Pin, Proc, MaxEdits, MaxCalls

ArticleAssumption == MaxEdits \in Nat /\ MaxCalls \in Nat

VARIABLES
  article,   \* the document
  call, calls,
  moves,     \* history: how often the status was written
  told       \* history: readers who presented a PIN of this article
vars == <<article, call, calls, moves, told>>

None == "none"
Idle == [op |-> "idle"]

Goes(p, c) == call' = [call EXCEPT ![p] = c]
Begins(p, c) == call[p] = Idle /\ calls < MaxCalls /\ calls' = calls + 1 /\ Goes(p, c)

(* createDraft: a PURCHASE article has its PIN from the beginning.           *)
Init ==
  /\ article \in [status : {"DRAFT"}, policy : {"FREE", "PURCHASE"}, pin : Pin \cup {None},
                  text : {0}, reason : {FALSE}, unlocked : {{}}]
  /\ (article.policy = "PURCHASE") <=> (article.pin # None)
  /\ call = [p \in Proc |-> Idle] /\ calls = 0
  /\ moves = 0 /\ told = {}

-----------------------------------------------------------------------------
Editable == article.status \in {"DRAFT", "REJECTED"}

(* updateDraft.  A policy or PIN that is not given stays as it is; FREE does *)
(* not take the PIN away.                                                    *)
Accepted(policy, pin) ==
  \/ policy = "PURCHASE" /\ (pin # None \/ article.pin # None)
  \/ policy = "FREE"
  \/ policy = None /\ (pin # None => article.policy = "PURCHASE")

NewPin(policy, pin) == IF policy = "FREE" THEN None ELSE pin

Update(p, policy, pin) ==
  /\ Editable /\ Accepted(policy, pin)
  /\ Begins(p, [op |-> "update", policy |-> policy, pin |-> NewPin(policy, pin), read |-> moves])
  /\ UNCHANGED <<article, moves, told>>

Edited_ClearsPin(c) ==
  [article EXCEPT !.text = @ + 1,
                  !.policy = IF c.policy = None THEN @ ELSE c.policy,
                  !.pin = IF c.policy = "FREE" THEN None ELSE IF c.pin = None THEN @ ELSE c.pin]
Edited(c) ==
  [article EXCEPT !.text = @ + 1,
                  !.policy = IF c.policy = None THEN @ ELSE c.policy,
                  !.pin = IF c.pin = None THEN @ ELSE c.pin]

UpdateWrites(p) ==
  /\ call[p].op = "update" /\ article.text < MaxEdits
  /\ article' = Edited(call[p])
  /\ Goes(p, Idle)
  /\ UNCHANGED <<calls, moves, told>>

Submit(p) ==
  /\ Editable
  /\ Begins(p, [op |-> "move", to |-> "PENDING_REVIEW"])
  /\ UNCHANGED <<article, moves, told>>

(* reviewArticle, by any superadmin.                                         *)
Review(p, verdict) ==
  /\ article.status = "PENDING_REVIEW"
  /\ Begins(p, [op |-> "move", to |-> verdict])
  /\ UNCHANGED <<article, moves, told>>

(* The update of submitForReview and reviewArticle: a rejection brings its   *)
(* reason, and no other move takes it away.                                  *)
Explained(to) == article.reason \/ to = "REJECTED"

MoveWrites(p) ==
  /\ call[p].op = "move"
  /\ article' = [article EXCEPT !.status = call[p].to, !.reason = Explained(call[p].to)]
  /\ moves' = moves + 1
  /\ Goes(p, Idle)
  /\ UNCHANGED <<calls, told>>

-----------------------------------------------------------------------------
(* unlockArticle: the PIN is compared with the hash read before.             *)
PinMatches(pin) == pin = article.pin

Unlock(p, u, pin) ==
  /\ article.status = "PUBLISHED" /\ article.policy = "PURCHASE"
  /\ u \notin article.unlocked /\ PinMatches(pin)
  /\ Begins(p, [op |-> "unlock", user |-> u, read |-> article.unlocked])
  /\ told' = IF article.pin = pin THEN told \cup {u} ELSE told
  /\ UNCHANGED <<article, moves>>

(* $addToSet.                                                                *)
Unlocked_ReadBefore(c) == c.read \cup {c.user}
Unlocked(c) == article.unlocked \cup {c.user}

UnlockWrites(p) ==
  /\ call[p].op = "unlock"
  /\ article' = [article EXCEPT !.unlocked = Unlocked(call[p])]
  /\ Goes(p, Idle)
  /\ UNCHANGED <<calls, moves, told>>

(* getArticleDetail: who is shown the text, beyond the preview of a locked   *)
(* article (its description, or the text's first 300 characters).            *)
Readable(u) == article.status = "PUBLISHED" /\ (article.policy = "FREE" \/ u \in article.unlocked)

CallFails(p) ==
  /\ call[p] # Idle
  /\ Goes(p, Idle)
  /\ UNCHANGED <<article, calls, moves, told>>

Next ==
  \E p \in Proc :
    \/ \E policy \in {"FREE", "PURCHASE", None}, pin \in Pin \cup {None} : Update(p, policy, pin)
    \/ UpdateWrites(p) \/ Submit(p)
    \/ \E v \in {"PUBLISHED", "REJECTED"} : Review(p, v)
    \/ MoveWrites(p)
    \/ \E u \in Reader, pin \in Pin : Unlock(p, u, pin)
    \/ UnlockWrites(p) \/ CallFails(p)

Spec == Init /\ [][Next]_vars
-----------------------------------------------------------------------------
Document == [status : {"DRAFT", "PENDING_REVIEW", "PUBLISHED", "REJECTED"},
             policy : {"FREE", "PURCHASE"}, pin : Pin \cup {None},
             text : 0..MaxEdits, reason : BOOLEAN, unlocked : SUBSET Reader]
CallType ==
  {Idle}
  \cup [op : {"update"}, policy : {"FREE", "PURCHASE", None}, pin : Pin \cup {None}, read : Nat]
  \cup [op : {"move"}, to : {"PENDING_REVIEW", "PUBLISHED", "REJECTED"}]
  \cup [op : {"unlock"}, user : Reader, read : SUBSET Reader]

(* The document and the handlers are well-formed.                            *)
TypeOK ==
  /\ article \in Document /\ call \in [Proc -> CallType]
  /\ calls \in 0..MaxCalls /\ moves \in Nat /\ told \subseteq Reader

(* A paid article can be unlocked, whatever edits race: one that asks for a  *)
(* PIN has one.  (An edit to PURCHASE may rely on a PIN it read, while       *)
(* another edit makes the article FREE.)                                     *)
PurchaseHasPin == article.policy = "PURCHASE" => article.pin # None

(* Its author can always tell why an article was rejected.                   *)
RejectedExplained == article.status = "REJECTED" => article.reason

(* No reader gets to a paid article's text without having presented a PIN    *)
(* the article had while it was published.                                   *)
ReadersPaid == \A u \in Reader : Readable(u) /\ article.policy = "PURCHASE" => u \in told

(* An article a reader unlocked stays unlocked: concurrent unlocks and edits *)
(* of the same document lose none.                                           *)
UnlocksKept == article.unlocked \subseteq article'.unlocked

(* What is under review or published is only edited by an update that read   *)
(* the article before its status was last written.                           *)
FrozenButForRaces ==
  article.status \in {"PENDING_REVIEW", "PUBLISHED"} /\ article'.text # article.text
    => \E p \in Proc : call[p].op = "update" /\ call'[p] = Idle /\ call[p].read < moves

(* No step takes away what a reader unlocked or, but for races, what was     *)
(* submitted.                                                                *)
ArticleKept == [][UnlocksKept /\ FrozenButForRaces]_vars

-----------------------------------------------------------------------------
(* What a handler read of the article that no other can undo.                *)
CallOK ==
  \A p \in Proc :
    /\ call[p].op = "update" =>
         /\ call[p].policy = "PURCHASE" => call[p].pin # None \/ article.pin # None
         /\ call[p].read <= moves
         /\ call[p].read = moves => Editable
    /\ call[p].op = "unlock" => call[p].user \in told

(* The inductive invariant: no update takes a PIN, a reason or an unlock     *)
(* away, and the status is editable as long as it was not written again.     *)
Inv ==
  /\ TypeOK /\ PurchaseHasPin /\ RejectedExplained /\ CallOK
  /\ article.unlocked \subseteq told
=============================================================================
