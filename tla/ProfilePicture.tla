--------------------------- MODULE ProfilePicture ---------------------------
(* The profile pictures of one active user: upload rows in PostgreSQL, their *)
(* objects in the storage provider, and the legacy avatarUrl of the profile. *)
(* Both transactions that change the current picture write the user's row    *)
(* first and so lock each other out; everything around them is separate.     *)
EXTENDS Naturals

CONSTANTS File, Url, Proc

VARIABLES
  row,        \* profile_picture_uploads, by file
  expired,    \* the uploads past expiresAt
  object,     \* what the storage holds of a file
  avatarUrl,  \* users.avatar_url
  call        \* completions under way
vars == <<row, expired, object, avatarUrl, call>>

None == "none"
Idle == [at |-> "idle"]
Current == {f \in File : row[f] = "current"}

Goes(p, c) == call' = [call EXCEPT ![p] = c]

Init ==
  /\ row = [f \in File |-> None] /\ expired = {}
  /\ object = [f \in File |-> None]
  /\ avatarUrl \in Url \cup {None}
  /\ call = [p \in Proc |-> Idle]

(* createUpload: the URL exists before the row.                              *)
CreateUpload(f) ==
  /\ row[f] = None
  /\ row' = [row EXCEPT ![f] = "pending"]
  /\ UNCHANGED <<expired, object, avatarUrl, call>>

(* The client, with a file of the announced size or of another.              *)
Uploads(f, size) ==
  /\ row[f] # None /\ f \notin expired /\ object[f] = None
  /\ object' = [object EXCEPT ![f] = size]
  /\ UNCHANGED <<row, expired, avatarUrl, call>>

Expires(f) ==
  /\ row[f] # None /\ f \notin expired
  /\ expired' = expired \cup {f}
  /\ UNCHANGED <<row, object, avatarUrl, call>>

(* completeUpload finds the upload; for the current picture it is done.      *)
MayComplete(f) == row[f] = "pending" /\ f \notin expired

Complete(p, f) ==
  /\ call[p] = Idle /\ MayComplete(f)
  /\ Goes(p, [at |-> "inspect", file |-> f])
  /\ UNCHANGED <<row, expired, object, avatarUrl>>

Verified(f) == object[f] = "good"

Inspects(p) ==
  /\ call[p].at = "inspect"
  /\ Goes(p, IF Verified(call[p].file) THEN [call[p] EXCEPT !.at = "activate"] ELSE Idle)
  /\ UNCHANGED <<row, expired, object, avatarUrl>>

(* activate repeats the checks under the lock.                               *)
MayActivate_AsRead(f) == row[f] # "current"
MayActivate(f) == MayComplete(f)

Replaced == [f \in File |-> IF row[f] = "current" THEN "replaced" ELSE row[f]]
ActivatedUrl == None

Activate(p) ==
  LET f == call[p].file IN
  /\ call[p].at = "activate"
  /\ IF MayActivate(f)
     THEN /\ row' = [Replaced EXCEPT ![f] = "current"]
          /\ avatarUrl' = ActivatedUrl
          /\ Goes(p, IF Current = {} THEN Idle ELSE [at |-> "delete", files |-> Current])
     ELSE Goes(p, Idle) /\ UNCHANGED <<row, avatarUrl>>
  /\ UNCHANGED <<expired, object>>

(* The previous picture's object, best effort: a failure is only logged.     *)
DeletesPrevious(p) ==
  /\ call[p].at = "delete"
  /\ object' = [f \in File |-> IF f \in call[p].files THEN None ELSE object[f]]
  /\ Goes(p, Idle)
  /\ UNCHANGED <<row, expired, avatarUrl>>

CallFails(p) ==
  /\ call[p] # Idle
  /\ Goes(p, Idle)
  /\ UNCHANGED <<row, expired, object, avatarUrl>>

(* updateOwnProfile with an avatarUrl, null included.                        *)
Deactivated == Replaced

UpdateProfile(url) ==
  /\ avatarUrl' = url
  /\ row' = Deactivated
  /\ UNCHANGED <<expired, object, call>>

Next ==
  \/ \E f \in File :
       \/ CreateUpload(f) \/ Expires(f)
       \/ \E size \in {"good", "bad"} : Uploads(f, size)
  \/ \E p \in Proc :
       \/ \E f \in File : Complete(p, f)
       \/ Inspects(p) \/ Activate(p) \/ DeletesPrevious(p) \/ CallFails(p)
  \/ \E url \in Url \cup {None} : UpdateProfile(url)

Spec == Init /\ [][Next]_vars
-----------------------------------------------------------------------------
(* The type invariant, with the unique index on the current picture.         *)
TypeOK ==
  /\ row \in [File -> {None, "pending", "current", "replaced"}]
  /\ object \in [File -> {None, "good", "bad"}]
  /\ expired \subseteq File /\ avatarUrl \in Url \cup {None}
  /\ \A f, g \in Current : f = g

(* A user has one avatar: never both a legacy URL and a managed picture,     *)
(* whichever of updateOwnProfile and the completions comes last.             *)
OneAvatar == avatarUrl # None => Current = {}

(* The picture a profile shows is there: it was verified, and no completion  *)
(* that replaces another one deletes it.                                     *)
CurrentStored == \A f \in Current : object[f] = "good"

-----------------------------------------------------------------------------
CallType ==
  {Idle} \cup [at : {"inspect", "activate"}, file : File] \cup [at : {"delete"}, files : SUBSET File]

(* A completion is of an upload that was requested; an object it verified is *)
(* good as long as the upload may still be activated; and what is deleted    *)
(* was replaced.                                                             *)
CallOK ==
  \A p \in Proc :
    /\ call[p].at \in {"inspect", "activate"} => row[call[p].file] # None
    /\ call[p].at = "activate" /\ row[call[p].file] = "pending" => Verified(call[p].file)
    /\ call[p].at = "delete" => \A f \in call[p].files : row[f] = "replaced"

(* The inductive invariant: an upload goes from pending to current to        *)
(* replaced and never back.                                                  *)
Inv ==
  /\ TypeOK /\ OneAvatar /\ CurrentStored
  /\ call \in [Proc -> CallType] /\ CallOK
=============================================================================
