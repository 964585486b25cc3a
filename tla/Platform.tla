------------------------------ MODULE Platform ------------------------------
(* The components that share no step of the code with one another, as one    *)
(* system: a behaviour is a behaviour of the one that `part' selects, the    *)
(* others stay as they are.  What one of them sees of another (a member, an  *)
(* administrator, a scheduled exam) is an action of its own module.  The     *)
(* catalogue, much the largest, is extended and the others are instances.    *)
EXTENDS MaterialCatalog

CONSTANTS
  Name, Member, Code, TypeOf, GlobalAdmin, Tries, MaxInstCalls,  \* Institution
  Reader, ArticlePin, MaxEdits, MaxArtCalls,                     \* Article
  Handler,                     \* the handlers of these two and of ProfilePicture
  File, Url,                                                     \* ProfilePicture
  Key, Request, Limit, Window, Retention, Skew, MaxLimitTime,    \* RateLimit
  PublicExam, InstitutionExam, Viewer, Student, Global, MaxListingTime  \* ExamListing

VARIABLES
  part,
  inst, instAdmins, enrollment, instCall, instCalls, asked, approved,
  article, artCall, artCalls, moves, readers,
  row, expired, object, avatarUrl, picCall,
  limClock, bucket, request, admitted, opened,
  lstClock, exam, lstActive, lstAdmins, enrolledUntil, attempt, page

instVars == <<inst, instAdmins, enrollment, instCall, instCalls, asked, approved>>
artVars == <<article, artCall, artCalls, moves, readers>>
picVars == <<row, expired, object, avatarUrl, picCall>>
limVars == <<limClock, bucket, request, admitted, opened>>
lstVars == <<lstClock, exam, lstActive, lstAdmins, enrolledUntil, attempt, page>>
platformVars == <<part, instVars, artVars, picVars, limVars, vars, lstVars>>

N == INSTANCE Institution WITH
       User <- Member, Proc <- Handler, MaxCalls <- MaxInstCalls,
       admins <- instAdmins, call <- instCall, calls <- instCalls
A == INSTANCE Article WITH
       Pin <- ArticlePin, Proc <- Handler, MaxCalls <- MaxArtCalls,
       call <- artCall, calls <- artCalls, told <- readers
P == INSTANCE ProfilePicture WITH Proc <- Handler, call <- picCall
R == INSTANCE RateLimit WITH MaxTime <- MaxLimitTime, clock <- limClock
E == INSTANCE ExamListing WITH
       User <- Viewer, MaxTime <- MaxListingTime, clock <- lstClock, active <- lstActive,
       admins <- lstAdmins, enrollment <- enrolledUntil

ASSUME PlatformAssumption ==
  /\ N!InstitutionAssumption /\ A!ArticleAssumption /\ R!RateLimitAssumption
  /\ E!ListingAssumption

(* A component has its own initial states when it is selected; otherwise it  *)
(* keeps one of them.                                                        *)
PlatformInit ==
  /\ part \in {"institution", "article", "picture", "limit", "catalog", "listing"}
  /\ N!Init /\ A!Init /\ P!Init /\ R!Init /\ Init /\ E!Init
  /\ part # "article" => article.policy = "FREE"
  /\ part # "picture" => avatarUrl = P!None
  /\ part # "catalog" => home = [x \in Item |-> Institution]

PlatformNext ==
  \/ /\ part = "institution" /\ N!Next
     /\ UNCHANGED <<part, artVars, picVars, limVars, vars, lstVars>>
  \/ /\ part = "article" /\ A!Next
     /\ UNCHANGED <<part, instVars, picVars, limVars, vars, lstVars>>
  \/ /\ part = "picture" /\ P!Next
     /\ UNCHANGED <<part, instVars, artVars, limVars, vars, lstVars>>
  \/ /\ part = "limit" /\ R!Next
     /\ UNCHANGED <<part, instVars, artVars, picVars, vars, lstVars>>
  \/ /\ part = "catalog" /\ Next
     /\ UNCHANGED <<part, instVars, artVars, picVars, limVars, lstVars>>
  \/ /\ part = "listing" /\ E!Next
     /\ UNCHANGED <<part, instVars, artVars, picVars, limVars, vars>>

PlatformSpec == PlatformInit /\ [][PlatformNext]_platformVars
-----------------------------------------------------------------------------
(* Institutions: a live one is complete and its members were admitted.       *)
InstitutionsSound == N!TypeOK /\ N!ApprovedComplete /\ N!MembersAdmitted
(* What was decided of an institution or a member stands.                    *)
DecisionsStand == N!DecisionsStand

(* Articles: a paid one has a PIN and its readers presented it, a rejected   *)
(* one says why.                                                             *)
ArticlesSound == A!TypeOK /\ A!PurchaseHasPin /\ A!ReadersPaid /\ A!RejectedExplained
(* No unlock is lost; submitted text changes only under a stale edit.        *)
ArticleKept == A!ArticleKept

(* Pictures: a user has one avatar, and a managed one is stored.             *)
PicturesSound == P!TypeOK /\ P!OneAvatar /\ P!CurrentStored

(* Rate limits: a window admits no more than its limit and lasts no longer   *)
(* than its length.                                                          *)
LimitsSound == R!TypeOK /\ R!Quota /\ R!NoLockout
(* No window ends early.                                                     *)
WindowHonoured == R!WindowHonoured

(* The catalogue: PinPresented, CollectionsSound and ListedIsVisible are     *)
(* MaterialCatalog's own.                                                    *)

(* Listings: an exam is listed as what it is, and its listing can be used.   *)
ListingsSound == E!TypeOK /\ E!FiltersAgree /\ E!ListedUsable
(* History: results come with their marks, and answers stay private.         *)
HistorySound == E!ResultHasMarks /\ E!AnswersPrivate
=============================================================================
