-------------------------- MODULE MaterialCatalog --------------------------
(* Study materials: resources and collections, who may see and open them,    *)
(* and the PIN that unlocks the paid ones.                                   *)
(*                                                                           *)
(* Every operation is one serializable transaction under one advisory lock;  *)
(* only unlock takes two, with the verification of the PIN between them.  A  *)
(* management call names the version it saw and is refused when that is no   *)
(* longer the item's, so it acts on what its caller knew.  The content a     *)
(* resource needs to be published is the subject of MaterialFiles; the order *)
(* of a collection's items changes nothing here.                             *)
EXTENDS Naturals, FiniteSets

CONSTANTS
  Resource, Collection,
  User, Admin,      \* users; administrators of the institution
  Pin,
  Proc,             \* unlock calls
  MaxItems, MaxCollections,
  MaxVersion        \* bounds the changes of each item

ASSUME CatalogAssumption ==
  /\ Resource \cap Collection = {} /\ Admin \subseteq User
  /\ MaxItems \in Nat \ {0} /\ MaxCollections \in Nat \ {0}
  /\ MaxVersion \in [Resource \cup Collection -> Nat]

VARIABLES
  home,       \* the owner of an item, or the institution it belongs to
  item,       \* study_resources and resource_collections
  members,    \* the resources in a collection
  grant,      \* unlock grants: the unlockVersion they are for, 0 when there is none
  active,     \* is the institution ACTIVE
  enrolled,   \* users with an active enrollment
  call,
  told        \* history: who gave an item's PIN since it, or their grant, was last changed
vars == <<home, item, members, grant, active, enrolled, call, told>>

Item == Resource \cup Collection
Institution == "institution"
None == "none"
Idle == [item |-> None]
Policy == {"FREE", "OWNER_ONLY", "ENROLLED", "PURCHASE"}

Exists(x) == item[x].status # None
Live(x) == Exists(x) /\ item[x].status # "DELETED"

-----------------------------------------------------------------------------
(* The access policy.                                                        *)
Manages(x, u) == IF home[x] = Institution THEN u \in Admin /\ active ELSE u = home[x]

Open(x) == home[x] = Institution => active

Visible(x, u, inCollection) ==
  /\ Live(x)
  /\ \/ Manages(x, u)
     \/ /\ item[x].status = "PUBLISHED" /\ item[x].policy # "OWNER_ONLY" /\ Open(x)
        /\ x \in Collection \/ item[x].standalone \/ inCollection

ValidGrant(x, u) == grant[x][u] = item[x].unlockVersion

Access(x, u) ==
  /\ item[x].status = "PUBLISHED" /\ Open(x)
  /\ \/ Manages(x, u) \/ item[x].policy = "FREE"
     \/ item[x].policy = "ENROLLED" /\ u \in enrolled
     \/ item[x].policy = "PURCHASE" /\ ValidGrant(x, u)

Allowed(policy) == IF policy = "OWNER_ONLY" THEN Policy ELSE {"FREE", policy}

CompatiblePolicies(c, cPolicy, r, rPolicy) == home[c] = home[r] /\ rPolicy \in Allowed(cPolicy)
Compatible(c, r) == CompatiblePolicies(c, item[c].policy, r, item[r].policy)

ValidScope(policy, x) ==
  /\ policy = "ENROLLED" => home[x] = Institution
  /\ policy \in {"OWNER_ONLY", "PURCHASE"} => home[x] # Institution

PinFor(policy, pin) == (policy = "PURCHASE") <=> (pin # None)

(* compatibility, with every item x is in, or holds.                         *)
Fits_AsCollection(x, policy) ==
  x \in Collection => \A r \in members[x] : CompatiblePolicies(x, policy, r, item[r].policy)
Fits(x, policy) ==
  IF x \in Collection
  THEN \A r \in members[x] : CompatiblePolicies(x, policy, r, item[r].policy)
  ELSE \A c \in Collection : x \in members[c] /\ Live(c) => CompatiblePolicies(c, item[c].policy, x, policy)

-----------------------------------------------------------------------------
Absent == [status |-> None]

Init ==
  /\ home \in [Item -> {Institution} \cup (User \ Admin)]
  /\ item = [x \in Item |-> Absent]
  /\ members = [c \in Collection |-> {}]
  /\ grant = [x \in Item |-> [u \in User |-> 0]]
  /\ active = TRUE /\ enrolled = {}
  /\ call = [p \in Proc |-> Idle]
  /\ told = [x \in Item |-> {}]

Outside == <<active, enrolled, call>>

Bumped(x) == [item[x] EXCEPT !.version = @ + 1]
Manager(x) == \E u \in User : Manages(x, u)
Current(x) == Live(x) /\ item[x].version < MaxVersion[x]
Changeable(x) == Current(x) /\ Manager(x)

(* unlockVersion: the grants given so far are void.                          *)
Voided(new) == [new EXCEPT !.unlockVersion = @ + 1]
Void(x) == told' = [told EXCEPT ![x] = {}]

New(policy, pin, standalone) ==
  [status |-> "DRAFT", policy |-> policy, pin |-> pin, standalone |-> standalone,
   version |-> 1, unlockVersion |-> 1]

MayHold(c) == Cardinality(members[c]) < MaxItems

Create(x, policy, pin, standalone) ==
  /\ ~Exists(x) /\ Manager(x) /\ (x \in Collection => standalone)
  /\ ValidScope(policy, x) /\ PinFor(policy, pin)
  /\ item' = [item EXCEPT ![x] = New(policy, pin, standalone)]
  /\ UNCHANGED <<home, members, grant, told, Outside>>

(* create with a collectionId: into a collection that is not yet published.  *)
CreateIn(c, r, policy, pin, standalone) ==
  /\ ~Exists(r) /\ Changeable(c) /\ item[c].status # "PUBLISHED"
  /\ ValidScope(policy, r) /\ PinFor(policy, pin)
  /\ CompatiblePolicies(c, item[c].policy, r, policy) /\ MayHold(c)
  /\ item' = [item EXCEPT ![r] = New(policy, pin, standalone), ![c] = Bumped(c)]
  /\ members' = [members EXCEPT ![c] = @ \cup {r}]
  /\ UNCHANGED <<home, grant, told, Outside>>

(* update with a new policy: to PURCHASE with a new PIN, from it without.    *)
UpdatePolicy(x, policy, pin) ==
  /\ Changeable(x) /\ policy # item[x].policy
  /\ ValidScope(policy, x) /\ PinFor(policy, pin)
  /\ Fits(x, policy)
  /\ item' = [item EXCEPT ![x] = [Voided(Bumped(x)) EXCEPT !.policy = policy, !.pin = pin]]
  /\ Void(x)
  /\ UNCHANGED <<home, members, grant, Outside>>

(* update with a new PIN, and rotatePin.                                     *)
NewPin(x, pin) ==
  /\ Changeable(x) /\ item[x].policy = "PURCHASE"
  /\ item' = [item EXCEPT ![x] = [Voided(Bumped(x)) EXCEPT !.pin = pin]]
  /\ Void(x)
  /\ UNCHANGED <<home, members, grant, Outside>>

UpdateStandalone(r) ==
  /\ Changeable(r) /\ Fits(r, item[r].policy)
  /\ item' = [item EXCEPT ![r] = [Voided(Bumped(r)) EXCEPT !.standalone = ~@]]
  /\ Void(r)
  /\ UNCHANGED <<home, members, grant, Outside>>

(* update of title, description, price or isFeatured, and a reorder.  No     *)
(* manager is needed: a global administrator may set isFeatured.             *)
UpdateDetails(x) ==
  /\ Current(x) /\ (x \in Collection \/ Fits(x, item[x].policy))
  /\ item' = [item EXCEPT ![x] = Bumped(x)]
  /\ UNCHANGED <<home, members, grant, told, Outside>>

(* transition.                                                               *)
Moves(x, status) ==
  /\ item' = [item EXCEPT ![x] = [Voided(Bumped(x)) EXCEPT !.status = status]]
  /\ Void(x)
  /\ UNCHANGED <<home, members, grant, Outside>>

Publish(x) ==
  /\ Changeable(x) /\ item[x].status = "DRAFT" /\ Fits(x, item[x].policy)
  /\ x \in Collection => /\ members[x] # {}
                         /\ \A r \in members[x] : item[r].status = "PUBLISHED"
  /\ Moves(x, "PUBLISHED")
Archive(x) == Changeable(x) /\ item[x].status = "PUBLISHED" /\ Moves(x, "ARCHIVED")
Unarchive(x) == Changeable(x) /\ item[x].status = "ARCHIVED" /\ Moves(x, "DRAFT")
Delete(x) == Changeable(x) /\ Moves(x, "DELETED")

(* changeItems.                                                              *)
InCollections(r) == {c \in Collection : r \in members[c] /\ Live(c)}

AddItem(c, r) ==
  /\ Changeable(c) /\ Live(r)
  /\ Cardinality(InCollections(r)) < MaxCollections
  /\ Compatible(c, r) /\ r \notin members[c] /\ MayHold(c)
  /\ item[c].status = "PUBLISHED" => item[r].status = "PUBLISHED"
  /\ members' = [members EXCEPT ![c] = @ \cup {r}]
  /\ item' = [item EXCEPT ![c] = Bumped(c)]
  /\ UNCHANGED <<home, grant, told, Outside>>

RemoveItem(c, r) ==
  /\ Changeable(c) /\ r \in members[c]
  /\ members' = [members EXCEPT ![c] = @ \ {r}]
  /\ item' = [item EXCEPT ![c] = Bumped(c)]
  /\ UNCHANGED <<home, grant, told, Outside>>

-----------------------------------------------------------------------------
(* unlock: the first transaction takes the item as it is, and the PIN is     *)
(* verified against its hash.                                                *)
Unlockable(x, u) ==
  /\ Visible(x, u, FALSE)
  /\ item[x].status = "PUBLISHED" /\ item[x].policy = "PURCHASE"

UnlockReads(p, u, x, pin) ==
  /\ call[p] = Idle /\ Unlockable(x, u) /\ pin = item[x].pin
  /\ call' = [call EXCEPT ![p] = [item |-> x, user |-> u, read |-> item[x]]]
  /\ told' = [told EXCEPT ![x] = @ \cup {u}]
  /\ UNCHANGED <<home, item, members, grant, active, enrolled>>

(* The second transaction: nothing may have changed.                         *)
Unchanged_Grants(c) == item[c.item].unlockVersion = c.read.unlockVersion
Unchanged(c) == item[c.item].version = c.read.version

UnlockGrants(p) ==
  LET c == call[p] IN
  /\ c # Idle
  /\ call' = [call EXCEPT ![p] = Idle]
  /\ grant' = IF Unlockable(c.item, c.user) /\ Unchanged(c)
              THEN [grant EXCEPT ![c.item][c.user] = item[c.item].unlockVersion] ELSE grant
  /\ UNCHANGED <<home, item, members, active, enrolled, told>>

(* revoke, by the owner of a paid item.                                      *)
Revoke(x, u) ==
  /\ Changeable(x) /\ item[x].policy = "PURCHASE"
  /\ grant' = [grant EXCEPT ![x][u] = 0]
  /\ item' = [item EXCEPT ![x] = Bumped(x)]
  /\ told' = [told EXCEPT ![x] = @ \ {u}]
  /\ UNCHANGED <<home, members, Outside>>

(* deliver, in the context of a collection, and on its own.                  *)
DeliversIn(c, r, u) ==
  /\ Visible(c, u, FALSE) /\ r \in members[c] /\ Compatible(c, r)
  /\ Access(c, u)
  /\ item[r].status = "PUBLISHED" /\ Visible(r, u, TRUE) /\ Open(r)

Delivers(r, u) ==
  Visible(r, u, FALSE) /\ item[r].standalone /\ Access(r, u) /\ Open(r)

(* The catalogue's query for everybody, and the page of a collection's       *)
(* items: which materials are listed.                                        *)
Listed_AnyInstitution(x) ==
  /\ Live(x) /\ item[x].status = "PUBLISHED" /\ item[x].policy # "OWNER_ONLY"
  /\ x \in Resource => item[x].standalone
Listed(x) ==
  /\ Live(x) /\ item[x].status = "PUBLISHED" /\ item[x].policy # "OWNER_ONLY"
  /\ Open(x)
  /\ x \in Resource => item[x].standalone

ItemListed(c, r, u) ==
  /\ Visible(c, u, FALSE) /\ r \in members[c]
  /\ IF Manages(c, u) THEN item[r].status # "DELETED"
     ELSE item[r].status = "PUBLISHED" /\ item[r].policy # "OWNER_ONLY"

(* The other components: institutions and enrollments.  (What enrollment     *)
(* opens is open to administrators anyway.)                                  *)
InstitutionChanges ==
  /\ active' = ~active
  /\ UNCHANGED <<home, item, members, grant, enrolled, call, told>>

Enrolls(u) ==
  /\ enrolled' = IF u \in enrolled THEN enrolled \ {u} ELSE enrolled \cup {u}
  /\ UNCHANGED <<home, item, members, grant, active, call, told>>

Next ==
  \/ \E x \in Item :
       \/ \E policy \in Policy, pin \in Pin \cup {None} :
            \/ \E alone \in BOOLEAN : Create(x, policy, pin, alone)
            \/ UpdatePolicy(x, policy, pin)
       \/ \E pin \in Pin : NewPin(x, pin)
       \/ UpdateDetails(x) \/ Publish(x) \/ Archive(x) \/ Unarchive(x) \/ Delete(x)
       \/ \E u \in User : Revoke(x, u)
  \/ \E r \in Resource :
       \/ UpdateStandalone(r)
       \/ \E c \in Collection :
            \/ AddItem(c, r) \/ RemoveItem(c, r)
            \/ \E policy \in Policy, pin \in Pin \cup {None}, alone \in BOOLEAN :
                 CreateIn(c, r, policy, pin, alone)
  \/ \E p \in Proc :
       \/ \E u \in User, x \in Item, pin \in Pin : UnlockReads(p, u, x, pin)
       \/ UnlockGrants(p)
  \/ InstitutionChanges
  \/ \E u \in User \ Admin : Enrolls(u)

Spec == Init /\ [][Next]_vars
-----------------------------------------------------------------------------
FullRow == [status : {"DRAFT", "PUBLISHED", "ARCHIVED", "DELETED"}, policy : Policy,
            pin : Pin \cup {None}, standalone : BOOLEAN, version : Nat, unlockVersion : Nat]
Row == {Absent} \cup FullRow

(* Rows, grants and calls are well-formed; a collection holds no more than   *)
(* it may, and a resource is in no more collections than it may be.          *)
TypeOK ==
  /\ home \in [Item -> User \cup {Institution}]
  /\ item \in [Item -> Row]
  /\ members \in [Collection -> SUBSET Resource]
  /\ \A c \in Collection : Cardinality(members[c]) <= MaxItems
  /\ \A r \in Resource : Cardinality(InCollections(r)) <= MaxCollections
  /\ grant \in [Item -> [User -> Nat]]
  /\ active \in BOOLEAN /\ enrolled \subseteq User
  /\ call \in [Proc -> {Idle} \cup [item : Item, user : User, read : Row]]
  /\ told \in [Item -> SUBSET User]

(* Whoever opens a paid item with a PIN presented the one it has, and did so *)
(* after the item last changed its PIN, policy or status and after their own *)
(* grant was last revoked: "A concurrent rotation cannot grant access from a *)
(* previously verified PIN" (Resources/README.md:247).                       *)
PinPresented ==
  \A x \in Item, u \in User :
    Live(x) /\ item[x].policy = "PURCHASE" /\ Access(x, u) /\ ~Manages(x, u) => u \in told[x]

(* The policy changes of a collection and of its resources cannot drift      *)
(* apart: what is in a collection stays compatible with it.                  *)
MembersCompatible == \A c \in Collection : Live(c) => \A r \in members[c] : Compatible(c, r)

(* What the catalogue's query selects is what the policy lets everybody see, *)
(* and a collection's page lists nothing that its detail would not show.     *)
ListedIsVisible ==
  \A x \in Item, u \in User :
    /\ Listed(x) => Visible(x, u, FALSE)
    /\ Visible(x, u, FALSE) /\ ~Manages(x, u) => Listed(x)
    /\ \A c \in Collection : x \in Resource /\ ItemListed(c, x, u) => Visible(x, u, TRUE)

(* A collection never gives away what its policy does not pay for: a         *)
(* resource that is not free is opened through it only by its managers,      *)
(* by the enrolled, or with the collection's PIN.                            *)
NoLeak ==
  \A c \in Collection, r \in Resource, u \in User :
    DeliversIn(c, r, u) /\ item[r].policy # "FREE"
      => \/ Manages(r, u)
         \/ item[r].policy = "ENROLLED" /\ u \in enrolled
         \/ item[r].policy = "PURCHASE" /\ u \in told[c]

(* Collections fit what they hold and give none of it away, with all types.  *)
CollectionsSound == TypeOK /\ MembersCompatible /\ NoLeak

(* Why a grant is worth its PIN: grants are never ahead of their item, the   *)
(* current ones belong to users who were told, and an unlock under way that  *)
(* finds its item unchanged has told its user.                               *)
GrantPaid(x, u) ==
  IF Exists(x)
  THEN /\ 1 <= item[x].unlockVersion /\ grant[x][u] <= item[x].unlockVersion
       /\ ValidGrant(x, u) => u \in told[x]
  ELSE grant[x][u] = 0
CallKnows(c) ==
  c # Idle => /\ Exists(c.item) /\ c.read # Absent
              /\ c.read.version <= item[c.item].version
              /\ Unchanged(c) => c.user \in told[c.item]

(* Collections that exist hold what exists, and finitely much of it.         *)
Held ==
  /\ \A c \in Collection : /\ IsFiniteSet(members[c]) /\ \A r \in members[c] : Exists(r)
                           /\ ~Exists(c) => members[c] = {}
  /\ \A r \in Resource : IsFiniteSet(InCollections(r))

Inv ==
  /\ TypeOK /\ Held /\ MembersCompatible
  /\ \A x \in Item, u \in User : GrantPaid(x, u)
  /\ \A p \in Proc : CallKnows(call[p])
=============================================================================
