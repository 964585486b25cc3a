------------------------ MODULE MaterialCatalogProofs ------------------------
(* Proofs about MaterialCatalog for every value of its constants.            *)
EXTENDS MaterialCatalog, FiniteSetTheorems, TLAPS

(* A row that exists has all its fields.                                     *)
LEMMA RowFields ==
  ASSUME NEW r \in Row, r.status # None
  PROVE  /\ r # Absent
         /\ r \in FullRow
  BY DEF Row, FullRow, Absent

LEMMA ItemFields ==
  ASSUME TypeOK, NEW x \in Item, Exists(x)
  PROVE  item[x] \in FullRow
  BY RowFields DEF TypeOK, Exists

LEMMA NewRow ==
  ASSUME NEW policy \in Policy, NEW pin \in Pin \cup {None}, NEW alone \in BOOLEAN
  PROVE  /\ New(policy, pin, alone) \in Row /\ New(policy, pin, alone).status = "DRAFT"
         /\ New(policy, pin, alone).policy = policy
         /\ New(policy, pin, alone).version = 1 /\ New(policy, pin, alone).unlockVersion = 1
  BY DEF New, Row, FullRow

(* What a change of an item does to its row before the new fields are set.   *)
LEMMA BumpedRow ==
  ASSUME TypeOK, NEW x \in Item, Exists(x)
  PROVE  /\ Bumped(x) \in Row /\ Bumped(x).status = item[x].status
         /\ Bumped(x).policy = item[x].policy /\ Bumped(x).version = item[x].version + 1
         /\ Bumped(x).unlockVersion = item[x].unlockVersion
  <1>1. item[x] \in FullRow  BY ItemFields
  <1> QED BY <1>1 DEF Bumped, Row, FullRow

LEMMA VoidedRow ==
  ASSUME TypeOK, NEW x \in Item, Exists(x)
  PROVE  /\ Voided(Bumped(x)) \in FullRow /\ Voided(Bumped(x)).policy = item[x].policy
         /\ Voided(Bumped(x)).version = item[x].version + 1
         /\ Voided(Bumped(x)).unlockVersion = item[x].unlockVersion + 1
  <1> DEFINE b == Bumped(x)
  <1>1. /\ b \in FullRow /\ b.policy = item[x].policy /\ b.version = item[x].version + 1
        /\ b.unlockVersion = item[x].unlockVersion
    BY ItemFields, BumpedRow DEF Bumped, FullRow
  <1> HIDE DEF b
  <1>2. /\ Voided(b) \in FullRow /\ Voided(b).policy = item[x].policy
        /\ Voided(b).version = item[x].version + 1
        /\ Voided(b).unlockVersion = item[x].unlockVersion + 1
    BY <1>1 DEF Voided, FullRow
  <1> QED BY <1>2 DEF b

-----------------------------------------------------------------------------
(* What is in a collection, after a step that leaves the members alone.      *)
LEMMA MembersStay ==
  ASSUME Inv, UNCHANGED <<home, members>>,
         \A x \in Item : Exists(x) => Exists(x)' /\ (Live(x)' => Live(x))
  PROVE  /\ Held'
         /\ \A c \in Collection : Cardinality(members'[c]) <= MaxItems
         /\ \A r \in Resource : Cardinality(InCollections(r)') <= MaxCollections
  <1>1. TypeOK /\ Held  BY DEF Inv
  <1>2. ASSUME NEW r \in Resource PROVE InCollections(r)' \subseteq InCollections(r)
    BY <1>1 DEF InCollections, Held, Item
  <1>3. ASSUME NEW r \in Resource
        PROVE  /\ IsFiniteSet(InCollections(r)')
               /\ Cardinality(InCollections(r)') <= MaxCollections
    <2>1. IsFiniteSet(InCollections(r)) /\ Cardinality(InCollections(r)) <= MaxCollections
      BY <1>1 DEF TypeOK, Held
    <2>2. /\ IsFiniteSet(InCollections(r)')
          /\ Cardinality(InCollections(r)') <= Cardinality(InCollections(r))
      BY <1>2, <2>1, FS_Subset
    <2>3. /\ Cardinality(InCollections(r)') \in Nat /\ Cardinality(InCollections(r)) \in Nat
          /\ MaxCollections \in Nat
      BY <2>1, <2>2, FS_CardinalityType, CatalogAssumption
    <2> QED BY <2>1, <2>2, <2>3
  <1>4. \A c \in Collection : /\ IsFiniteSet(members'[c]) /\ \A r \in members'[c] : Exists(r)'
                              /\ ~Exists(c)' => members'[c] = {}
    BY <1>1 DEF TypeOK, Held, Item
  <1> QED BY <1>1, <1>3, <1>4 DEF TypeOK, Held

(* A call that is not touched knows what it knew, since versions go up and   *)
(* nobody loses what they were told without one.                             *)
LEMMA CallsStay ==
  ASSUME Inv,
         \A x \in Item : Exists(x) =>
           /\ Exists(x)' /\ item'[x].version \in Nat /\ item[x].version <= item'[x].version
           /\ item'[x].version = item[x].version => told[x] \subseteq told'[x],
         NEW p \in Proc, call'[p] = call[p]
  PROVE  CallKnows(call[p])'
  <1> SUFFICES ASSUME call[p] # Idle PROVE CallKnows(call[p])'
    BY DEF CallKnows
  <1>1. /\ call[p] \in [item : Item, user : User, read : Row]
        /\ CallKnows(call[p])
    BY DEF Inv, TypeOK
  <1>2. PICK x \in Item : x = call[p].item  BY <1>1
  <1>3. call[p].read \in Row /\ call[p].read # Absent /\ Exists(x)
    BY <1>1, <1>2 DEF CallKnows
  <1>4. call[p].read.version \in Nat  BY <1>3 DEF Row, FullRow
  <1>5. item[x].version \in Nat  BY <1>3, ItemFields DEF Inv, FullRow
  <1>6. /\ call[p].read.version <= item[x].version
        /\ item[x].version = call[p].read.version => call[p].user \in told[x]
    BY <1>1, <1>2 DEF CallKnows, Unchanged
  <1> QED BY <1>2, <1>3, <1>4, <1>5, <1>6 DEF CallKnows, Unchanged

(* One item's row is replaced, by its next version.                          *)
LEMMA Revised ==
  ASSUME Inv, NEW x \in Item, Live(x), NEW new \in Row,
         new.status # None, new.version = item[x].version + 1,
         new.policy = item[x].policy \/ Fits(x, new.policy),
         item' = [item EXCEPT ![x] = new],
         grant' \in [Item -> [User -> Nat]], told' \in [Item -> SUBSET User],
         \A y \in Item : y # x => grant'[y] = grant[y] /\ told'[y] = told[y],
         \A u \in User : GrantPaid(x, u)',
         UNCHANGED <<home, members, Outside>>
  PROVE  Inv'
  <1>1. TypeOK /\ Held /\ MembersCompatible  BY DEF Inv
  <1>2. /\ item' \in [Item -> Row] /\ item'[x] = new
        /\ \A y \in Item : y # x => item'[y] = item[y]
    BY <1>1 DEF TypeOK
  <1>3. Exists(x)' /\ Exists(x) /\ item[x].version \in Nat
    BY <1>1, <1>2, ItemFields DEF Exists, Live, FullRow
  <1>4. \A y \in Item :
          /\ Exists(y)' <=> Exists(y)
          /\ Live(y)' => Live(y)
    BY <1>2, <1>3 DEF Exists, Live
  <1>5. TypeOK' /\ Held'
    BY <1>1, <1>2, <1>4, MembersStay DEF TypeOK, Outside
  <1>6. MembersCompatible'
    <2> SUFFICES ASSUME NEW c \in Collection, Live(c)', NEW r \in members[c]
                 PROVE Compatible(c, r)'
      BY DEF MembersCompatible
    <2>1. c \in Item /\ r \in Item /\ Live(c)  BY <1>1, <1>4 DEF Item, TypeOK
    <2>2. Compatible(c, r)  BY <1>1, <2>1 DEF MembersCompatible
    <2>3. r # c  BY <1>1, CatalogAssumption DEF TypeOK
    <2>4. CASE new.policy = item[x].policy
      BY <1>2, <2>1, <2>2, <2>4 DEF Compatible, CompatiblePolicies
    <2>5. CASE Fits(x, new.policy)
      <3>1. CASE c = x
        <4>1. CompatiblePolicies(x, new.policy, r, item[r].policy)
          BY <2>5, <3>1 DEF Fits
        <4> QED BY <1>2, <2>1, <2>3, <3>1, <4>1 DEF Compatible, CompatiblePolicies
      <3>2. CASE r = x
        <4>1. x \notin Collection  BY <1>1, <3>2, CatalogAssumption DEF TypeOK
        <4>2. CompatiblePolicies(c, item[c].policy, x, new.policy)
          BY <2>1, <2>5, <3>2, <4>1 DEF Fits
        <4> QED BY <1>2, <2>1, <2>3, <3>2, <4>2 DEF Compatible, CompatiblePolicies
      <3>3. CASE c # x /\ r # x
        BY <1>2, <2>1, <2>2, <3>3 DEF Compatible, CompatiblePolicies
      <3> QED BY <3>1, <3>2, <3>3
    <2> QED BY <2>4, <2>5
  <1>7. ASSUME NEW y \in Item, NEW u \in User PROVE GrantPaid(y, u)'
    <2>1. CASE y = x  BY <2>1
    <2>2. CASE y # x
      BY <1>2, <1>7, <2>2 DEF Inv, GrantPaid, Exists, ValidGrant
    <2> QED BY <2>1, <2>2
  <1>8. ASSUME NEW p \in Proc PROVE CallKnows(call[p])'
    <2>1. ASSUME NEW y \in Item, Exists(y)
          PROVE  /\ Exists(y)' /\ item'[y].version \in Nat /\ item[y].version <= item'[y].version
                 /\ item'[y].version = item[y].version => told[y] \subseteq told'[y]
      <3>1. CASE y = x  BY <1>2, <1>3, <3>1
      <3>2. item[y].version \in Nat  BY <1>1, <2>1, ItemFields DEF FullRow
      <3> QED BY <1>2, <1>4, <2>1, <3>1, <3>2
    <2> QED BY <1>8, <2>1, CallsStay DEF Outside
  <1> QED BY <1>5, <1>6, <1>7, <1>8 DEF Inv

(* The three ways in which a revision treats the grants of its item: void    *)
(* them all, keep them all, or revoke one.                                   *)
LEMMA GrantsVoided ==
  ASSUME Inv, NEW x \in Item, Live(x), NEW new, item' = [item EXCEPT ![x] = new],
         new.status # None, new.unlockVersion = item[x].unlockVersion + 1, UNCHANGED grant
  PROVE  \A u \in User : GrantPaid(x, u)'
  <1> TAKE u \in User
  <1>1. /\ TypeOK /\ Exists(x) /\ GrantPaid(x, u)
        /\ item[x].unlockVersion \in Nat /\ grant[x][u] \in Nat
    BY ItemFields DEF Inv, Live, TypeOK, FullRow
  <1>2. Exists(x)' /\ item'[x].unlockVersion = item[x].unlockVersion + 1
    BY <1>1 DEF TypeOK, Exists
  <1> QED BY <1>1, <1>2 DEF GrantPaid, ValidGrant

LEMMA GrantsKept ==
  ASSUME Inv, NEW x \in Item, Live(x), NEW new, item' = [item EXCEPT ![x] = new],
         new.status # None, new.unlockVersion = item[x].unlockVersion,
         UNCHANGED <<grant, told>>
  PROVE  \A u \in User : GrantPaid(x, u)'
  <1> TAKE u \in User
  <1>1. TypeOK /\ Exists(x) /\ GrantPaid(x, u)  BY DEF Inv, Live
  <1>2. Exists(x)' /\ item'[x].unlockVersion = item[x].unlockVersion
    BY <1>1 DEF TypeOK, Exists
  <1> QED BY <1>1, <1>2 DEF GrantPaid, ValidGrant

-----------------------------------------------------------------------------
(* One resource more in a collection, or one less.                           *)
LEMMA MemberAdded ==
  ASSUME Inv, NEW c \in Collection, Live(c), NEW r \in Resource, r \notin members[c],
         MayHold(c), Cardinality(InCollections(r)) < MaxCollections,
         members' = [members EXCEPT ![c] = @ \cup {r}], Exists(r)',
         \A x \in Item : Exists(x) => Exists(x)',
         \A d \in Collection : (Exists(d)' <=> Exists(d)) /\ (Live(d)' <=> Live(d))
  PROVE  /\ members' \in [Collection -> SUBSET Resource] /\ Held'
         /\ \A d \in Collection : Cardinality(members'[d]) <= MaxItems
         /\ \A q \in Resource : Cardinality(InCollections(q)') <= MaxCollections
  <1>1. TypeOK /\ Held  BY DEF Inv
  <1>2. members' \in [Collection -> SUBSET Resource]  BY <1>1 DEF TypeOK
  <1>3. /\ members'[c] = members[c] \cup {r}
        /\ \A d \in Collection : d # c => members'[d] = members[d]
    BY <1>1 DEF TypeOK
  <1>4. /\ IsFiniteSet(members'[c]) /\ Cardinality(members'[c]) <= MaxItems
    <2>1. IsFiniteSet(members[c]) /\ Cardinality(members[c]) \in Nat
      BY <1>1, FS_CardinalityType DEF Held
    <2>2. /\ IsFiniteSet(members'[c])
          /\ Cardinality(members'[c]) = Cardinality(members[c]) + 1
      <3>1. /\ IsFiniteSet(members[c] \cup {r})
            /\ Cardinality(members[c] \cup {r}) = Cardinality(members[c]) + 1
        BY <2>1, FS_AddElement
      <3> QED BY <1>3, <3>1, Zenon
    <2>3. MaxItems \in Nat  BY CatalogAssumption
    <2>4. Cardinality(members[c]) < MaxItems  BY DEF MayHold
    <2> QED BY <2>1, <2>2, <2>3, <2>4
  <1>5. ASSUME NEW q \in Resource
        PROVE  /\ IsFiniteSet(InCollections(q)')
               /\ Cardinality(InCollections(q)') <= MaxCollections
    <2>1. IsFiniteSet(InCollections(q)) /\ Cardinality(InCollections(q)) <= MaxCollections
      BY <1>1 DEF Held, TypeOK
    <2>2. CASE q = r
      <3>1. InCollections(r)' = InCollections(r) \cup {c} /\ c \notin InCollections(r)
        BY <1>3 DEF InCollections
      <3>2. Cardinality(InCollections(r)) \in Nat  BY <2>1, <2>2, FS_CardinalityType
      <3>3. /\ IsFiniteSet(InCollections(r)')
            /\ Cardinality(InCollections(r)') = Cardinality(InCollections(r)) + 1
        BY <2>1, <2>2, <3>1, FS_AddElement
      <3> QED BY <2>2, <3>2, <3>3, CatalogAssumption
    <2>3. CASE q # r
      <3>1. InCollections(q)' = InCollections(q)
        BY <1>3, <2>3 DEF InCollections
      <3> QED BY <2>1, <3>1
    <2> QED BY <2>2, <2>3
  <1>6. \A d \in Collection : /\ IsFiniteSet(members'[d]) /\ \A q \in members'[d] : Exists(q)'
                              /\ ~Exists(d)' => members'[d] = {}
    BY <1>1, <1>3, <1>4 DEF Held, TypeOK, Live, Item
  <1> QED BY <1>1, <1>2, <1>3, <1>4, <1>5, <1>6 DEF TypeOK, Held

LEMMA MemberRemoved ==
  ASSUME Inv, NEW c \in Collection, Live(c), NEW r \in Resource,
         members' = [members EXCEPT ![c] = @ \ {r}],
         \A x \in Item : (Exists(x)' <=> Exists(x)) /\ (Live(x)' <=> Live(x))
  PROVE  /\ members' \in [Collection -> SUBSET Resource] /\ Held'
         /\ \A d \in Collection : Cardinality(members'[d]) <= MaxItems
         /\ \A q \in Resource : Cardinality(InCollections(q)') <= MaxCollections
  <1>1. TypeOK /\ Held  BY DEF Inv
  <1>2. members' \in [Collection -> SUBSET Resource]  BY <1>1 DEF TypeOK
  <1>3. \A d \in Collection : members'[d] \subseteq members[d]  BY <1>1 DEF TypeOK
  <1>4. ASSUME NEW S, NEW T, NEW n \in Nat, IsFiniteSet(T), Cardinality(T) <= n, S \subseteq T
        PROVE  IsFiniteSet(S) /\ Cardinality(S) <= n
    <2>1. IsFiniteSet(S) /\ Cardinality(S) <= Cardinality(T)  BY <1>4, FS_Subset
    <2> QED BY <1>4, <2>1, FS_CardinalityType
  <1>5. MaxItems \in Nat /\ MaxCollections \in Nat  BY CatalogAssumption
  <1>6. ASSUME NEW d \in Collection
        PROVE  IsFiniteSet(members'[d]) /\ Cardinality(members'[d]) <= MaxItems
    BY <1>1, <1>3, <1>4, <1>5 DEF Held, TypeOK
  <1>7. ASSUME NEW q \in Resource
        PROVE  /\ IsFiniteSet(InCollections(q)')
               /\ Cardinality(InCollections(q)') <= MaxCollections
    <2>1. InCollections(q)' \subseteq InCollections(q)
      BY <1>3 DEF InCollections, Item
    <2> QED BY <1>1, <1>4, <1>5, <2>1 DEF Held, TypeOK
  <1>8. \A d \in Collection : /\ \A q \in members'[d] : Exists(q)'
                              /\ ~Exists(d)' => members'[d] = {}
    BY <1>1, <1>3 DEF Held, TypeOK, Item
  <1> QED BY <1>2, <1>6, <1>7, <1>8 DEF Held

(* A new row, that of a resource in a collection or on its own, is in order. *)
LEMMA GrantsOfNew ==
  ASSUME Inv, NEW x \in Item, ~Exists(x), NEW policy, NEW pin, NEW alone,
         item'[x] = New(policy, pin, alone), UNCHANGED <<grant, told>>
  PROVE  \A u \in User : GrantPaid(x, u)'
  BY DEF Inv, GrantPaid, Exists, ValidGrant, New, None

-----------------------------------------------------------------------------
LEMMA InvInit == Init => Inv
  <1> SUFFICES ASSUME Init PROVE Inv  OBVIOUS
  <1>1. \A x \in Item : ~Exists(x) /\ ~Live(x)  BY DEF Init, Exists, Live, Absent
  <1>2. \A r \in Resource : InCollections(r) = {}  BY DEF Init, InCollections
  <1>3. IsFiniteSet({}) /\ Cardinality({}) = 0  BY FS_EmptySet
  <1>4. TypeOK
    <2>1. /\ \A c \in Collection : Cardinality(members[c]) <= MaxItems
          /\ \A r \in Resource : Cardinality(InCollections(r)) <= MaxCollections
      <3>1. \A c \in Collection : members[c] = {}  BY DEF Init
      <3>2. MaxItems \in Nat /\ MaxCollections \in Nat  BY CatalogAssumption
      <3>3. Cardinality({}) <= MaxItems /\ Cardinality({}) <= MaxCollections
        BY <1>3, <3>2
      <3> QED BY <1>2, <3>1, <3>3, Zenon
    <2>2. home \in [Item -> User \cup {Institution}]  BY DEF Init
    <2>3. /\ item \in [Item -> Row] /\ members \in [Collection -> SUBSET Resource]
          /\ active \in BOOLEAN /\ enrolled \subseteq User
          /\ told \in [Item -> SUBSET User]
      BY DEF Init, Row
    <2>4. grant \in [Item -> [User -> Nat]]  BY DEF Init
    <2>5. call \in [Proc -> {Idle} \cup [item : Item, user : User, read : Row]]
      BY DEF Init
    <2> QED BY <2>1, <2>2, <2>3, <2>4, <2>5 DEF TypeOK
  <1>5. Held  BY <1>1, <1>2, <1>3 DEF Init, Held
  <1>6. MembersCompatible  BY DEF Init, MembersCompatible
  <1>7. /\ \A x \in Item, u \in User : GrantPaid(x, u)
        /\ \A p \in Proc : CallKnows(call[p])
    BY <1>1 DEF Init, GrantPaid, CallKnows
  <1> QED BY <1>4, <1>5, <1>6, <1>7 DEF Inv

(* A management call moves the item of one live row on.                      *)
LEMMA ChangeableIsLive ==
  ASSUME NEW x, Changeable(x) PROVE Live(x) /\ Exists(x)
  BY DEF Changeable, Current, Live

LEMMA InvNext == Inv /\ [Next]_vars => Inv'
  <1> SUFFICES ASSUME Inv, [Next]_vars PROVE Inv'  OBVIOUS
  <1>t. TypeOK /\ Held /\ MembersCompatible  BY DEF Inv
  <1>i. Resource \subseteq Item /\ Collection \subseteq Item  BY DEF Item
  <1>1. ASSUME NEW x \in Item, NEW policy \in Policy, NEW pin \in Pin \cup {None},
               NEW alone \in BOOLEAN, Create(x, policy, pin, alone)
        PROVE Inv'
    <2>1. /\ item'[x] = New(policy, pin, alone) /\ ~Exists(x)
          /\ \A y \in Item : y # x => item'[y] = item[y]
          /\ UNCHANGED <<home, members, grant, told, active, enrolled, call>>
          /\ item' \in [Item -> Row]
      BY <1>1, <1>t, NewRow DEF Create, TypeOK, Outside
    <2>2. \A y \in Item : Exists(y) => /\ y # x /\ Exists(y)' /\ item'[y] = item[y]
                                       /\ Live(y)' <=> Live(y)
      BY <2>1 DEF Exists, Live
    <2>3. Held' /\ TypeOK'
      BY <1>t, <2>1, <2>2, MembersStay DEF TypeOK
    <2>4. MembersCompatible'
      <3> SUFFICES ASSUME NEW c \in Collection, Live(c)', NEW r \in members[c]
                   PROVE Compatible(c, r)'
        BY <2>1 DEF MembersCompatible
      <3>1. Exists(c) /\ Exists(r) /\ c \in Item /\ r \in Item
        BY <1>t, <1>i DEF Held, TypeOK
      <3>2. Compatible(c, r)  BY <1>t, <2>2, <3>1 DEF MembersCompatible
      <3> QED BY <2>1, <2>2, <3>1, <3>2 DEF Compatible, CompatiblePolicies
    <2>5. ASSUME NEW y \in Item, NEW u \in User PROVE GrantPaid(y, u)'
      <3>1. CASE y = x  BY <2>1, <3>1, GrantsOfNew
      <3>2. CASE y # x
        BY <2>1, <3>2 DEF Inv, GrantPaid, Exists, ValidGrant
      <3> QED BY <3>1, <3>2
    <2>6. ASSUME NEW p \in Proc PROVE CallKnows(call[p])'
      <3>1. \A y \in Item : Exists(y) => item[y].version \in Nat
        BY <1>t, ItemFields DEF FullRow
      <3> QED BY <2>1, <2>2, <3>1, CallsStay
    <2> QED BY <2>3, <2>4, <2>5, <2>6 DEF Inv
  <1>2. ASSUME NEW c \in Collection, NEW r \in Resource, NEW policy \in Policy,
               NEW pin \in Pin \cup {None}, NEW alone \in BOOLEAN,
               CreateIn(c, r, policy, pin, alone)
        PROVE Inv'
    <2>1. /\ Live(c) /\ Exists(c) /\ ~Exists(r) /\ c # r /\ MayHold(c)
          /\ CompatiblePolicies(c, item[c].policy, r, policy)
          /\ members' = [members EXCEPT ![c] = @ \cup {r}]
          /\ UNCHANGED <<home, grant, told, active, enrolled, call>>
      BY <1>2, ChangeableIsLive DEF CreateIn, Outside
    <2>2. /\ item'[r] = New(policy, pin, alone) /\ item'[c] = Bumped(c)
          /\ \A y \in Item : y # r /\ y # c => item'[y] = item[y]
          /\ item' \in [Item -> Row]
      BY <1>2, <1>t, <1>i, <2>1, NewRow, BumpedRow DEF CreateIn, TypeOK
    <2>3. /\ Exists(r)'
          /\ \A y \in Item : Exists(y) =>
               /\ y # r /\ Exists(y)' /\ (Live(y)' <=> Live(y))
               /\ item'[y].policy = item[y].policy
               /\ item'[y].unlockVersion = item[y].unlockVersion
               /\ item[y].version \in Nat
               /\ item'[y].version \in {item[y].version, item[y].version + 1}
      <3>1. Exists(r)'  BY <2>2, NewRow DEF Exists, None
      <3>2. \A y \in Item : Exists(y) =>
              item[y].version \in Nat /\ (y # c => item'[y] = item[y]) /\ y # r
        BY <1>t, <2>1, <2>2, ItemFields DEF FullRow
      <3>3. /\ Exists(c)' /\ (Live(c)' <=> Live(c)) /\ item'[c].policy = item[c].policy
            /\ item'[c].unlockVersion = item[c].unlockVersion
            /\ item'[c].version = item[c].version + 1
        BY <1>t, <1>i, <2>1, <2>2, BumpedRow DEF Exists, Live
      <3> QED BY <3>1, <3>2, <3>3 DEF Exists, Live
    <2>4. \A d \in Collection : (Exists(d)' <=> Exists(d)) /\ (Live(d)' <=> Live(d))
      <3>1. \A d \in Collection : d \in Item /\ d # r  BY <1>i, CatalogAssumption
      <3>2. \A d \in Collection : ~Exists(d) => item'[d] = item[d]
        BY <2>1, <2>2, <3>1
      <3> QED BY <2>3, <3>1, <3>2 DEF Exists, Live
    <2>5. r \notin members[c] /\ Cardinality(InCollections(r)) < MaxCollections
      <3>1. InCollections(r) = {}  BY <1>t, <2>1 DEF Held, InCollections
      <3>2. Cardinality({}) < MaxCollections  BY CatalogAssumption, FS_EmptySet
      <3>3. r \notin members[c]  BY <1>t, <2>1 DEF Held
      <3> QED BY <3>1, <3>2, <3>3, Zenon
    <2>6. /\ members' \in [Collection -> SUBSET Resource] /\ Held'
          /\ \A d \in Collection : Cardinality(members'[d]) <= MaxItems
          /\ \A q \in Resource : Cardinality(InCollections(q)') <= MaxCollections
      BY <2>1, <2>3, <2>4, <2>5, MemberAdded
    <2>7. TypeOK'  BY <1>t, <2>1, <2>2, <2>6 DEF TypeOK
    <2>8. MembersCompatible'
      <3> SUFFICES ASSUME NEW d \in Collection, Live(d)', NEW q \in members'[d]
                   PROVE Compatible(d, q)'
        BY DEF MembersCompatible
      <3>1. Exists(d) /\ Live(d) /\ d \in Item  BY <1>i, <2>4 DEF Live
      <3>2. item'[d].policy = item[d].policy  BY <2>3, <3>1
      <3>3. CASE q \in members[d]
        <4>1. q \in Item /\ Exists(q)  BY <1>t, <1>i, <3>3 DEF Held, TypeOK
        <4>2. item'[q].policy = item[q].policy  BY <2>3, <4>1
        <4>3. Compatible(d, q)  BY <1>t, <3>1, <3>3 DEF MembersCompatible
        <4> QED BY <2>1, <3>2, <4>2, <4>3 DEF Compatible, CompatiblePolicies
      <3>4. CASE q \notin members[d]
        <4>1. d = c /\ q = r  BY <1>t, <2>1, <3>4 DEF TypeOK
        <4>2. item'[r].policy = policy  BY <2>2, NewRow
        <4> QED BY <2>1, <3>2, <4>1, <4>2 DEF Compatible, CompatiblePolicies
      <3> QED BY <3>3, <3>4
    <2>9. ASSUME NEW y \in Item, NEW u \in User PROVE GrantPaid(y, u)'
      <3>1. CASE y = r  BY <2>1, <2>2, <3>1, GrantsOfNew
      <3>2. CASE Exists(y)
        BY <2>1, <2>3, <2>9, <3>2 DEF Inv, GrantPaid, ValidGrant
      <3>3. CASE y # r /\ ~Exists(y)
        BY <2>1, <2>2, <2>9, <3>3 DEF Inv, GrantPaid, Exists
      <3> QED BY <3>1, <3>2, <3>3
    <2>10. ASSUME NEW p \in Proc PROVE CallKnows(call[p])'
      BY <2>1, <2>3, CallsStay
    <2> QED BY <2>6, <2>7, <2>8, <2>9, <2>10 DEF Inv
  <1>3. ASSUME NEW x \in Item, NEW policy \in Policy, NEW pin \in Pin \cup {None},
               UpdatePolicy(x, policy, pin)
        PROVE Inv'
    <2> DEFINE v == Voided(Bumped(x))
               new == [v EXCEPT !.policy = policy, !.pin = pin]
    <2>1. /\ Live(x) /\ Exists(x) /\ Fits(x, policy) /\ item' = [item EXCEPT ![x] = new]
          /\ told' = [told EXCEPT ![x] = {}] /\ UNCHANGED <<home, members, grant, Outside>>
      BY <1>3, ChangeableIsLive DEF UpdatePolicy, Void
    <2>2. /\ new \in Row /\ new.status # None /\ new.version = item[x].version + 1
          /\ new.unlockVersion = item[x].unlockVersion + 1 /\ new.policy = policy
      <3>1. /\ v \in FullRow /\ v.policy = item[x].policy
            /\ v.version = item[x].version + 1
            /\ v.unlockVersion = item[x].unlockVersion + 1
        BY <1>t, <2>1, VoidedRow
      <3> HIDE DEF v
      <3> QED BY <3>1 DEF FullRow, Row, None, Policy
    <2> HIDE DEF new
    <2>3. \A u \in User : GrantPaid(x, u)'  BY <2>1, <2>2, GrantsVoided
    <2> QED BY <1>t, <2>1, <2>2, <2>3, Revised DEF TypeOK
  <1>4. ASSUME NEW x \in Item, NEW pin \in Pin, NewPin(x, pin) PROVE Inv'
    <2> DEFINE v == Voided(Bumped(x))
               new == [v EXCEPT !.pin = pin]
    <2>1. /\ Live(x) /\ Exists(x) /\ item' = [item EXCEPT ![x] = new]
          /\ told' = [told EXCEPT ![x] = {}] /\ UNCHANGED <<home, members, grant, Outside>>
      BY <1>4, ChangeableIsLive DEF NewPin, Void
    <2>2. /\ new \in Row /\ new.status # None /\ new.version = item[x].version + 1
          /\ new.unlockVersion = item[x].unlockVersion + 1
          /\ new.policy = item[x].policy
      <3>1. /\ v \in FullRow /\ v.policy = item[x].policy
            /\ v.version = item[x].version + 1
            /\ v.unlockVersion = item[x].unlockVersion + 1
        BY <1>t, <2>1, VoidedRow
      <3> HIDE DEF v
      <3> QED BY <3>1 DEF FullRow, Row, None, Policy
    <2> HIDE DEF new
    <2>3. \A u \in User : GrantPaid(x, u)'  BY <2>1, <2>2, GrantsVoided
    <2> QED BY <1>t, <2>1, <2>2, <2>3, Revised DEF TypeOK
  <1>5. ASSUME NEW x \in Resource, UpdateStandalone(x) PROVE Inv'
    <2> DEFINE v == Voided(Bumped(x))
               new == [v EXCEPT !.standalone = ~@]
    <2>1. /\ x \in Item /\ Live(x) /\ Exists(x) /\ item' = [item EXCEPT ![x] = new]
          /\ told' = [told EXCEPT ![x] = {}] /\ UNCHANGED <<home, members, grant, Outside>>
      BY <1>5, <1>i, ChangeableIsLive DEF UpdateStandalone, Void
    <2>2. /\ new \in Row /\ new.status # None /\ new.version = item[x].version + 1
          /\ new.unlockVersion = item[x].unlockVersion + 1
          /\ new.policy = item[x].policy
      <3>1. /\ v \in FullRow /\ v.policy = item[x].policy
            /\ v.version = item[x].version + 1
            /\ v.unlockVersion = item[x].unlockVersion + 1
        BY <1>t, <2>1, VoidedRow
      <3> HIDE DEF v
      <3> QED BY <3>1 DEF FullRow, Row, None, Policy
    <2> HIDE DEF new
    <2>3. \A u \in User : GrantPaid(x, u)'  BY <2>1, <2>2, GrantsVoided
    <2> QED BY <1>t, <2>1, <2>2, <2>3, Revised DEF TypeOK
  <1>6. ASSUME NEW x \in Item, UpdateDetails(x) PROVE Inv'
    <2>1. /\ Live(x) /\ Exists(x) /\ item' = [item EXCEPT ![x] = Bumped(x)]
          /\ UNCHANGED <<home, members, grant, told, Outside>>
      BY <1>6 DEF UpdateDetails, Current, Live
    <2>2. /\ Bumped(x) \in Row /\ Bumped(x).status # None
          /\ Bumped(x).version = item[x].version + 1
          /\ Bumped(x).policy = item[x].policy
          /\ Bumped(x).unlockVersion = item[x].unlockVersion
      BY <1>t, <2>1, BumpedRow DEF Exists
    <2>3. \A u \in User : GrantPaid(x, u)'  BY <2>1, <2>2, GrantsKept
    <2> QED BY <1>t, <2>1, <2>2, <2>3, Revised DEF TypeOK
  <1>7. ASSUME NEW x \in Item,
               NEW status \in {"DRAFT", "PUBLISHED", "ARCHIVED", "DELETED"},
               Changeable(x), Moves(x, status)
        PROVE Inv'
    <2> DEFINE v == Voided(Bumped(x))
               new == [v EXCEPT !.status = status]
    <2>1. /\ Live(x) /\ Exists(x) /\ item' = [item EXCEPT ![x] = new]
          /\ told' = [told EXCEPT ![x] = {}] /\ UNCHANGED <<home, members, grant, Outside>>
      BY <1>7, ChangeableIsLive DEF Moves, Void
    <2>2. /\ new \in Row /\ new.status # None /\ new.version = item[x].version + 1
          /\ new.unlockVersion = item[x].unlockVersion + 1
          /\ new.policy = item[x].policy
      <3>1. /\ v \in FullRow /\ v.policy = item[x].policy
            /\ v.version = item[x].version + 1
            /\ v.unlockVersion = item[x].unlockVersion + 1
        BY <1>t, <2>1, VoidedRow
      <3> HIDE DEF v
      <3> QED BY <3>1 DEF FullRow, Row, None, Policy
    <2> HIDE DEF new
    <2>3. \A u \in User : GrantPaid(x, u)'  BY <2>1, <2>2, GrantsVoided
    <2> QED BY <1>t, <2>1, <2>2, <2>3, Revised DEF TypeOK
  <1>8. ASSUME NEW x \in Item, NEW u \in User, Revoke(x, u) PROVE Inv'
    <2>1. /\ Live(x) /\ Exists(x) /\ item' = [item EXCEPT ![x] = Bumped(x)]
          /\ grant' = [grant EXCEPT ![x][u] = 0] /\ told' = [told EXCEPT ![x] = @ \ {u}]
          /\ UNCHANGED <<home, members, Outside>>
      BY <1>8, ChangeableIsLive DEF Revoke
    <2>2. /\ Bumped(x) \in Row /\ Bumped(x).status # None
          /\ Bumped(x).version = item[x].version + 1
          /\ Bumped(x).policy = item[x].policy
          /\ Bumped(x).unlockVersion = item[x].unlockVersion
      BY <1>t, <2>1, BumpedRow DEF Exists
    <2>3. ASSUME NEW w \in User PROVE GrantPaid(x, w)'
      <3>1. GrantPaid(x, w) /\ item[x].unlockVersion \in Nat
        BY <1>t, <2>1, ItemFields DEF Inv, FullRow
      <3>2. Exists(x)' /\ item'[x].unlockVersion = item[x].unlockVersion
        BY <1>t, <2>1, <2>2 DEF TypeOK, Exists
      <3>3. CASE w = u
        <4>1. grant'[x][w] = 0  BY <1>t, <2>1, <3>3 DEF TypeOK
        <4> QED BY <2>1, <3>1, <3>2, <4>1 DEF GrantPaid, ValidGrant
      <3>4. CASE w # u
        <4>1. grant'[x][w] = grant[x][w] /\ (w \in told[x] => w \in told'[x])
          BY <1>t, <2>1, <3>4 DEF TypeOK
        <4> QED BY <2>1, <3>1, <3>2, <4>1 DEF GrantPaid, ValidGrant
      <3> QED BY <3>3, <3>4
    <2>4. grant' \in [Item -> [User -> Nat]] /\ told' \in [Item -> SUBSET User]
      BY <1>t, <2>1 DEF TypeOK
    <2>5. \A y \in Item : y # x => grant'[y] = grant[y] /\ told'[y] = told[y]
      BY <1>t, <2>1 DEF TypeOK
    <2> QED BY <2>1, <2>2, <2>3, <2>4, <2>5, Revised
  (* A collection's next version, with one member more or less.              *)
  <1>b. ASSUME NEW c \in Collection, Live(c), item' = [item EXCEPT ![c] = Bumped(c)],
               UNCHANGED <<home, grant, told, Outside>>,
               members' \in [Collection -> SUBSET Resource], Held',
               \A d \in Collection : Cardinality(members'[d]) <= MaxItems,
               \A q \in Resource : Cardinality(InCollections(q)') <= MaxCollections,
               \A d \in Collection : \A q \in members'[d] : q \in members[d] \/ Compatible(d, q)
        PROVE Inv'
    <2>1. /\ Exists(c) /\ c \in Item /\ item' \in [Item -> Row] /\ item'[c] = Bumped(c)
          /\ \A y \in Item : y # c => item'[y] = item[y]
      BY <1>b, <1>t, <1>i, BumpedRow DEF Live, TypeOK
    <2>2. \A y \in Item :
            /\ (Exists(y)' <=> Exists(y)) /\ (Live(y)' <=> Live(y))
            /\ Exists(y) => /\ item'[y].policy = item[y].policy
                            /\ item'[y].unlockVersion = item[y].unlockVersion
                            /\ item[y].version \in Nat
                            /\ item'[y].version \in {item[y].version, item[y].version + 1}
      BY <1>t, <2>1, BumpedRow, ItemFields DEF Exists, Live, FullRow
    <2>3. TypeOK'  BY <1>b, <1>t, <2>1 DEF TypeOK, Outside
    <2>4. MembersCompatible'
      <3> SUFFICES ASSUME NEW d \in Collection, Live(d)', NEW q \in members'[d]
                   PROVE Compatible(d, q)'
        BY DEF MembersCompatible
      <3>1. /\ Live(d) /\ d \in Item /\ q \in Item /\ Exists(q)' /\ Exists(d)
        BY <1>b, <1>i, <2>2 DEF Held, Live
      <3>2. Compatible(d, q)  BY <1>b, <1>t, <3>1 DEF MembersCompatible
      <3> QED BY <1>b, <2>2, <3>1, <3>2 DEF Compatible, CompatiblePolicies
    <2>5. ASSUME NEW y \in Item, NEW u \in User PROVE GrantPaid(y, u)'
      BY <1>b, <2>2, <2>5 DEF Inv, GrantPaid, ValidGrant
    <2>6. ASSUME NEW p \in Proc PROVE CallKnows(call[p])'
      BY <1>b, <2>2, CallsStay DEF Outside
    <2> QED BY <1>b, <2>3, <2>4, <2>5, <2>6 DEF Inv
  <1>9. ASSUME NEW c \in Collection, NEW r \in Resource, AddItem(c, r) PROVE Inv'
    <2>1. /\ Live(c) /\ Live(r) /\ MayHold(c) /\ r \notin members[c] /\ Compatible(c, r)
          /\ Cardinality(InCollections(r)) < MaxCollections
          /\ members' = [members EXCEPT ![c] = @ \cup {r}]
          /\ item' = [item EXCEPT ![c] = Bumped(c)]
          /\ UNCHANGED <<home, grant, told, Outside>>
      BY <1>9, ChangeableIsLive DEF AddItem
    <2>2. \A y \in Item : (Exists(y)' <=> Exists(y)) /\ (Live(y)' <=> Live(y))
      BY <1>t, <1>i, <2>1, BumpedRow DEF Exists, Live, TypeOK
    <2>3. /\ members' \in [Collection -> SUBSET Resource] /\ Held'
          /\ \A d \in Collection : Cardinality(members'[d]) <= MaxItems
          /\ \A q \in Resource : Cardinality(InCollections(q)') <= MaxCollections
      <3>1. Exists(r)'  BY <1>i, <2>1, <2>2 DEF Live
      <3> QED BY <1>i, <2>1, <2>2, <3>1, MemberAdded
    <2>4. \A d \in Collection : \A q \in members'[d] : q \in members[d] \/ Compatible(d, q)
      BY <1>t, <2>1 DEF TypeOK
    <2> QED BY <1>b, <2>1, <2>3, <2>4
  <1>10. ASSUME NEW c \in Collection, NEW r \in Resource, RemoveItem(c, r) PROVE Inv'
    <2>1. /\ Live(c) /\ members' = [members EXCEPT ![c] = @ \ {r}]
          /\ item' = [item EXCEPT ![c] = Bumped(c)]
          /\ UNCHANGED <<home, grant, told, Outside>>
      BY <1>10, ChangeableIsLive DEF RemoveItem
    <2>2. \A y \in Item : (Exists(y)' <=> Exists(y)) /\ (Live(y)' <=> Live(y))
      BY <1>t, <1>i, <2>1, BumpedRow DEF Exists, Live, TypeOK
    <2>3. /\ members' \in [Collection -> SUBSET Resource] /\ Held'
          /\ \A d \in Collection : Cardinality(members'[d]) <= MaxItems
          /\ \A q \in Resource : Cardinality(InCollections(q)') <= MaxCollections
      BY <2>1, <2>2, MemberRemoved
    <2>4. \A d \in Collection : \A q \in members'[d] : q \in members[d]
      BY <1>t, <2>1 DEF TypeOK
    <2> QED BY <1>b, <2>1, <2>3, <2>4
  (* Nothing but the calls, the grants or the outside moves.                 *)
  <1>v. ASSUME UNCHANGED <<home, item, members>>, TypeOK',
               \A x \in Item, u \in User : GrantPaid(x, u)',
               \A p \in Proc : CallKnows(call[p])'
        PROVE Inv'
    BY <1>t, <1>v DEF Inv, Held, MembersCompatible, Compatible, CompatiblePolicies, Exists,
       Live, InCollections
  <1>11. ASSUME NEW p \in Proc, NEW u \in User, NEW x \in Item, NEW pin \in Pin,
                UnlockReads(p, u, x, pin)
         PROVE Inv'
    <2>1. /\ Exists(x) /\ item[x] \in Row /\ item[x] # Absent /\ item[x].version \in Nat
          /\ call' = [call EXCEPT ![p] = [item |-> x, user |-> u, read |-> item[x]]]
          /\ told' = [told EXCEPT ![x] = @ \cup {u}]
          /\ UNCHANGED <<home, item, members, grant, active, enrolled>>
      BY <1>11, <1>t, RowFields, ItemFields
      DEF UnlockReads, Unlockable, Visible, Live, Exists, TypeOK, FullRow
    <2>2. \A y \in Item : told[y] \subseteq told'[y]  BY <1>t, <2>1 DEF TypeOK
    <2>3. u \in told'[x]  BY <1>t, <2>1 DEF TypeOK
    <2>4. TypeOK'
      <3>1. told' \in [Item -> SUBSET User]  BY <1>t, <2>1 DEF TypeOK
      <3>2. call' \in [Proc -> {Idle} \cup [item : Item, user : User, read : Row]]
        BY <1>t, <2>1 DEF TypeOK
      <3> QED BY <1>t, <2>1, <3>1, <3>2 DEF TypeOK, InCollections, Live, Exists
    <2>5. ASSUME NEW y \in Item, NEW w \in User PROVE GrantPaid(y, w)'
      BY <2>1, <2>2, <2>5 DEF Inv, GrantPaid, Exists, ValidGrant
    <2>6. ASSUME NEW q \in Proc PROVE CallKnows(call[q])'
      <3>1. CASE q = p
        <4>1. call'[p] = [item |-> x, user |-> u, read |-> item[x]]
          BY <1>t, <2>1 DEF TypeOK
        <4> QED BY <2>1, <2>3, <3>1, <4>1 DEF CallKnows, Unchanged, Exists
      <3>2. CASE q # p
        <4>1. call'[q] = call[q]  BY <1>t, <2>1, <3>2 DEF TypeOK
        <4>2. \A y \in Item : Exists(y) => Exists(y)' /\ item[y].version \in Nat
          BY <1>t, <2>1, ItemFields DEF FullRow, Exists
        <4> QED BY <2>1, <2>2, <4>1, <4>2, CallsStay
      <3> QED BY <3>1, <3>2
    <2> QED BY <1>v, <2>1, <2>4, <2>5, <2>6
  <1>12. ASSUME NEW p \in Proc, UnlockGrants(p) PROVE Inv'
    <2>1. PICK x \in Item, u \in User : x = call[p].item /\ u = call[p].user
      BY <1>12, <1>t DEF UnlockGrants, TypeOK
    <2>2. /\ Exists(x) /\ (Unchanged(call[p]) => u \in told[x])
          /\ item[x].unlockVersion \in Nat
      <3>1. CallKnows(call[p]) /\ call[p] # Idle  BY <1>12 DEF Inv, UnlockGrants
      <3>2. Exists(x)  BY <2>1, <3>1 DEF CallKnows
      <3> QED BY <1>t, <2>1, <3>1, <3>2, ItemFields DEF CallKnows, FullRow
    <2>3. /\ call' = [call EXCEPT ![p] = Idle]
          /\ UNCHANGED <<home, item, members, active, enrolled, told>>
          /\ \/ grant' = grant
             \/ /\ u \in told[x]
                /\ grant' = [grant EXCEPT ![x][u] = item[x].unlockVersion]
      BY <1>12, <2>1, <2>2 DEF UnlockGrants
    <2>4. ASSUME NEW y \in Item, NEW w \in User PROVE GrantPaid(y, w)'
      <3>1. CASE grant' = grant
        BY <2>3, <2>4, <3>1 DEF Inv, GrantPaid, Exists, ValidGrant
      <3>2. CASE /\ u \in told[x] /\ grant' = [grant EXCEPT ![x][u] = item[x].unlockVersion]
        <4>1. GrantPaid(y, w)  BY DEF Inv
        <4>2. \/ y = x /\ w = u /\ grant'[y][w] = item[x].unlockVersion
              \/ grant'[y][w] = grant[y][w]
          BY <1>t, <3>2 DEF TypeOK
        <4>3. UNCHANGED <<item, told>>  BY <2>3
        <4>4. CASE grant'[y][w] = grant[y][w]
          BY <4>1, <4>3, <4>4 DEF GrantPaid, Exists, ValidGrant
        <4>5. CASE y = x /\ w = u /\ grant'[y][w] = item[x].unlockVersion
          BY <2>2, <3>2, <4>1, <4>3, <4>5 DEF GrantPaid, Exists, ValidGrant
        <4> QED BY <4>2, <4>4, <4>5
      <3> QED BY <2>3, <3>1, <3>2
    <2>5. TypeOK'
      <3>1. grant' \in [Item -> [User -> Nat]]
        <4>1. ASSUME NEW n \in Nat
              PROVE [grant EXCEPT ![x][u] = n] \in [Item -> [User -> Nat]]
          BY <1>t DEF TypeOK
        <4> QED BY <1>t, <2>2, <2>3, <4>1 DEF TypeOK
      <3>2. call' \in [Proc -> {Idle} \cup [item : Item, user : User, read : Row]]
        BY <1>t, <2>3 DEF TypeOK
      <3> QED BY <1>t, <2>3, <3>1, <3>2 DEF TypeOK, InCollections, Live, Exists
    <2>6. ASSUME NEW q \in Proc PROVE CallKnows(call[q])'
      <3>1. CASE q = p  BY <1>t, <2>3, <3>1 DEF CallKnows, TypeOK
      <3>2. CASE q # p
        BY <1>t, <2>3, <3>2 DEF Inv, CallKnows, Unchanged, Exists, TypeOK
      <3> QED BY <3>1, <3>2
    <2> QED BY <1>v, <2>3, <2>4, <2>5, <2>6
  <1>13. ASSUME UNCHANGED <<home, item, members, grant, call, told>>,
                active' \in BOOLEAN, enrolled' \subseteq User
         PROVE Inv'
    <2>1. TypeOK'  BY <1>13, <1>t DEF TypeOK, InCollections, Live, Exists
    <2>2. /\ \A x \in Item, u \in User : GrantPaid(x, u)'
          /\ \A p \in Proc : CallKnows(call[p])'
      BY <1>13 DEF Inv, GrantPaid, CallKnows, Unchanged, Exists, ValidGrant
    <2> QED BY <1>13, <1>v, <2>1, <2>2
  <1>14. ASSUME InstitutionChanges PROVE Inv'
    BY <1>13, <1>14, <1>t DEF InstitutionChanges, TypeOK
  <1>15. ASSUME NEW u \in User \ Admin, Enrolls(u) PROVE Inv'
    BY <1>13, <1>15, <1>t DEF Enrolls, TypeOK
  <1>16. CASE UNCHANGED vars  BY <1>13, <1>16, <1>t DEF vars, TypeOK
  <1>17. ASSUME NEW x \in Item, Publish(x) \/ Archive(x) \/ Unarchive(x) \/ Delete(x)
         PROVE Inv'
    BY <1>7, <1>17 DEF Publish, Archive, Unarchive, Delete
  <1> QED BY <1>1, <1>2, <1>3, <1>4, <1>5, <1>6, <1>8, <1>9, <1>10, <1>11, <1>12, <1>14,
             <1>15, <1>16, <1>17 DEF Next

LEMMA Invariance == Spec => []Inv
  BY InvInit, InvNext, PTL DEF Spec
-----------------------------------------------------------------------------
(* A collection belongs to whom its resources belong to.                     *)
LEMMA SameHome ==
  ASSUME Inv, NEW c \in Collection, Live(c), NEW r \in members[c]
  PROVE  /\ home[c] = home[r] /\ item[r].policy \in Allowed(item[c].policy)
         /\ Exists(r) /\ r \in Item /\ r \in Resource
         /\ \A u \in User : Manages(c, u) => Manages(r, u)
  BY DEF Inv, TypeOK, Held, MembersCompatible, Compatible, CompatiblePolicies, Manages, Item

(* The PIN is presented: see PinPresented.                                   *)
LEMMA InvPin == Inv => PinPresented
  <1> SUFFICES ASSUME Inv, NEW x \in Item, NEW u \in User, Live(x),
                      item[x].policy = "PURCHASE", Access(x, u), ~Manages(x, u)
               PROVE u \in told[x]
    BY DEF PinPresented
  <1>1. ValidGrant(x, u)  BY DEF Access
  <1> QED BY <1>1 DEF Inv, GrantPaid, Live

(* What a collection gives away.                                             *)
LEMMA InvNoLeak == Inv => NoLeak
  <1> SUFFICES ASSUME Inv, NEW c \in Collection, NEW r \in Resource, NEW u \in User,
                      DeliversIn(c, r, u), item[r].policy # "FREE", ~Manages(r, u)
               PROVE \/ item[r].policy = "ENROLLED" /\ u \in enrolled
                     \/ item[r].policy = "PURCHASE" /\ u \in told[c]
    BY DEF NoLeak
  <1>1. /\ Live(c) /\ r \in members[c] /\ Access(c, u) /\ c \in Item
    BY DEF DeliversIn, Visible, Item
  <1>2. item[r].policy \in Allowed(item[c].policy) /\ ~Manages(c, u)
    BY <1>1, SameHome
  <1>3. CASE item[c].policy = "ENROLLED" /\ u \in enrolled
    BY <1>2, <1>3 DEF Allowed
  <1>4. CASE item[c].policy = "PURCHASE"
    BY <1>1, <1>2, <1>4, InvPin DEF PinPresented, Allowed
  <1>5. CASE item[c].policy = "FREE"  BY <1>2, <1>5 DEF Allowed
  <1> QED BY <1>1, <1>2, <1>3, <1>4, <1>5 DEF Access

(* What is listed, and what is visible.                                      *)
LEMMA InvListed == Inv => ListedIsVisible
  <1> SUFFICES ASSUME Inv, NEW x \in Item, NEW u \in User
               PROVE /\ Listed(x) => Visible(x, u, FALSE)
                     /\ Visible(x, u, FALSE) /\ ~Manages(x, u) => Listed(x)
                     /\ \A c \in Collection :
                          x \in Resource /\ ItemListed(c, x, u) => Visible(x, u, TRUE)
    BY DEF ListedIsVisible
  <1>1. Listed(x) => Visible(x, u, FALSE)  BY DEF Listed, Visible, Item
  <1>2. Visible(x, u, FALSE) /\ ~Manages(x, u) => Listed(x)
    BY CatalogAssumption DEF Listed, Visible
  <1>3. ASSUME NEW c \in Collection, x \in Resource, ItemListed(c, x, u)
        PROVE Visible(x, u, TRUE)
    <2>1. Live(c) /\ x \in members[c] /\ Visible(c, u, FALSE)
      BY <1>3 DEF ItemListed, Visible
    <2>2. home[c] = home[x] /\ Exists(x) /\ (Manages(c, u) => Manages(x, u))
      BY <2>1, SameHome
    <2> QED BY <1>3, <2>1, <2>2 DEF ItemListed, Visible, Live, Open
  <1> QED BY <1>1, <1>2, <1>3

(* No one opens a paid item but with its present PIN.                        *)
THEOREM PinIsPresented == Spec => []PinPresented
  BY Invariance, InvPin, PTL

(* A collection stays compatible with what it holds, within its bounds, and  *)
(* opens nothing that its own policy does not pay for.                       *)
THEOREM CollectionsAreSound == Spec => []CollectionsSound
  <1>1. Inv => CollectionsSound  BY InvNoLeak DEF Inv, CollectionsSound
  <1> QED BY <1>1, Invariance, PTL

(* The catalogue's query and the access policy agree.                        *)
THEOREM ListedIsWhatIsVisible == Spec => []ListedIsVisible
  BY Invariance, InvListed, PTL
=============================================================================
