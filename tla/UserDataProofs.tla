-------------------------- MODULE UserDataProofs --------------------------
(***************************************************************************)
(* Theorems about UserData, for any number of items, clients, updates and  *)
(* exports, and any limit of the audit log's reads.                        *)
(***************************************************************************)
EXTENDS UserData, TLAPS

-----------------------------------------------------------------------------
(* The inductive invariant *)

(* What a deletion has found of store s is gone, but for what was restored. *)
Rid(found, s) == found \cap held[s] \subseteq restored /\ (s # "preferences" => found \cap held[s] = {})

(* A deletion without an error is rid of what its steps so far erase.      *)
(* Of the sessions it has found, the live ones are among the ids that it   *)
(* has read and not yet deleted.                                           *)
Deleting(q) ==
    /\ q.found \subseteq used
    /\ q.ids # None => q.found \cap held["sessions"] \subseteq q.ids
    /\ ~q.failed => \A j \in 1..6 : j < q.at /\ Deletion[j] \in Stores => Rid(q.found, Deletion[j])

(* An export without a gap owes nothing of the stores it has read, and of  *)
(* the sessions only those whose ids it has still to go through.           *)
Exporting(q) ==
    /\ q.owed \subseteq AllOf(held)
    /\ q.ids # None => q.owed \cap held["sessions"] \subseteq q.ids
    /\ q.complete => \A j \in 1..5 : j < q.at => q.owed \cap held[Gathering[j]] = {}

(* What an update has read is in no other store. *)
Updating(u) ==
    /\ upd[u] \subseteq used
    /\ \A s \in Stores \ {"preferences"} : upd[u] \cap held[s] = {}

IInv ==
    /\ TypeOK
    /\ \A d \in Clients : \A q \in {del[d]} \ {None} : Deleting(q)
    /\ \A e \in Exports : \A q \in {exp[e]} \ {None} : Exporting(q)
    /\ \A u \in Updates : Updating(u)
    /\ \A s \in Stores : Rid(erased, s)

-----------------------------------------------------------------------------
(* What a change of the items leaves alone *)

LEMMA Orders ==
    /\ Len(Deletion) = 6 /\ Len(Gathering) = 5
    /\ \A j \in 1..6 : Deletion[j] \in Stores \cup {"profile"} /\ (Deletion[j] = "profile" <=> j = 6)
    /\ \A j, k \in 1..6 : Deletion[j] = Deletion[k] => j = k
    /\ \A s \in Stores : \E j \in 1..5 : Deletion[j] = s
    /\ \A j \in 1..5 : Gathering[j] \in Stores
    /\ \A s \in Stores : \E j \in 1..5 : Gathering[j] = s
  <1>1. \A j \in 1..6 : j = 1 \/ j = 2 \/ j = 3 \/ j = 4 \/ j = 5 \/ j = 6
    OBVIOUS
  <1>2. /\ Deletion[1] = "sessions" /\ Deletion[2] = "conversations" /\ Deletion[3] = "preferences"
        /\ Deletion[4] = "consents" /\ Deletion[5] = "audit_logs" /\ Deletion[6] = "profile"
        /\ Len(Deletion) = 6
    BY DEF Deletion
  <1>3. /\ Gathering[1] = "sessions" /\ Gathering[2] = "conversations" /\ Gathering[3] = "preferences"
        /\ Gathering[4] = "audit_logs" /\ Gathering[5] = "consents" /\ Len(Gathering) = 5
    BY DEF Gathering
  <1>4. \A s \in Stores : \/ s = "sessions" \/ s = "conversations" \/ s = "preferences"
                          \/ s = "audit_logs" \/ s = "consents"
    BY DEF Stores, Tables
  <1>5. 1 \in 1..5 /\ 2 \in 1..5 /\ 3 \in 1..5 /\ 4 \in 1..5 /\ 5 \in 1..5
    OBVIOUS
  <1>6. \A s \in Stores : \E j \in 1..5 : Deletion[j] = s
    BY <1>2, <1>4, <1>5
  <1>7. \A s \in Stores : \E j \in 1..5 : Gathering[j] = s
    BY <1>3, <1>4, <1>5
  <1>8. \A j, k \in 1..6 : Deletion[j] = Deletion[k] => j = k
    BY <1>1, <1>2
  <1>9. \A j \in 1..6 : Deletion[j] \in Stores \cup {"profile"} /\ (Deletion[j] = "profile" <=> j = 6)
    BY <1>1, <1>2 DEF Stores, Tables
  <1>10. \A j \in 1..5 : Gathering[j] \in Stores
    BY <1>1, <1>3 DEF Stores, Tables
  <1>11. QED
    BY <1>2, <1>3, <1>6, <1>7, <1>8, <1>9, <1>10

(* The stores lose items, or gain new ones, and the preferences may gain   *)
(* some that had been deleted.                                             *)
Change(new, back) ==
    /\ used \subseteq used' /\ restored \subseteq restored'
    /\ new \cap used = {}
    /\ back \subseteq used /\ back \subseteq restored'
    /\ \A s \in Stores : back \cap held[s] = {}
    /\ \A s \in Stores : held'[s] \subseteq held[s] \cup new \cup back
    /\ \A s \in Stores : s # "preferences" => held'[s] \subseteq held[s] \cup new

LEMMA RidOK ==
    ASSUME NEW new, NEW back, Change(new, back), NEW found, found \subseteq used,
           NEW s \in Stores, Rid(found, s)
    PROVE  Rid(found, s)'
  BY DEF Change, Rid

LEMMA DeletingOK ==
    ASSUME NEW new, NEW back, Change(new, back), NEW q, Deleting(q)
    PROVE  Deleting(q)'
  <1>1. q.found \subseteq used /\ q.found \subseteq used'
    BY DEF Change, Deleting
  <1>2. \A s \in Stores : Rid(q.found, s) => Rid(q.found, s)'
    BY <1>1, RidOK
  <1>3. ASSUME ~q.failed, NEW j \in 1..6, j < q.at, Deletion[j] \in Stores
        PROVE  Rid(q.found, Deletion[j])'
    <2>1. Rid(q.found, Deletion[j])
      BY <1>3 DEF Deleting
    <2>2. PICK s \in Stores : s = Deletion[j]
      BY <1>3
    <2>3. Rid(q.found, s)
      BY <2>1, <2>2
    <2>4. Rid(q.found, s)'
      BY <1>2, <2>3
    <2>5. QED
      BY <2>2, <2>4 DEF Rid
  <1>4. ASSUME q.ids # None PROVE q.found \cap held'["sessions"] \subseteq q.ids
    <2>1. held'["sessions"] \subseteq held["sessions"] \cup new /\ new \cap used = {}
      BY DEF Change, Stores
    <2>2. QED
      BY <1>1, <1>4, <2>1 DEF Deleting
  <1>5. QED
    BY <1>1, <1>3, <1>4 DEF Deleting

LEMMA ExportingOK ==
    ASSUME TypeOK, NEW new, NEW back, Change(new, back), NEW q, Exporting(q),
           NEW x, x.owed = q.owed \cap AllOf(held'), x.at = q.at, x.complete = q.complete,
           x.ids = q.ids
    PROVE  Exporting(x)'
  <1>1. ASSUME q.complete, NEW j \in 1..5, j < q.at
        PROVE  x.owed \cap held'[Gathering[j]] = {}
    <2>1. q.owed \cap held[Gathering[j]] = {} /\ q.owed \subseteq AllOf(held) /\ Gathering[j] \in Stores
      BY <1>1, Orders DEF Exporting
    <2>2. \A i \in q.owed : i \in used /\ i \notin new /\ i \notin back
      BY <2>1 DEF AllOf, TypeOK, Change
    <2>3. \A s \in Stores : held'[s] \subseteq held[s] \cup new \cup back
      BY DEF Change
    <2>4. held'[Gathering[j]] \subseteq held[Gathering[j]] \cup new \cup back
      BY <2>1, <2>3
    <2>5. QED
      BY <2>1, <2>2, <2>4
  <1>2. x.owed \subseteq AllOf(held')
    OBVIOUS
  <1>3. ASSUME x.ids # None PROVE x.owed \cap held'["sessions"] \subseteq x.ids
    <2>1. held'["sessions"] \subseteq held["sessions"] \cup new /\ new \cap used = {}
      BY DEF Change, Stores
    <2>2. x.owed \subseteq used
      BY DEF Exporting, TypeOK
    <2>3. QED
      BY <1>3, <2>1, <2>2 DEF Exporting
  <1>4. QED
    BY <1>1, <1>2, <1>3 DEF Exporting, AllOf

LEMMA UpdatingOK ==
    ASSUME NEW new, NEW back, Change(new, back), NEW u \in Updates, Updating(u),
           upd'[u] = upd[u] \/ upd'[u] = {}
    PROVE  Updating(u)'
  BY DEF Change, Updating

(* Seen tells what becomes of the exports. *)
LEMMA SeenOK ==
    ASSUME IInv, NEW new, NEW back, Change(new, back), Seen(held')
    PROVE  \A e \in Exports : \A x \in {exp'[e]} \ {None} : Exporting(x)'
  <1>1. SUFFICES ASSUME NEW e \in Exports, NEW x \in {exp'[e]} \ {None} PROVE Exporting(x)'
    OBVIOUS
  <1>2. exp[e] # None /\ x = [exp[e] EXCEPT !.owed = @ \cap AllOf(held')]
    BY <1>1 DEF Seen
  <1>3. exp[e] \in Reports /\ Exporting(exp[e])
    BY <1>2 DEF IInv, TypeOK
  <1>4. PICK q : q = exp[e]
    OBVIOUS
  <1>5. /\ x.owed = q.owed \cap AllOf(held') /\ x.at = q.at /\ x.complete = q.complete
        /\ x.ids = q.ids
    BY <1>2, <1>3, <1>4 DEF Reports
  <1>6. QED
    BY <1>3, <1>4, <1>5, ExportingOK DEF IInv

(* All that is left to show of a step is its type, where Seen tells what   *)
(* becomes of the exports and the deletions stay as they are.              *)
LEMMA ChangeOK ==
    ASSUME IInv, NEW new, NEW back, Change(new, back), TypeOK', Seen(held'),
           UNCHANGED deletions, \A u \in Updates : upd'[u] = upd[u] \/ upd'[u] = {}
    PROVE  IInv'
  <1>1. ASSUME NEW d \in Clients, NEW q \in {del'[d]} \ {None} PROVE Deleting(q)'
    <2>1. Deleting(q)
      BY <1>1 DEF IInv, deletions
    <2>2. QED
      BY <2>1, DeletingOK
  <1>2. ASSUME NEW e \in Exports, NEW x \in {exp'[e]} \ {None} PROVE Exporting(x)'
    BY <1>2, SeenOK
  <1>3. ASSUME NEW u \in Updates PROVE Updating(u)'
    BY UpdatingOK DEF IInv
  <1>4. ASSUME NEW s \in Stores PROVE Rid(erased, s)'
    <2>1. PICK f : f = erased
      OBVIOUS
    <2>2. erased' = f /\ f \subseteq used /\ Rid(f, s)
      BY <2>1 DEF IInv, TypeOK, deletions
    <2>3. Rid(f, s)'
      BY <2>2, RidOK
    <2>4. QED
      BY <2>2, <2>3 DEF Rid
  <1>5. QED
    BY <1>1, <1>2, <1>3, <1>4 DEF IInv

LEMMA SeenType == ASSUME TypeOK, Seen(held') PROVE exp' \in [Exports -> Reports \cup {None}]
  <1>1. ASSUME NEW e \in Exports, exp[e] # None
        PROVE  [exp[e] EXCEPT !.owed = @ \cap AllOf(held')] \in Reports
    <2>1. exp[e] \in Reports
      BY <1>1 DEF TypeOK
    <2>2. QED
      BY <2>1 DEF Reports
  <1>2. QED
    BY <1>1 DEF Seen

LEMMA Initially == Init => IInv
  <1> SUFFICES ASSUME Init PROVE IInv
    OBVIOUS
  <1>1. TypeOK
    <2>1. AllOf(held) = {}
      BY DEF Init, AllOf
    <2>2. held \in Contents /\ \A s, t \in Stores : held[s] \cap held[t] = {}
      BY DEF Init, Contents
    <2>3. \A s \in Tables : held[s] = {}
      BY DEF Init, Stores
    <2>4. /\ del \in [Clients -> Requests \cup {None}] /\ upd \in [Updates -> SUBSET Items]
          /\ exp \in [Exports -> Reports \cup {None}]
      BY DEF Init
    <2>5. listed \cup pushing \subseteq held["sessions"] /\ listed \cap pushing = {}
      BY DEF Init
    <2>6. QED
      BY <2>1, <2>2, <2>3, <2>4, <2>5 DEF Init, TypeOK
  <1>2. \A s \in Stores : Rid(erased, s)
    BY DEF Init, Rid
  <1>3. \A u \in Updates : Updating(u)
    BY DEF Init, Updating
  <1>4. (\A d \in Clients : del[d] = None) /\ (\A e \in Exports : exp[e] = None)
    BY DEF Init
  <1>5. QED
    BY <1>1, <1>2, <1>3, <1>4 DEF IInv

-----------------------------------------------------------------------------
(* The other requests *)

LEMMA ProfileStep == ASSUME IInv, CreateProfile PROVE IInv'
  <1>1. Change({}, {})
    BY DEF CreateProfile, Change
  <1>2. TypeOK'
    BY DEF CreateProfile, IInv, TypeOK, deletions, lists, AllOf
  <1>3. TypeOK /\ (\A e \in Exports : \A q \in {exp[e]} \ {None} : Exporting(q))
        /\ UNCHANGED <<held, lists, used, deletions, upd, exp, restored>>
    BY DEF CreateProfile, IInv
  <1>4. QED
    BY <1>2, <1>3 DEF IInv, Deleting, Exporting, Updating, Rid, deletions, AllOf

LEMMA CreateStep == ASSUME IInv, NEW s \in Stores, NEW i \in Items, Create(s, i) PROVE IInv'
  <1>1. /\ TypeOK /\ i \notin used /\ used' = used \cup {i} /\ s # "preferences"
        /\ s \in Tables => profile
        /\ held' = [held EXCEPT ![s] = @ \cup {i}] /\ Seen(held')
        /\ pushing' = IF s = "sessions" THEN pushing \cup {i} ELSE pushing
        /\ UNCHANGED <<profile, listed, deletions, upd, restored>>
    BY DEF Create, Make, IInv
  <1>2. \A t \in Stores : held'[t] = IF t = s THEN held[t] \cup {i} ELSE held[t]
    BY <1>1 DEF TypeOK, Contents
  <1>3. Change({i}, {})
    BY <1>1, <1>2 DEF Change
  <1>4. \A t \in Stores : held[t] \subseteq used /\ held[t] \subseteq Items
    BY <1>1 DEF TypeOK, AllOf, Contents
  <1>5. TypeOK'
    <2>1. held' \in Contents /\ used' \subseteq Items
      BY <1>1, <1>4 DEF TypeOK, Contents
    <2>2. AllOf(held') \subseteq used'
      BY <1>1, <1>2, <1>4 DEF AllOf
    <2>3. \A t \in Tables : held'[t] # {} => profile'
      BY <1>1, <1>2 DEF TypeOK, Stores
    <2>4. ASSUME NEW t \in Stores, NEW w \in Stores, t # w PROVE held'[t] \cap held'[w] = {}
      <3>1. held[t] \cap held[w] = {} /\ i \notin held[t] /\ i \notin held[w]
        BY <1>1, <1>4, <2>4 DEF TypeOK
      <3>2. QED
        BY <1>2, <2>4, <3>1
    <2>5. exp' \in [Exports -> Reports \cup {None}]
      BY <1>1, SeenType
    <2>6. listed' \cup pushing' \subseteq held'["sessions"] /\ listed' \cap pushing' = {}
      <3>1. /\ listed \cup pushing \subseteq held["sessions"] /\ listed \cap pushing = {}
            /\ i \notin held["sessions"] /\ "sessions" \in Stores
        BY <1>1, <1>4 DEF TypeOK, Stores
      <3>2. held'["sessions"] = IF s = "sessions" THEN held["sessions"] \cup {i} ELSE held["sessions"]
        BY <1>2, <3>1
      <3>3. QED
        BY <1>1, <3>1, <3>2
    <2>7. QED
      BY <1>1, <2>1, <2>2, <2>3, <2>4, <2>5, <2>6 DEF TypeOK, deletions, AllOf
  <1>6. QED
    BY <1>1, <1>3, <1>5, ChangeOK

(* A step that only takes items away. *)
LEMMA LessType ==
    ASSUME TypeOK, held' \in Contents, \A s \in Stores : held'[s] \subseteq held[s],
           \A s \in Tables : held'[s] # {} => profile', profile' \in BOOLEAN,
           listed' \cup pushing' \subseteq held'["sessions"], listed' \cap pushing' = {},
           Seen(held'), UNCHANGED <<used, restored, upd, asked, erased>>,
           del' \in [Clients -> Requests \cup {None}]
    PROVE  TypeOK'
  <1>1. exp' \in [Exports -> Reports \cup {None}]
    BY SeenType
  <1>2. AllOf(held') \subseteq used'
    BY DEF TypeOK, AllOf
  <1>3. \A s, t \in Stores : s # t => held'[s] \cap held'[t] = {}
    BY DEF TypeOK
  <1>4. QED
    BY <1>1, <1>2, <1>3 DEF TypeOK, AllOf

LEMMA RemoveStep == ASSUME IInv, NEW s \in Stores, NEW i \in Items, Remove(s, i) PROVE IInv'
  <1>1. /\ TypeOK /\ held' = [held EXCEPT ![s] = @ \ {i}] /\ Seen(held')
        /\ listed' = listed \ {i} /\ pushing' = pushing \ {i}
        /\ UNCHANGED <<profile, used, deletions, upd, restored>>
    BY DEF Remove, IInv
  <1>2. held' \in Contents /\ \A t \in Stores : held'[t] \subseteq held[t]
    BY <1>1 DEF TypeOK, Contents
  <1>3. Change({}, {})
    BY <1>1, <1>2 DEF Change
  <1>4. \A t \in Tables : held'[t] # {} => profile'
    BY <1>1, <1>2 DEF TypeOK, Stores
  <1>5. listed' \cup pushing' \subseteq held'["sessions"] /\ listed' \cap pushing' = {}
    <2>1. held["sessions"] \ {i} \subseteq held'["sessions"]
      BY <1>1 DEF TypeOK, Contents, Stores
    <2>2. QED
      BY <1>1, <2>1 DEF TypeOK
  <1>6. TypeOK'
    BY <1>1, <1>2, <1>4, <1>5, LessType DEF deletions, TypeOK
  <1>7. QED
    BY <1>1, <1>3, <1>6, ChangeOK

(* The list of sessions changes. *)
LEMMA ListStep == ASSUME IInv, (\E i \in Items : Push(i)) \/ LoseList PROVE IInv'
  <1>1. /\ TypeOK /\ UNCHANGED <<profile, held, used, deletions, upd, exp, restored>>
        /\ listed' \cup pushing' \subseteq held["sessions"] /\ listed' \cap pushing' = {}
    BY DEF Push, LoseList, IInv, TypeOK
  <1>2. TypeOK'
    BY <1>1 DEF TypeOK, deletions, AllOf
  <1>3. QED
    BY <1>1, <1>2 DEF IInv, Deleting, Exporting, Updating, Rid, deletions, AllOf

(* Both ways of setting the preferences: p holds one new item, and others  *)
(* that an update has read.                                                *)
LEMMA SetStep ==
    ASSUME IInv, NEW i \in Items, NEW read \in SUBSET Items, Make(i), SetTo(read \cup {i}),
           read \subseteq used, \A s \in Stores \ {"preferences"} : read \cap held[s] = {},
           \A u \in Updates : upd'[u] = upd[u] \/ upd'[u] = {},
           upd' \in [Updates -> SUBSET Items]
    PROVE  IInv'
  <1> DEFINE back == read \ held["preferences"]
  <1>1. /\ TypeOK /\ i \notin used /\ used' = used \cup {i} /\ profile
        /\ held' = [held EXCEPT !["preferences"] = read \cup {i}]
        /\ restored' = restored \cup (((read \cup {i}) \cap used) \ held["preferences"])
        /\ Seen(held') /\ UNCHANGED <<profile, lists, deletions>>
    BY DEF Make, SetTo, IInv
  <1>2. \A t \in Stores : held'[t] = IF t = "preferences" THEN read \cup {i} ELSE held[t]
    BY <1>1 DEF TypeOK, Contents
  <1>3. back \subseteq used /\ back \subseteq restored' /\ \A s \in Stores : back \cap held[s] = {}
    BY <1>1
  <1>4. \A s \in Stores : held'[s] \subseteq held[s] \cup {i} \cup back
    BY <1>2
  <1>5. Change({i}, back)
    BY <1>1, <1>2, <1>3, <1>4 DEF Change
  <1>6. \A t \in Stores : held[t] \subseteq used /\ held[t] \subseteq Items
    BY <1>1 DEF TypeOK, AllOf, Contents
  <1>7. TypeOK'
    <2>1. held' \in Contents /\ used' \subseteq Items
      BY <1>1, <1>6 DEF TypeOK, Contents
    <2>2. AllOf(held') \subseteq used'
      BY <1>1, <1>2, <1>6 DEF AllOf
    <2>3. \A t \in Tables : held'[t] # {} => profile'
      BY <1>1
    <2>4. ASSUME NEW t \in Stores, NEW w \in Stores, t # w PROVE held'[t] \cap held'[w] = {}
      <3>1. held[t] \cap held[w] = {} /\ i \notin held[t] /\ i \notin held[w]
        BY <1>1, <1>6, <2>4 DEF TypeOK
      <3>2. CASE t = "preferences"
        BY <1>2, <2>4, <3>1, <3>2
      <3>3. CASE w = "preferences"
        BY <1>2, <2>4, <3>1, <3>3
      <3>4. CASE t # "preferences" /\ w # "preferences"
        BY <1>2, <3>1, <3>4
      <3>5. QED
        BY <3>2, <3>3, <3>4
    <2>5. exp' \in [Exports -> Reports \cup {None}]
      BY <1>1, SeenType
    <2>6. restored' \subseteq used'
      BY <1>1 DEF TypeOK
    <2>7. listed' \cup pushing' \subseteq held'["sessions"] /\ listed' \cap pushing' = {}
      BY <1>1, <1>2 DEF TypeOK, lists, Stores
    <2>8. QED
      BY <1>1, <2>1, <2>2, <2>3, <2>4, <2>5, <2>6, <2>7 DEF TypeOK, deletions, AllOf
  <1>8. PICK b : b = back
    OBVIOUS
  <1>9. Change({i}, b)
    BY <1>5, <1>8
  <1>10. QED
    BY <1>1, <1>7, <1>9, ChangeOK

LEMMA SetPreferencesStep == ASSUME IInv, NEW i \in Items, SetPreferences(i) PROVE IInv'
  <1>1. TypeOK /\ Make(i) /\ SetTo({i}) /\ UNCHANGED upd /\ {i} = {} \cup {i}
    BY DEF SetPreferences, IInv
  <1>2. upd' \in [Updates -> SUBSET Items]
    BY <1>1 DEF TypeOK
  <1>3. PICK read : read = {}
    OBVIOUS
  <1>4. /\ read \in SUBSET Items /\ read \subseteq used /\ SetTo(read \cup {i})
        /\ \A s \in Stores \ {"preferences"} : read \cap held[s] = {}
    BY <1>1, <1>3
  <1>5. QED
    BY <1>1, <1>2, <1>4, SetStep

LEMMA WriteStep ==
    ASSUME IInv, NEW u \in Updates, NEW i \in Items, WritePreferences(u, i) PROVE IInv'
  <1>1. TypeOK /\ Updating(u) /\ Make(i) /\ SetTo(upd[u] \cup {i}) /\ upd' = [upd EXCEPT ![u] = {}]
    BY DEF WritePreferences, IInv
  <1>2. PICK read : read = upd[u]
    OBVIOUS
  <1>3. /\ read \in SUBSET Items /\ read \subseteq used /\ SetTo(read \cup {i})
        /\ \A s \in Stores \ {"preferences"} : read \cap held[s] = {}
    BY <1>1, <1>2 DEF TypeOK, Updating
  <1>4. /\ upd' \in [Updates -> SUBSET Items]
        /\ \A v \in Updates : upd'[v] = upd[v] \/ upd'[v] = {}
    BY <1>1 DEF TypeOK
  <1>5. QED
    BY <1>1, <1>3, <1>4, SetStep

LEMMA ReadStep ==
    ASSUME IInv, NEW u \in Updates, ReadPreferences(u) \/ AbandonUpdate(u) PROVE IInv'
  <1>1. TypeOK /\ UNCHANGED <<profile, held, lists, used, deletions, exp, restored>>
    BY DEF ReadPreferences, AbandonUpdate, IInv
  <1>2. /\ upd' \in [Updates -> SUBSET Items]
        /\ \A v \in Updates : upd'[v] = upd[v] \/ upd'[v] = {} \/ upd'[v] = held["preferences"]
    BY <1>1 DEF ReadPreferences, AbandonUpdate, TypeOK, Contents, Stores, Tables
  <1>3. TypeOK'
    BY <1>1, <1>2 DEF TypeOK, deletions, lists, AllOf
  <1>4. ASSUME NEW v \in Updates PROVE Updating(v)'
    <2>1. /\ held["preferences"] \subseteq used
          /\ \A s \in Stores \ {"preferences"} : held["preferences"] \cap held[s] = {}
      BY <1>1 DEF TypeOK, AllOf, Stores, Tables
    <2>2. Updating(v)
      BY DEF IInv
    <2>3. QED
      BY <1>1, <1>2, <2>1, <2>2 DEF Updating
  <1>5. QED
    BY <1>1, <1>3, <1>4 DEF IInv, Deleting, Exporting, Rid, deletions, AllOf

-----------------------------------------------------------------------------
(* The deletion *)

(* A request that steps from q to x has erased what x needs to have erased. *)
LEMMA OneDeletion ==
    ASSUME IInv, NEW d \in Clients, NEW x \in Requests \cup {None}, del' = [del EXCEPT ![d] = x],
           x # None => Deleting(x)',
           \A c \in Clients : \A q \in {del[c]} \ {None} : Deleting(q)'
    PROVE  /\ del' \in [Clients -> Requests \cup {None}]
           /\ \A c \in Clients : \A q \in {del'[c]} \ {None} : Deleting(q)'
  <1>1. del \in [Clients -> Requests \cup {None}]
    BY DEF IInv, TypeOK
  <1>2. \A c \in Clients : del'[c] = IF c = d THEN x ELSE del[c]
    BY <1>1
  <1>3. QED
    BY <1>1, <1>2

(* Steps that touch nothing but the deletions and the list of sessions. *)
LEMMA QuietOK ==
    ASSUME IInv, UNCHANGED <<profile, held, pushing, used, upd, exp, restored>>,
           listed' \subseteq listed,
           del' \in [Clients -> Requests \cup {None}], asked' \subseteq Clients,
           \A c \in Clients : \A q \in {del'[c]} \ {None} : Deleting(q)',
           erased' \subseteq used, \A s \in Stores : Rid(erased, s)'
    PROVE  IInv'
  <1>1. TypeOK'
    BY DEF IInv, TypeOK, AllOf
  <1>2. QED
    BY <1>1 DEF IInv, Exporting, Updating, AllOf

LEMMA SameDeleting ==
    ASSUME UNCHANGED <<held, used, restored>>, NEW q, Deleting(q)
    PROVE  Deleting(q)'
  BY DEF Deleting, Rid

LEMMA AskStep == ASSUME IInv, NEW d \in Clients, Ask(d) PROVE IInv'
  <1>1. PICK x : x = [at |-> 1, failed |-> FALSE, found |-> AllOf(held), ids |-> None]
    OBVIOUS
  <1>2. /\ TypeOK /\ del' = [del EXCEPT ![d] = x] /\ asked' = asked \cup {d}
        /\ UNCHANGED <<profile, held, lists, used, upd, exp, erased, restored>>
    BY <1>1 DEF Ask, IInv
  <1>3. x \in Requests /\ x.found \subseteq used /\ x.at = 1 /\ x.ids = None
    BY <1>1, <1>2 DEF Requests, Listings, TypeOK
  <1>4. Deleting(x)'
    BY <1>2, <1>3 DEF Deleting
  <1>5. \A c \in Clients : \A q \in {del[c]} \ {None} : Deleting(q)'
    BY <1>2, SameDeleting DEF IInv
  <1>6. /\ del' \in [Clients -> Requests \cup {None}]
        /\ \A c \in Clients : \A q \in {del'[c]} \ {None} : Deleting(q)'
    BY <1>2, <1>3, <1>4, <1>5, OneDeletion
  <1>7. QED
    BY <1>2, <1>6, QuietOK DEF IInv, TypeOK, Rid, lists

LEMMA CrashStep == ASSUME IInv, NEW d \in Clients, Crash(d) PROVE IInv'
  <1>1. /\ TypeOK /\ del' = [del EXCEPT ![d] = None]
        /\ UNCHANGED <<profile, held, lists, used, asked, upd, exp, erased, restored>>
    BY DEF Crash, IInv
  <1>2. \A c \in Clients : \A q \in {del[c]} \ {None} : Deleting(q)'
    BY <1>1, SameDeleting DEF IInv
  <1>3. PICK x : x = None
    OBVIOUS
  <1>4. x \in Requests \cup {None} /\ del' = [del EXCEPT ![d] = x] /\ ~(x # None)
    BY <1>1, <1>3
  <1>5. /\ del' \in [Clients -> Requests \cup {None}]
        /\ \A c \in Clients : \A q \in {del'[c]} \ {None} : Deleting(q)'
    BY <1>2, <1>4, OneDeletion
  <1>6. QED
    BY <1>1, <1>5, QuietOK DEF IInv, TypeOK, Rid, lists

(* After the last step, nothing of what it found is left. *)
LEMMA AnswerStep == ASSUME IInv, NEW d \in Clients, Answer(d) PROVE IInv'
  <1>1. /\ TypeOK /\ del' = [del EXCEPT ![d] = None] /\ del[d] # None /\ del[d].at = 7
        /\ UNCHANGED <<profile, held, lists, used, upd, exp, restored>>
    BY Orders DEF Answer, IInv
  <1>2. \A c \in Clients : \A q \in {del[c]} \ {None} : Deleting(q)'
    BY <1>1, SameDeleting DEF IInv
  <1>3. PICK x : x = None
    OBVIOUS
  <1>4. x \in Requests \cup {None} /\ del' = [del EXCEPT ![d] = x] /\ ~(x # None)
    BY <1>1, <1>3
  <1>5. /\ del' \in [Clients -> Requests \cup {None}]
        /\ \A c \in Clients : \A q \in {del'[c]} \ {None} : Deleting(q)'
    BY <1>2, <1>4, OneDeletion
  <1>6. Deleting(del[d])
    BY <1>1 DEF IInv
  <1>7. asked' \subseteq Clients /\ (erased' = erased \/ (~del[d].failed /\ erased' = erased \cup del[d].found))
    BY <1>1 DEF Answer, TypeOK
  <1>8. ASSUME ~del[d].failed, NEW s \in Stores PROVE Rid(del[d].found, s)
    <2>1. PICK j \in 1..5 : Deletion[j] = s
      BY Orders
    <2>2. j \in 1..6 /\ j < del[d].at
      BY <1>1, <2>1
    <2>3. QED
      BY <1>6, <1>8, <2>1, <2>2 DEF Deleting
  <1>9. ASSUME NEW s \in Stores PROVE Rid(erased, s)'
    <2>1. Rid(erased, s)
      BY DEF IInv
    <2>2. QED
      BY <1>1, <1>7, <1>8, <2>1 DEF Rid
  <1>10. erased' \subseteq used
    BY <1>1, <1>6, <1>7 DEF TypeOK, Deleting
  <1>11. QED
    BY <1>1, <1>5, <1>7, <1>9, <1>10, QuietOK DEF lists

(* What a step makes of its own request. *)
LEMMA Stepped ==
    ASSUME TypeOK, NEW d \in Clients, NEW s, AtStep(d, s), NEW error \in BOOLEAN, NextStep(d, error),
           NEW q, q = del[d]
    PROVE  /\ q \in Requests /\ q.at \in 1..6 /\ Deletion[q.at] = s /\ q # None
           /\ \E x \in Requests :
                /\ x.at = q.at + 1 /\ x.found = (IF error THEN {} ELSE q.found)
                /\ x.failed = (q.failed \/ error) /\ x.ids = None
                /\ del' = [del EXCEPT ![d] = x]
  <1>1. q \in Requests /\ q.at \in 1..6 /\ Deletion[q.at] = s /\ q # None
    BY Orders DEF AtStep, TypeOK, Requests
  <1> DEFINE x == [q EXCEPT !.at = @ + 1, !.failed = @ \/ error, !.ids = None,
                            !.found = IF error THEN {} ELSE @]
  <1>2. PICK f \in BOOLEAN : f = (q.failed \/ error)
    OBVIOUS
  <1>3. PICK g : g = (IF error THEN {} ELSE q.found)
    OBVIOUS
  <1>4. PICK y : y = [at |-> q.at + 1, failed |-> f, found |-> g, ids |-> None]
    OBVIOUS
  <1>5. y \in Requests
    <2>1. q.at + 1 \in 1..7 /\ g \in SUBSET Items
      BY <1>1, <1>3 DEF Requests
    <2>2. QED
      BY <1>4, <2>1 DEF Requests, Listings
  <1>6. x = y
    <2>1. x = [q EXCEPT !.at = @ + 1, !.failed = f, !.ids = None, !.found = g]
      BY <1>2, <1>3, Zenon
    <2>2. PICK u : u = [q EXCEPT !.at = @ + 1]
      OBVIOUS
    <2>3. u = [at |-> q.at + 1, failed |-> q.failed, found |-> q.found, ids |-> q.ids]
      BY <1>1, <2>2 DEF Requests
    <2>4. PICK v : v = [u EXCEPT !.failed = f, !.ids = None]
      OBVIOUS
    <2>5. v = [at |-> q.at + 1, failed |-> f, found |-> q.found, ids |-> None]
      BY <2>3, <2>4
    <2>6. [v EXCEPT !.found = g] = y
      BY <1>4, <2>5
    <2>7. x = [v EXCEPT !.found = g]
      BY <2>1, <2>2, <2>4, Zenon
    <2>8. QED
      BY <2>6, <2>7, Zenon
  <1>7. del' = [del EXCEPT ![d] = x]
    BY Zenon DEF NextStep
  <1> HIDE DEF x
  <1>8. del' = [del EXCEPT ![d] = y]
    BY <1>6, <1>7
  <1>9. QED
    BY <1>1, <1>2, <1>3, <1>4, <1>5, <1>8

(* A step after which a deletion has nothing to answer for. *)
LEMMA ErrorOK ==
    ASSUME NEW x \in Requests, x.found = {}, x.failed, x.ids = None
    PROVE  Deleting(x)'
  BY DEF Deleting

LEMMA FailStep ==
    ASSUME IInv, NEW d \in Clients, NEW s, FailToErase(d, s) PROVE IInv'
  <1>1. /\ TypeOK /\ AtStep(d, s) /\ NextStep(d, TRUE)
        /\ UNCHANGED <<profile, held, lists, used, asked, upd, exp, erased, restored>>
    BY DEF FailToErase, IInv
  <1>2. PICK error \in BOOLEAN : error = TRUE
    OBVIOUS
  <1>3. NextStep(d, error)
    BY <1>1, <1>2
  <1>4. PICK x \in Requests : x.found = {} /\ x.failed /\ x.ids = None /\ del' = [del EXCEPT ![d] = x]
    <2>1. PICK q : q = del[d]
      OBVIOUS
    <2>2. PICK x \in Requests : /\ x.at = q.at + 1 /\ x.found = (IF error THEN {} ELSE q.found)
                               /\ x.failed = (q.failed \/ error) /\ x.ids = None
                               /\ del' = [del EXCEPT ![d] = x]
      BY <1>1, <1>3, <2>1, Stepped
    <2>3. QED
      BY <1>2, <2>2
  <1>5. \A c \in Clients : \A y \in {del[c]} \ {None} : Deleting(y)'
    BY <1>1, SameDeleting DEF IInv
  <1>6. Deleting(x)'
    BY <1>4, ErrorOK
  <1>7. /\ del' \in [Clients -> Requests \cup {None}]
        /\ \A c \in Clients : \A y \in {del'[c]} \ {None} : Deleting(y)'
    BY <1>4, <1>5, <1>6, OneDeletion
  <1>8. QED
    BY <1>1, <1>7, QuietOK DEF IInv, TypeOK, Rid, lists

(* A request goes from its record to x, and some items go. *)
LEMMA LosingOK ==
    ASSUME IInv, held' \in Contents, \A s \in Stores : held'[s] \subseteq held[s],
           NEW d \in Clients, NEW x \in Requests, del' = [del EXCEPT ![d] = x], Deleting(x)',
           profile' \in BOOLEAN, \A s \in Tables : held'[s] # {} => profile',
           listed' \cup pushing' \subseteq held'["sessions"], listed' \cap pushing' = {},
           Seen(held'), UNCHANGED <<used, asked, upd, erased, restored>>
    PROVE  IInv'
  <1>1. Change({}, {})
    BY DEF Change
  <1>2. \A c \in Clients : \A y \in {del[c]} \ {None} : Deleting(y)'
    BY <1>1, DeletingOK DEF IInv
  <1>3. /\ del' \in [Clients -> Requests \cup {None}]
        /\ \A c \in Clients : \A y \in {del'[c]} \ {None} : Deleting(y)'
    BY <1>2, OneDeletion
  <1>4. TypeOK'
    BY <1>3, LessType DEF IInv
  <1>5. \A e \in Exports : \A y \in {exp'[e]} \ {None} : Exporting(y)'
    BY <1>1, SeenOK
  <1>6. ASSUME NEW u \in Updates PROVE Updating(u)'
    BY <1>1, UpdatingOK DEF IInv
  <1>7. ASSUME NEW t \in Stores PROVE Rid(erased, t)'
    BY DEF Rid, IInv
  <1>8. QED
    BY <1>3, <1>4, <1>5, <1>6, <1>7 DEF IInv

LEMMA EraseStep ==
    ASSUME IInv, NEW d \in Clients, NEW s \in Stores \cup {"profile"}, Erase(d, s) PROVE IInv'
  <1>1. PICK error \in BOOLEAN : NextStep(d, error)
    BY DEF Erase
  <1>2. /\ TypeOK /\ AtStep(d, s) /\ s # "sessions" /\ held' = WithoutRows(held, s)
        /\ profile' = (profile /\ s # "profile") /\ Seen(held')
        /\ UNCHANGED <<lists, used, asked, upd, erased, restored>>
    BY DEF Erase, IInv
  <1>3. /\ held' \in Contents /\ \A t \in Stores : held'[t] \subseteq held[t]
        /\ s \in Stores => held'[s] = {}
        /\ s = "profile" => \A t \in Tables : held'[t] = {}
        /\ held'["sessions"] = held["sessions"]
    <2>1. CASE s = "profile"
      BY <1>2, <2>1 DEF WithoutRows, TypeOK, Contents, Stores, Tables
    <2>2. CASE s # "profile"
      BY <1>2, <2>2 DEF WithoutRows, TypeOK, Contents, Stores
    <2>3. QED
      BY <2>1, <2>2
  <1>4. Change({}, {})
    BY <1>2, <1>3 DEF Change
  <1>5. PICK q : q = del[d]
    OBVIOUS
  <1>6. PICK x \in Requests : /\ x.at = q.at + 1 /\ x.found = (IF error THEN {} ELSE q.found)
                             /\ x.failed = (q.failed \/ error) /\ x.ids = None
                             /\ del' = [del EXCEPT ![d] = x]
    BY <1>1, <1>2, <1>5, Stepped
  <1>7. q \in Requests /\ q.at \in 1..6 /\ Deletion[q.at] = s /\ q # None
    BY <1>1, <1>2, <1>5, Stepped
  <1>8. Deleting(q)'
    BY <1>4, <1>5, <1>7, DeletingOK DEF IInv
  <1>9. Deleting(x)'
    <2>1. CASE error
      BY <1>6, <2>1, ErrorOK
    <2>2. CASE ~error
      <3>1. x.found = q.found /\ x.failed = q.failed
        BY <1>6, <1>7, <2>2 DEF Requests
      <3>2. ASSUME ~x.failed, NEW j \in 1..6, j < x.at, Deletion[j] \in Stores
            PROVE  Rid(x.found, Deletion[j])'
        <4>1. CASE j < q.at
          BY <1>8, <3>1, <3>2, <4>1 DEF Deleting, Rid
        <4>2. CASE j = q.at
          <5>1. held'[Deletion[j]] = {}
            BY <1>3, <1>7, <3>2, <4>2
          <5>2. QED
            BY <5>1 DEF Rid
        <4>3. QED
          BY <1>6, <1>7, <3>2, <4>1, <4>2
      <3>3. x.found \subseteq used'
        BY <1>8, <3>1 DEF Deleting
      <3>4. QED
        BY <1>6, <3>2, <3>3 DEF Deleting
    <2>3. QED
      BY <2>1, <2>2
  <1>10. ASSUME NEW t \in Tables, held'[t] # {} PROVE profile'
    <2>1. t \in Stores /\ held[t] # {} /\ s # "profile"
      BY <1>3, <1>10 DEF Stores
    <2>2. QED
      BY <1>2, <1>10, <2>1 DEF TypeOK
  <1>11. profile' \in BOOLEAN
    BY <1>2 DEF TypeOK
  <1>12. listed' \cup pushing' \subseteq held'["sessions"] /\ listed' \cap pushing' = {}
    BY <1>2, <1>3 DEF TypeOK, lists
  <1>13. QED
    BY <1>2, <1>3, <1>6, <1>9, <1>10, <1>11, <1>12, LosingOK

(* LRANGE: the sessions it does not return count no longer. *)
LEMMA ListToEraseStep ==
    ASSUME IInv, NEW d \in Clients, ListToErase(d) PROVE IInv'
  <1>1. PICK q : q = del[d]
    OBVIOUS
  <1>2. PICK f : f = q.found \ (held["sessions"] \ listed)
    OBVIOUS
  <1>3. PICK x : x = [q EXCEPT !.ids = listed, !.found = f]
    OBVIOUS
  <1>4. /\ TypeOK /\ q # None /\ del' = [del EXCEPT ![d] = x]
        /\ UNCHANGED <<profile, held, lists, used, asked, upd, exp, erased, restored>>
    BY <1>1, <1>2, <1>3 DEF ListToErase, AtStep, IInv
  <1>5. q \in Requests /\ Deleting(q)
    BY <1>1, <1>4 DEF IInv, TypeOK
  <1>6. x.ids = listed /\ x.found = f /\ x.at = q.at /\ x.failed = q.failed
    BY <1>3, <1>5 DEF Requests
  <1>7. x \in Requests
    <2>1. listed \in SUBSET Items
      BY <1>4 DEF TypeOK, AllOf, Stores
    <2>2. f \in SUBSET Items
      BY <1>2, <1>5 DEF Requests
    <2>3. QED
      BY <1>3, <1>5, <2>1, <2>2 DEF Requests, Listings
  <1>8. Deleting(x)'
    <2>1. f \subseteq q.found /\ f \cap held["sessions"] \subseteq listed
      BY <1>2
    <2>2. Deleting(x)
      BY <1>5, <1>6, <2>1 DEF Deleting, Rid
    <2>3. QED
      BY <1>4, <2>2, SameDeleting
  <1>9. \A c \in Clients : \A y \in {del[c]} \ {None} : Deleting(y)'
    BY <1>4, SameDeleting DEF IInv
  <1>10. /\ del' \in [Clients -> Requests \cup {None}]
         /\ \A c \in Clients : \A y \in {del'[c]} \ {None} : Deleting(y)'
    BY <1>4, <1>7, <1>8, <1>9, OneDeletion
  <1>11. QED
    BY <1>4, <1>10, QuietOK DEF IInv, TypeOK, Rid, lists

(* DEL of a session whose id was read. *)
LEMMA EraseSessionStep ==
    ASSUME IInv, NEW d \in Clients, NEW i \in Items, EraseSession(d, i) PROVE IInv'
  <1>1. /\ TypeOK /\ AtStep(d, "sessions") /\ del[d].ids # None
        /\ held' = [held EXCEPT !["sessions"] = @ \ {i}]
        /\ listed' = listed \ {i} /\ pushing' = pushing \ {i}
        /\ del' = [del EXCEPT ![d].ids = @ \ {i}] \/ NextStep(d, TRUE)
        /\ Seen(held') /\ UNCHANGED <<profile, used, asked, upd, erased, restored>>
    BY DEF EraseSession, IInv
  <1>2. /\ held' \in Contents /\ \A t \in Stores : held'[t] \subseteq held[t]
        /\ held'["sessions"] = held["sessions"] \ {i}
    BY <1>1 DEF TypeOK, Contents, Stores
  <1>3. Change({}, {})
    BY <1>1, <1>2 DEF Change
  <1>4. PICK q : q = del[d]
    OBVIOUS
  <1>5. q # None /\ q \in Requests /\ q.ids # None
    BY <1>1, <1>4 DEF AtStep, TypeOK
  <1>6. Deleting(q) /\ Deleting(q)'
    BY <1>3, <1>4, <1>5, DeletingOK DEF IInv
  <1>7. \E x \in Requests : del' = [del EXCEPT ![d] = x] /\ Deleting(x)'
    <2>1. CASE del' = [del EXCEPT ![d].ids = @ \ {i}]
      <3>1. PICK ids : ids = q.ids \ {i}
        OBVIOUS
      <3>2. PICK x : x = [q EXCEPT !.ids = ids]
        OBVIOUS
      <3>3. del' = [del EXCEPT ![d] = x]
        BY <1>4, <2>1, <3>1, <3>2
      <3>4. ids \in SUBSET Items
        BY <1>5, <3>1 DEF Requests, Listings
      <3>5. /\ x \in Requests /\ x.ids = ids /\ x.found = q.found
            /\ x.at = q.at /\ x.failed = q.failed
        BY <1>5, <3>2, <3>4 DEF Requests, Listings
      <3>6. x.found \cap held'["sessions"] \subseteq x.ids
        BY <1>2, <1>5, <1>6, <3>1, <3>5 DEF Deleting
      <3>7. Deleting(x)'
        BY <1>6, <3>5, <3>6 DEF Deleting, Rid
      <3>8. QED
        BY <3>3, <3>5, <3>7
    <2>2. CASE NextStep(d, TRUE)
      <3>1. PICK error \in BOOLEAN : error = TRUE
        OBVIOUS
      <3>2. NextStep(d, error)
        BY <2>2, <3>1
      <3>3. PICK x \in Requests : /\ x.at = q.at + 1 /\ x.found = (IF error THEN {} ELSE q.found)
                                 /\ x.failed = (q.failed \/ error) /\ x.ids = None
                                 /\ del' = [del EXCEPT ![d] = x]
        BY <1>1, <1>4, <3>2, Stepped
      <3>4. x.found = {} /\ x.failed
        BY <3>1, <3>3
      <3>5. QED
        BY <3>3, <3>4, ErrorOK
    <2>3. QED
      BY <1>1, <2>1, <2>2
  <1>8. listed' \cup pushing' \subseteq held'["sessions"] /\ listed' \cap pushing' = {}
    BY <1>1, <1>2 DEF TypeOK
  <1>9. \A t \in Tables : held'[t] # {} => profile'
    BY <1>1, <1>2 DEF TypeOK, Stores
  <1>10. profile' \in BOOLEAN
    BY <1>1 DEF TypeOK
  <1>11. QED
    BY <1>1, <1>2, <1>7, <1>8, <1>9, <1>10, LosingOK

(* DEL of the list: all that was read has been deleted. *)
LEMMA DropListStep ==
    ASSUME IInv, NEW d \in Clients, DropList(d) PROVE IInv'
  <1>1. PICK error \in BOOLEAN : NextStep(d, error)
    BY DEF DropList
  <1>2. /\ TypeOK /\ AtStep(d, "sessions") /\ del[d].ids = {} /\ listed' = {}
        /\ UNCHANGED <<profile, held, pushing, used, asked, upd, exp, erased, restored>>
    BY DEF DropList, IInv
  <1>3. PICK q : q = del[d]
    OBVIOUS
  <1>4. PICK x \in Requests : /\ x.at = q.at + 1 /\ x.found = (IF error THEN {} ELSE q.found)
                             /\ x.failed = (q.failed \/ error) /\ x.ids = None
                             /\ del' = [del EXCEPT ![d] = x]
    BY <1>1, <1>2, <1>3, Stepped
  <1>5. q \in Requests /\ q.at \in 1..6 /\ Deletion[q.at] = "sessions" /\ q # None
    BY <1>1, <1>2, <1>3, Stepped
  <1>6. Deleting(q) /\ q.ids = {} /\ q.ids # None
    BY <1>2, <1>3, <1>5, NoneAssumption DEF IInv
  <1>7. Deleting(x)'
    <2>1. CASE error
      BY <1>4, <2>1, ErrorOK
    <2>2. CASE ~error
      <3>1. x.found = q.found /\ x.failed = q.failed
        BY <1>4, <1>5, <2>2 DEF Requests
      <3>2. x.found \cap held["sessions"] = {}
        BY <1>6, <3>1 DEF Deleting
      <3>3. ASSUME ~x.failed, NEW j \in 1..6, j < x.at, Deletion[j] \in Stores
            PROVE  Rid(x.found, Deletion[j])
        <4>1. CASE j < q.at
          BY <1>6, <3>1, <3>3, <4>1 DEF Deleting
        <4>2. CASE j = q.at
          BY <1>5, <3>2, <4>2 DEF Rid
        <4>3. QED
          BY <1>4, <1>5, <3>3, <4>1, <4>2
      <3>4. Deleting(x)
        BY <1>4, <1>6, <3>1, <3>3 DEF Deleting
      <3>5. QED
        BY <1>2, <3>4, SameDeleting
    <2>3. QED
      BY <2>1, <2>2
  <1>8. \A c \in Clients : \A y \in {del[c]} \ {None} : Deleting(y)'
    BY <1>2, SameDeleting DEF IInv
  <1>9. /\ del' \in [Clients -> Requests \cup {None}]
        /\ \A c \in Clients : \A y \in {del'[c]} \ {None} : Deleting(y)'
    BY <1>4, <1>7, <1>8, OneDeletion
  <1>10. QED
    BY <1>2, <1>9, QuietOK DEF IInv, TypeOK, Rid

-----------------------------------------------------------------------------
(* The export *)

(* A step of an export, which changes nothing else. *)
LEMMA ExportOK ==
    ASSUME IInv, NEW e \in Exports, NEW x \in Reports \cup {None}, exp' = [exp EXCEPT ![e] = x],
           x # None => Exporting(x), UNCHANGED <<profile, held, lists, used, deletions, upd, restored>>
    PROVE  IInv'
  <1>1. exp' \in [Exports -> Reports \cup {None}] /\ \A f \in Exports : exp'[f] = IF f = e THEN x ELSE exp[f]
    BY DEF IInv, TypeOK
  <1>2. TypeOK'
    BY <1>1 DEF IInv, TypeOK, deletions, lists, AllOf
  <1>3. ASSUME NEW f \in Exports, NEW y \in {exp'[f]} \ {None} PROVE Exporting(y)'
    <2>1. Exporting(y)
      BY <1>1, <1>3 DEF IInv
    <2>2. QED
      BY <2>1 DEF Exporting, AllOf
  <1>4. QED
    BY <1>2, <1>3 DEF IInv, Deleting, Updating, Rid, deletions

LEMMA BeginStep == ASSUME IInv, NEW e \in Exports, BeginExport(e) PROVE IInv'
  <1>1. PICK x : x = [at |-> 1, complete |-> TRUE, owed |-> AllOf(held), ids |-> None]
    OBVIOUS
  <1>2. TypeOK /\ exp' = [exp EXCEPT ![e] = x] /\ UNCHANGED <<profile, held, lists, used, deletions, upd, restored>>
    BY <1>1 DEF BeginExport, IInv
  <1>3. x \in Reports
    BY <1>1, <1>2 DEF Reports, Listings, TypeOK
  <1>4. Exporting(x)
    BY <1>1 DEF Exporting
  <1>5. QED
    BY <1>2, <1>3, <1>4, ExportOK

LEMMA EndStep == ASSUME IInv, NEW e \in Exports, EndExport(e) PROVE IInv'
  <1>1. PICK x : x = None
    OBVIOUS
  <1>2. /\ exp' = [exp EXCEPT ![e] = x] /\ x \in Reports \cup {None} /\ ~(x # None)
        /\ UNCHANGED <<profile, held, lists, used, deletions, upd, restored>>
    BY <1>1 DEF EndExport
  <1>3. QED
    BY <1>2, ExportOK

(* The step to the next store, when what has been got of this one leaves   *)
(* nothing of it owed.                                                     *)
LEMMA GatheredOK ==
    ASSUME IInv, NEW e \in Exports, NEW s, AtStore(e, s), NEW got, NEW complete \in BOOLEAN,
           Gathered(e, got, complete), complete => (exp[e].owed \ got) \cap held[s] = {},
           UNCHANGED <<profile, held, lists, used, deletions, upd, restored>>
    PROVE  IInv'
  <1>1. PICK q : q = exp[e]
    OBVIOUS
  <1>2. q # None /\ q.at <= 5 /\ Gathering[q.at] = s
    BY <1>1, Orders DEF AtStore
  <1>3. q \in Reports /\ Exporting(q)
    BY <1>1, <1>2 DEF IInv, TypeOK
  <1> DEFINE x == [q EXCEPT !.at = @ + 1, !.complete = @ /\ complete, !.ids = None,
                            !.owed = IF complete THEN @ \ got ELSE {}]
  <1>4. PICK c \in BOOLEAN : c = (q.complete /\ complete)
    OBVIOUS
  <1>5. PICK w : w = IF complete THEN q.owed \ got ELSE {}
    OBVIOUS
  <1>6. PICK y : y = [at |-> q.at + 1, complete |-> c, owed |-> w, ids |-> None]
    OBVIOUS
  <1>7. y \in Reports
    <2>1. q.at + 1 \in 1..6 /\ w \in SUBSET Items
      BY <1>2, <1>3, <1>5 DEF Reports
    <2>2. QED
      BY <1>6, <2>1 DEF Reports, Listings
  <1>8. x = y
    <2>1. x = [q EXCEPT !.at = @ + 1, !.complete = c, !.ids = None, !.owed = w]
      BY <1>4, <1>5, Zenon
    <2>2. PICK u : u = [q EXCEPT !.at = @ + 1]
      OBVIOUS
    <2>3. u = [at |-> q.at + 1, complete |-> q.complete, owed |-> q.owed, ids |-> q.ids]
      BY <1>3, <2>2 DEF Reports
    <2>4. PICK v : v = [u EXCEPT !.complete = c, !.ids = None]
      OBVIOUS
    <2>5. v = [at |-> q.at + 1, complete |-> c, owed |-> q.owed, ids |-> None]
      BY <2>3, <2>4
    <2>6. [v EXCEPT !.owed = w] = y
      BY <1>6, <2>5
    <2>7. x = [v EXCEPT !.owed = w]
      BY <2>1, <2>2, <2>4, Zenon
    <2>8. QED
      BY <2>6, <2>7, Zenon
  <1>9. exp' = [exp EXCEPT ![e] = x]
    BY <1>1, Zenon DEF Gathered
  <1> HIDE DEF x
  <1>10. exp' = [exp EXCEPT ![e] = y]
    BY <1>8, <1>9
  <1>11. Exporting(y)
    <2>1. y.at = q.at + 1 /\ y.complete = c /\ y.owed = w /\ y.ids = None /\ w \subseteq q.owed
      BY <1>5, <1>6
    <2>2. ASSUME c, NEW j \in 1..5, j < y.at PROVE w \cap held[Gathering[j]] = {}
      <3>1. CASE j < q.at
        BY <1>3, <1>4, <2>1, <2>2, <3>1 DEF Exporting
      <3>2. CASE j = q.at
        BY <1>1, <1>2, <1>4, <1>5, <2>2, <3>2
      <3>3. q.at \in Nat
        BY <1>3 DEF Reports
      <3>4. QED
        BY <2>1, <2>2, <3>1, <3>2, <3>3
    <2>3. QED
      BY <1>3, <2>1, <2>2 DEF Exporting
  <1>12. QED
    BY <1>7, <1>10, <1>11, ExportOK

(* What is read of a table is owed no longer. *)
LEMMA GatherStep ==
    ASSUME IInv, NEW e \in Exports, NEW s \in Stores, Gather(e, s) \/ FailToGather(e, s)
    PROVE  IInv'
  <1>1. AtStore(e, s) /\ UNCHANGED <<profile, held, lists, used, deletions, upd, restored>>
    BY DEF Gather, FailToGather
  <1>2. CASE Gather(e, s)
    <2>1. PICK got \in Read(s) : Gathered(e, got, got = held[s])
      BY <1>2 DEF Gather
    <2>2. PICK complete \in BOOLEAN : complete = (got = held[s])
      OBVIOUS
    <2>3. Gathered(e, got, complete) /\ (complete => (exp[e].owed \ got) \cap held[s] = {})
      BY <2>1, <2>2
    <2>4. QED
      BY <1>1, <2>3, GatheredOK
  <1>3. CASE FailToGather(e, s)
    <2>1. PICK complete \in BOOLEAN : complete = FALSE
      OBVIOUS
    <2>2. PICK got : got = {}
      OBVIOUS
    <2>3. Gathered(e, got, complete) /\ ~complete
      BY <1>3, <2>1, <2>2 DEF FailToGather
    <2>4. QED
      BY <1>1, <2>3, GatheredOK
  <1>4. QED
    BY <1>2, <1>3

(* The walk along the list of sessions: a change of ids and of what is     *)
(* owed that keeps to the ids.                                             *)
LEMMA WalkOK ==
    ASSUME IInv, NEW e \in Exports, exp[e] # None, NEW ids \in SUBSET Items, NEW owed,
           exp' = [exp EXCEPT ![e].ids = ids, ![e].owed = owed],
           owed \subseteq exp[e].owed, owed \cap held["sessions"] \subseteq ids,
           UNCHANGED <<profile, held, lists, used, deletions, upd, restored>>
    PROVE  IInv'
  <1>1. PICK q : q = exp[e]
    OBVIOUS
  <1>2. PICK x : x = [q EXCEPT !.ids = ids, !.owed = owed]
    OBVIOUS
  <1>3. exp' = [exp EXCEPT ![e] = x]
    BY <1>1, <1>2
  <1>4. q \in Reports /\ Exporting(q)
    BY <1>1 DEF IInv, TypeOK
  <1>5. x.ids = ids /\ x.owed = owed /\ x.at = q.at /\ x.complete = q.complete
    BY <1>2, <1>4 DEF Reports
  <1>6. x \in Reports
    <2>1. owed \in SUBSET Items
      BY <1>1, <1>4 DEF Reports
    <2>2. QED
      BY <1>2, <1>4, <2>1 DEF Reports, Listings
  <1>7. Exporting(x)
    BY <1>1, <1>4, <1>5 DEF Exporting
  <1>8. QED
    BY <1>3, <1>6, <1>7, ExportOK

LEMMA ListToGatherStep ==
    ASSUME IInv, NEW e \in Exports, ListToGather(e)
    PROVE  IInv'
  <1>1. PICK owed : owed = exp[e].owed \ (held["sessions"] \ listed)
    OBVIOUS
  <1>2. PICK ids : ids = listed
    OBVIOUS
  <1>3. /\ exp[e] # None /\ exp' = [exp EXCEPT ![e].ids = ids, ![e].owed = owed]
        /\ UNCHANGED <<profile, held, lists, used, deletions, upd, restored>>
    BY <1>1, <1>2 DEF ListToGather, AtStore
  <1>4. ids \in SUBSET Items
    BY <1>2 DEF IInv, TypeOK, AllOf, Stores
  <1>5. owed \subseteq exp[e].owed /\ owed \cap held["sessions"] \subseteq ids
    BY <1>1, <1>2
  <1>6. QED
    BY <1>3, <1>4, <1>5, WalkOK

LEMMA GatherSessionStep ==
    ASSUME IInv, NEW e \in Exports, NEW i \in Items, GatherSession(e, i)
    PROVE  IInv'
  <1>1. PICK owed : owed = exp[e].owed \ {i}
    OBVIOUS
  <1>2. PICK ids : ids = exp[e].ids \ {i}
    OBVIOUS
  <1>3. /\ exp[e] # None /\ exp[e].ids # None
        /\ exp' = [exp EXCEPT ![e].ids = ids, ![e].owed = owed]
        /\ UNCHANGED <<profile, held, lists, used, deletions, upd, restored>>
    BY <1>1, <1>2 DEF GatherSession, AtStore
  <1>4. exp[e] \in Reports /\ Exporting(exp[e])
    BY <1>3 DEF IInv, TypeOK
  <1>5. ids \in SUBSET Items
    BY <1>2, <1>3, <1>4 DEF Reports, Listings
  <1>6. owed \subseteq exp[e].owed /\ owed \cap held["sessions"] \subseteq ids
    BY <1>1, <1>2, <1>3, <1>4 DEF Exporting
  <1>7. QED
    BY <1>3, <1>5, <1>6, WalkOK

(* All ids have been gone through. *)
LEMMA EndSessionsStep == ASSUME IInv, NEW e \in Exports, EndSessions(e) PROVE IInv'
  <1>1. PICK got : got = {}
    OBVIOUS
  <1>2. PICK complete \in BOOLEAN : complete = TRUE
    OBVIOUS
  <1>3. PICK s : s = "sessions"
    OBVIOUS
  <1>4. /\ AtStore(e, s) /\ exp[e].ids = {} /\ Gathered(e, got, complete)
        /\ UNCHANGED <<profile, held, lists, used, deletions, upd, restored>>
    BY <1>1, <1>2, <1>3 DEF EndSessions
  <1>5. Exporting(exp[e]) /\ exp[e].ids # None
    BY <1>4, NoneAssumption DEF AtStore, IInv
  <1>6. (exp[e].owed \ got) \cap held[s] = {}
    BY <1>3, <1>4, <1>5 DEF Exporting
  <1>7. QED
    BY <1>4, <1>6, GatheredOK

-----------------------------------------------------------------------------
(* The theorems *)

(* No step breaks the invariant. *)
THEOREM Inductive == IInv /\ [Next]_vars => IInv'
  <1> SUFFICES ASSUME IInv, [Next]_vars PROVE IInv'
    OBVIOUS
  <1>1. CASE UNCHANGED vars
    <2>1. TypeOK'
      BY <1>1 DEF vars, deletions, lists, IInv, TypeOK, AllOf
    <2>2. QED
      BY <1>1, <2>1 DEF vars, deletions, lists, IInv, Deleting, Exporting, Updating, Rid, AllOf
  <1>2. CASE \/ CreateProfile \/ LoseList
             \/ \E i \in Items :
                   \/ \E s \in Stores : Create(s, i) \/ Remove(s, i)
                   \/ Push(i)
                   \/ SetPreferences(i)
                   \/ \E u \in Updates : WritePreferences(u, i)
    BY <1>2, ProfileStep, CreateStep, RemoveStep, ListStep, SetPreferencesStep, WriteStep
  <1>3. CASE \E u \in Updates : ReadPreferences(u) \/ AbandonUpdate(u)
    BY <1>3, ReadStep
  <1>4. CASE \E d \in Clients :
                \/ Ask(d) \/ Answer(d) \/ Crash(d)
                \/ ListToErase(d) \/ (\E i \in Items : EraseSession(d, i)) \/ DropList(d)
                \/ \E s \in Stores \cup {"profile"} : Erase(d, s) \/ FailToErase(d, s)
    BY <1>4, AskStep, AnswerStep, CrashStep, EraseStep, FailStep, ListToEraseStep,
       EraseSessionStep, DropListStep
  <1>5. CASE \E e \in Exports :
                \/ BeginExport(e) \/ EndExport(e)
                \/ ListToGather(e) \/ (\E i \in Items : GatherSession(e, i)) \/ EndSessions(e)
                \/ \E s \in Stores : Gather(e, s) \/ FailToGather(e, s)
    BY <1>5, BeginStep, EndStep, GatherStep, ListToGatherStep, GatherSessionStep, EndSessionsStep
  <1>6. QED
    BY <1>1, <1>2, <1>3, <1>4, <1>5 DEF Next

(* The invariant holds in every state.                                     *)
THEOREM Invariant == Spec => []IInv
  BY Initially, Inductive, PTL DEF Spec

(* Types, no row without a profile, and no item in two stores.             *)
THEOREM TypeCorrect == Spec => []TypeOK
  <1>1. IInv => TypeOK
    BY DEF IInv
  <1>2. QED
    BY <1>1, Invariant, PTL

(* A deletion that reports success has erased for good all that it found,  *)
(* sessions that were on no list not among it, but for preferences that a  *)
(* stale update restores in a new profile.                                 *)
THEOREM ErasedCorrect == Spec => []Erased
  <1>1. IInv => Erased
    BY DEF IInv, Rid, Erased, AllOf
  <1>2. QED
    BY <1>1, Invariant, PTL

(* An export whose reads all went well holds whatever the user had all     *)
(* the time it was made, but for sessions that were on no list.            *)
THEOREM ExportCorrect == Spec => []ExportComplete
  <1>1. ASSUME IInv, NEW e \in Exports, exp[e] # None, exp[e].at = 6, exp[e].complete
        PROVE  exp[e].owed = {}
    <2>1. Exporting(exp[e])
      BY <1>1 DEF IInv
    <2>2. ASSUME NEW s \in Stores PROVE exp[e].owed \cap held[s] = {}
      <3>1. PICK j \in 1..5 : Gathering[j] = s
        BY Orders
      <3>2. j < exp[e].at
        BY <1>1
      <3>3. QED
        BY <1>1, <2>1, <3>1, <3>2 DEF Exporting
    <2>3. exp[e].owed \subseteq AllOf(held)
      BY <2>1 DEF Exporting
    <2>4. QED
      BY <2>2, <2>3 DEF AllOf
  <1>2. IInv => ExportComplete
    BY <1>1, Orders DEF ExportComplete
  <1>3. QED
    BY <1>2, Invariant, PTL

=============================================================================
