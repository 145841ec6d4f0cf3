---- MODULE ProfilesProofs ----
(***************************************************************************)
(* Theorems about Profiles, for every finite set of users, and every set   *)
(* of names, skills, rows and requests.                                    *)
(***************************************************************************)
EXTENDS Profiles, FiniteSetTheorems, WellFoundedInduction, TLAPS

ReqOK == req \in [Requests -> InFlight \cup {Idle}]

Others(r) == \A p \in Requests \ {r} : req'[p] = req[p]

SlugNexts == {"generate", "writeGenerated", "writeChosen"}

(* What a request is, by what it does next. *)
LEMMA Kinds ==
    ASSUME ReqOK, NEW r \in Requests
    PROVE  /\ req[r].next \in SlugNexts => req[r].user \in Users /\ req[r].slug \in Slugs
           /\ req[r].next = "addSkill" => req[r].user \in Users /\ req[r].skill \in Skills
           /\ req[r].next = "endorse" =>
                 req[r].user \in Users /\ req[r].skill \in Skills /\ req[r].by \in Users
           /\ req[r].next = "newItem" =>
                 /\ req[r].user \in Users /\ req[r].list \in Lists
                 /\ req[r].order \in Nat /\ req[r].found \in SUBSET Items
           /\ req[r].next = "idle" <=> req[r] = Idle
<1>1. req[r] \in InFlight \cup {Idle}
  BY DEF ReqOK
<1>2. CASE req[r] = Idle
  BY <1>2 DEF Idle, SlugNexts
<1>3. CASE req[r] \in SlugRequest
  BY <1>3 DEF SlugRequest, SlugNexts, Idle
<1>4. CASE req[r] \in SkillRequest
  BY <1>4 DEF SkillRequest, SlugNexts, Idle
<1>5. CASE req[r] \in EndorseRequest
  BY <1>5 DEF EndorseRequest, SlugNexts, Idle
<1>6. CASE req[r] \in ItemRequest
  BY <1>6 DEF ItemRequest, SlugNexts, Idle
<1> QED
  BY <1>1, <1>2, <1>3, <1>4, <1>5, <1>6 DEF InFlight

LEMMA SlugRecord ==
    ASSUME NEW w \in SlugNexts, NEW u \in Users, NEW s \in Slugs
    PROVE  /\ ForSlug(w, u, s) \in InFlight
           /\ ForSlug(w, u, s).next = w /\ ForSlug(w, u, s).user = u /\ ForSlug(w, u, s).slug = s
BY DEF ForSlug, InFlight, SlugRequest, SlugNexts

LEMMA SkillRecord ==
    ASSUME NEW u \in Users, NEW k \in Skills
    PROVE  /\ ForSkill(u, k) \in InFlight /\ ForSkill(u, k).next = "addSkill"
           /\ ForSkill(u, k).user = u /\ ForSkill(u, k).skill = k
BY DEF ForSkill, InFlight, SkillRequest

LEMMA EndorseRecord ==
    ASSUME NEW u \in Users, NEW k \in Skills, NEW by \in Users
    PROVE  /\ ForEndorsement(u, k, by) \in InFlight /\ ForEndorsement(u, k, by).next = "endorse"
           /\ ForEndorsement(u, k, by).user = u /\ ForEndorsement(u, k, by).skill = k
           /\ ForEndorsement(u, k, by).by = by
BY DEF ForEndorsement, InFlight, EndorseRequest

LEMMA ItemRecord ==
    ASSUME NEW u \in Users, NEW l \in Lists, NEW n \in Nat, NEW S \in SUBSET Items
    PROVE  /\ ForItem(u, l, n, S) \in InFlight /\ ForItem(u, l, n, S).next = "newItem"
           /\ ForItem(u, l, n, S).user = u /\ ForItem(u, l, n, S).list = l
           /\ ForItem(u, l, n, S).order = n /\ ForItem(u, l, n, S).found = S
BY DEF ForItem, InFlight, ItemRequest

LEMMA BeginFields ==
    ASSUME ReqOK, NEW r \in Requests, NEW q \in InFlight, Begin(r, q)
    PROVE  ReqOK' /\ req'[r] = q /\ Others(r) /\ req[r] = Idle
BY DEF ReqOK, Begin, Others

Becomes(r, q) == req' = [req EXCEPT ![r] = q]

LEMMA BecomesFields ==
    ASSUME ReqOK, NEW r \in Requests, NEW q \in InFlight, Becomes(r, q)
    PROVE  ReqOK' /\ req'[r] = q /\ Others(r)
BY DEF ReqOK, Becomes, Others

LEMMA DoneFields ==
    ASSUME ReqOK, NEW r \in Requests, req' = Done(r)
    PROVE  ReqOK' /\ req'[r] = Idle /\ req'[r].next = "idle" /\ Others(r)
BY DEF ReqOK, Done, Others, Idle

(* The actions that leave two of the three parts alone. *)
SlugSteps(r) ==
    \/ \E u \in Users, n \in Names : UpdateProfile(r, u, n)
    \/ \E u \in Users, s \in Slugs : UpdateSlug(r, u, s)
    \/ TrySlug(r)
    \/ WriteSlug(r)

SkillSteps(r) ==
    \/ \E u \in Users, k \in Skills : AddSkill(r, u, k)
    \/ \E u, by \in Users, k \in Skills : EndorseSkill(r, u, k, by)
    \/ CreateSkill(r)
    \/ Endorse(r)

ListSteps(r) ==
    \/ \E u \in Users : AddPortfolioItem(r, u) \/ AddService(r, u)
    \/ NewItem(r)

NextParts ==
    \/ \E r \in Requests : SlugSteps(r) \/ SkillSteps(r) \/ ListSteps(r) \/ Abort(r)
    \/ \E u \in Users, k \in Skills : RemoveSkill(u, k)
    \/ \E u \in Users, l \in {"portfolio", "services"} : Delete(u, l)
    \/ \E u \in Users : DeleteUser(u)
    \/ UNCHANGED vars

LEMMA NextIsParts == [Next]_vars => NextParts
BY DEF Next, Step, Arrive, NextParts, SlugSteps, SkillSteps, ListSteps, DeletePortfolioItem, DeleteService

(***************************************************************************)
(* Slugs.                                                                  *)
(***************************************************************************)

MakingUp(r) == req[r].next \in {"generate", "writeGenerated"}

SlugsOK ==
    /\ slug \in [Users -> Slugs \cup {None}]
    /\ \A s \in Slugs, u, v \in Users : slug[u] = s /\ slug[v] = s => u = v
    /\ hasty \subseteq Users
    /\ \A u \in Users \ hasty : slug[u] # None =>
          \A r \in Requests : MakingUp(r) => req[r].user # u

LEMMA UpdateProfileFields ==
    ASSUME ReqOK, NEW r \in Requests, NEW u \in Users, NEW n \in Names, UpdateProfile(r, u, n)
    PROVE  /\ ReqOK' /\ Others(r) /\ slug[u] = None
           /\ req'[r].next = "generate" /\ req'[r].user = u
           /\ UNCHANGED <<gone, slug, skill, endorsements, item, history>>
<1>1. <<n, 0>> \in Slugs /\ "generate" \in SlugNexts
  BY ProfilesAssumption DEF Slugs, SlugNexts
<1> DEFINE q == ForSlug("generate", u, <<n, 0>>)
<1>2. q \in InFlight /\ q.next = "generate" /\ q.user = u
  BY <1>1, SlugRecord
<1>3. Begin(r, q)
  BY DEF UpdateProfile
<1> HIDE DEF q
<1> QED
  BY <1>2, <1>3, BeginFields DEF UpdateProfile

LEMMA UpdateSlugFields ==
    ASSUME ReqOK, NEW r \in Requests, NEW u \in Users, NEW s \in Slugs, UpdateSlug(r, u, s)
    PROVE  /\ ReqOK' /\ Others(r)
           /\ req'[r].next = "writeChosen"
           /\ UNCHANGED <<gone, slug, skill, endorsements, item, history>>
<1>1. "writeChosen" \in SlugNexts
  BY DEF SlugNexts
<1> DEFINE q == ForSlug("writeChosen", u, s)
<1>2. q \in InFlight /\ q.next = "writeChosen"
  BY <1>1, SlugRecord
<1>3. Begin(r, q)
  BY DEF UpdateSlug
<1> HIDE DEF q
<1> QED
  BY <1>2, <1>3, BeginFields DEF UpdateSlug

LEMMA TrySlugFields ==
    ASSUME ReqOK, NEW r \in Requests, TrySlug(r)
    PROVE  /\ ReqOK' /\ Others(r)
           /\ req[r].next = "generate" /\ req'[r].next \in {"generate", "writeGenerated"}
           /\ req'[r].user = req[r].user
           /\ UNCHANGED <<gone, slug, skill, endorsements, item, history>>
<1>1. /\ req[r].next = "generate"
      /\ UNCHANGED <<gone, slug, skill, endorsements, item, history>>
  BY DEF TrySlug, Doing
<1>2. PICK u \in Users, s \in Slugs : u = req[r].user /\ s = req[r].slug
  BY <1>1, Kinds DEF SlugNexts
<1>3. CASE Becomes(r, ForSlug("writeGenerated", u, s))
  <2> DEFINE q == ForSlug("writeGenerated", u, s)
  <2>1. "writeGenerated" \in SlugNexts
    BY DEF SlugNexts
  <2>2. q \in InFlight /\ q.next = "writeGenerated" /\ q.user = u
    BY <2>1, SlugRecord
  <2>3. Becomes(r, q)
    BY <1>3
  <2> HIDE DEF q
  <2> QED
    BY <1>1, <1>2, <2>2, <2>3, BecomesFields
<1>4. CASE s[2] < MaxSuffix /\ Becomes(r, ForSlug("generate", u, <<s[1], s[2] + 1>>))
  <2>1. <<s[1], s[2] + 1>> \in Slugs
    BY <1>4, ProfilesAssumption DEF Slugs
  <2> DEFINE q == ForSlug("generate", u, <<s[1], s[2] + 1>>)
  <2>2. "generate" \in SlugNexts
    BY DEF SlugNexts
  <2>3. q \in InFlight /\ q.next = "generate" /\ q.user = u
    BY <2>1, <2>2, SlugRecord
  <2>4. Becomes(r, q)
    BY <1>4
  <2> HIDE DEF q
  <2> QED
    BY <1>1, <1>2, <2>3, <2>4, BecomesFields
<1> QED
  BY <1>2, <1>3, <1>4 DEF TrySlug, Becomes

LEMMA WriteSlugFields ==
    ASSUME ReqOK, SlugsOK, NEW r \in Requests, WriteSlug(r)
    PROVE  \E u \in Users :
           /\ ReqOK' /\ Others(r) /\ req'[r].next = "idle"
           /\ req[r].next \in {"writeGenerated", "writeChosen"} /\ u = req[r].user
           /\ slug' \in [Users -> Slugs \cup {None}]
           /\ \A v \in Users \ {u} : slug'[v] = slug[v]
           /\ slug'[u] = slug[u] \/ \A v \in Users \ {u} : slug[v] # slug'[u]
           /\ hasty \subseteq hasty' /\ hasty' \subseteq Users
           /\ slug'[u] = slug[u] \/ u \in hasty' \/ \A o \in Requests \ {r} : MakingUp(o) => req[o].user # u
           /\ UNCHANGED <<gone, skill, endorsements, item, earlier, forgotten, departed>>
<1>1. /\ req[r].next \in {"writeGenerated", "writeChosen"}
      /\ req' = Done(r)
      /\ UNCHANGED <<gone, skill, endorsements, item, earlier, forgotten, departed>>
  BY DEF WriteSlug, Doing
<1>2. PICK u \in Users, s \in Slugs : u = req[r].user /\ s = req[r].slug
  BY <1>1, Kinds DEF SlugNexts
<1>3. ReqOK' /\ Others(r) /\ req'[r].next = "idle"
  BY <1>1, DoneFields
<1>4. CASE UNCHANGED <<slug, hasty>>
  BY <1>1, <1>2, <1>3, <1>4 DEF SlugsOK
<1>5. CASE /\ Holders(s) \subseteq {u} /\ u \notin gone
           /\ slug' = [slug EXCEPT ![u] = s]
           /\ hasty' = IF \E o \in Requests \ {r} :
                             (Doing(o, "generate") \/ Doing(o, "writeGenerated")) /\ req[o].user = u
                       THEN hasty \cup {u} ELSE hasty
  <2>1. /\ slug' \in [Users -> Slugs \cup {None}] /\ slug'[u] = s
        /\ \A v \in Users \ {u} : slug'[v] = slug[v]
    BY <1>5 DEF SlugsOK
  <2>2. \A v \in Users \ {u} : slug[v] # s
    BY <1>5 DEF Holders
  <2>3. hasty \subseteq hasty' /\ hasty' \subseteq Users
    BY <1>5 DEF SlugsOK
  <2>4. u \in hasty' \/ \A o \in Requests \ {r} : MakingUp(o) => req[o].user # u
    BY <1>5 DEF MakingUp, Doing
  <2> QED
    BY <1>1, <1>2, <1>3, <2>1, <2>2, <2>3, <2>4
<1> QED
  BY <1>2, <1>4, <1>5 DEF WriteSlug

LEMMA SlugsStayOK ==
    ASSUME SlugsOK, UNCHANGED <<slug, hasty>>,
           \A p \in Requests : MakingUp(p)' => MakingUp(p) /\ req'[p] = req[p]
    PROVE  SlugsOK'
BY DEF SlugsOK

(* What a step of the skills or the lists makes of a request. *)
NotASlug(r) == req[r].next \notin SlugNexts

LEMMA NoSlugsStay ==
    ASSUME SlugsOK, UNCHANGED <<slug, hasty>>, NEW r \in Requests, Others(r), NotASlug(r)'
    PROVE  SlugsOK'
<1>1. \A p \in Requests : MakingUp(p)' => MakingUp(p) /\ req'[p] = req[p]
  BY DEF Others, NotASlug, MakingUp, SlugNexts
<1> QED
  BY <1>1, SlugsStayOK

LEMMA SlugStepsOK ==
    ASSUME ReqOK, SlugsOK, NEW r \in Requests, SlugSteps(r)
    PROVE  ReqOK' /\ SlugsOK' /\ UNCHANGED <<gone, skill, endorsements, item, earlier, forgotten, departed>>
           /\ Others(r) /\ req'[r].next \in SlugNexts \cup {"idle"}
<1>1. ASSUME NEW u \in Users, NEW n \in Names, UpdateProfile(r, u, n)
      PROVE  ReqOK' /\ SlugsOK' /\ UNCHANGED <<gone, skill, endorsements, item, earlier, forgotten, departed>>
             /\ Others(r) /\ req'[r].next \in SlugNexts \cup {"idle"}
  <2>1. /\ ReqOK' /\ Others(r) /\ slug[u] = None
        /\ req'[r].next = "generate" /\ req'[r].user = u
        /\ UNCHANGED <<gone, slug, skill, endorsements, item, history>>
    BY <1>1, UpdateProfileFields
  <2>2. SlugsOK'
    BY <2>1 DEF SlugsOK, Others, MakingUp, history
  <2> QED
    BY <2>1, <2>2 DEF history, SlugNexts
<1>2. ASSUME NEW u \in Users, NEW s \in Slugs, UpdateSlug(r, u, s)
      PROVE  ReqOK' /\ SlugsOK' /\ UNCHANGED <<gone, skill, endorsements, item, earlier, forgotten, departed>>
             /\ Others(r) /\ req'[r].next \in SlugNexts \cup {"idle"}
  <2>1. /\ ReqOK' /\ Others(r) /\ req'[r].next = "writeChosen"
        /\ UNCHANGED <<gone, slug, skill, endorsements, item, history>>
    BY <1>2, UpdateSlugFields
  <2>2. SlugsOK'
    BY <2>1, SlugsStayOK DEF Others, MakingUp, history
  <2> QED
    BY <2>1, <2>2 DEF history, SlugNexts
<1>3. CASE TrySlug(r)
  <2>1. /\ ReqOK' /\ Others(r)
        /\ req[r].next = "generate" /\ req'[r].next \in {"generate", "writeGenerated"}
        /\ req'[r].user = req[r].user
        /\ UNCHANGED <<gone, slug, skill, endorsements, item, history>>
    BY <1>3, TrySlugFields
  <2>2. \A p \in Requests : MakingUp(p)' => MakingUp(p) /\ req'[p].user = req[p].user
    BY <2>1 DEF Others, MakingUp
  <2>3. SlugsOK'
    BY <2>1, <2>2 DEF SlugsOK, history
  <2> QED
    BY <2>1, <2>3 DEF history, SlugNexts
<1>4. CASE WriteSlug(r)
  <2>1. PICK u \in Users :
           /\ ReqOK' /\ Others(r) /\ req'[r].next = "idle"
           /\ u = req[r].user
           /\ slug' \in [Users -> Slugs \cup {None}]
           /\ \A v \in Users \ {u} : slug'[v] = slug[v]
           /\ slug'[u] = slug[u] \/ \A v \in Users \ {u} : slug[v] # slug'[u]
           /\ hasty \subseteq hasty' /\ hasty' \subseteq Users
           /\ slug'[u] = slug[u] \/ u \in hasty' \/ \A o \in Requests \ {r} : MakingUp(o) => req[o].user # u
           /\ UNCHANGED <<gone, skill, endorsements, item, earlier, forgotten, departed>>
    BY <1>4, WriteSlugFields
  <2>2. ASSUME NEW s \in Slugs, NEW v \in Users, NEW w \in Users, slug'[v] = s, slug'[w] = s
        PROVE  v = w
    BY <2>1, <2>2 DEF SlugsOK
  <2>3. ASSUME NEW v \in Users \ hasty', slug'[v] # None, NEW p \in Requests, MakingUp(p)'
        PROVE  req'[p].user # v
    <3>1. p # r /\ req'[p] = req[p] /\ MakingUp(p)
      BY <2>1, <2>3 DEF MakingUp, Others
    <3>2. CASE slug'[v] = slug[v]
      BY <2>1, <2>3, <3>1, <3>2 DEF SlugsOK
    <3>3. CASE slug'[v] # slug[v]
      BY <2>1, <2>3, <3>1, <3>3
    <3> QED
      BY <3>2, <3>3
  <2>4. SlugsOK'
    BY <2>1, <2>2, <2>3 DEF SlugsOK
  <2> QED
    BY <2>1, <2>4
<1> QED
  BY <1>1, <1>2, <1>3, <1>4 DEF SlugSteps

(***************************************************************************)
(* Skills.                                                                 *)
(***************************************************************************)

(* The endorsements that count: the rows since it was added, and those that
   went with their users. *)
Counted(u, k) == (EndorsersOf(u, k) \ forgotten[<<u, k>>]) \cup departed[<<u, k>>]

SkillOf(u, k) ==
    /\ u \notin EndorsersOf(u, k) \cup departed[<<u, k>>]
    /\ EndorsersOf(u, k) \cap gone = {}
    /\ forgotten[<<u, k>>] \subseteq EndorsersOf(u, k)
    /\ departed[<<u, k>>] \subseteq gone
    /\ skill[<<u, k>>] = None => EndorsersOf(u, k) = forgotten[<<u, k>>] /\ departed[<<u, k>>] = {}
    /\ skill[<<u, k>>] # None => skill[<<u, k>>] = Cardinality(Counted(u, k))

SkillsOK ==
    /\ skill \in [Users \X Skills -> Nat \cup {None}]
    /\ endorsements \subseteq Users \X Users \X Skills
    /\ gone \subseteq Users
    /\ forgotten \in [Users \X Skills -> SUBSET Users]
    /\ departed \in [Users \X Skills -> SUBSET Users]
    /\ \A u \in Users, k \in Skills : SkillOf(u, k)
    /\ \A r \in Requests : req[r].next = "endorse" => req[r].by # req[r].user

LEMMA SkillOfSame ==
    ASSUME NEW u, NEW k, SkillOf(u, k), UNCHANGED gone, EndorsersOf(u, k)' = EndorsersOf(u, k),
           skill'[<<u, k>>] = skill[<<u, k>>], forgotten'[<<u, k>>] = forgotten[<<u, k>>],
           departed'[<<u, k>>] = departed[<<u, k>>]
    PROVE  SkillOf(u, k)'
<1>1. Counted(u, k)' = Counted(u, k)
  BY DEF Counted
<1> QED
  BY <1>1 DEF SkillOf

LEMMA SkillsStayOK ==
    ASSUME SkillsOK, UNCHANGED <<gone, skill, endorsements, forgotten, departed>>,
           \A p \in Requests : req'[p].next = "endorse" => req'[p] = req[p]
    PROVE  SkillsOK'
<1>1. ASSUME NEW u \in Users, NEW k \in Skills
      PROVE  SkillOf(u, k)'
  <2>1. SkillOf(u, k) /\ EndorsersOf(u, k)' = EndorsersOf(u, k)
    BY DEF SkillsOK, EndorsersOf
  <2> QED
    BY <2>1, SkillOfSame
<1>2. \A p \in Requests : req'[p].next = "endorse" => req'[p].by # req'[p].user
  BY DEF SkillsOK
<1> QED
  BY <1>1, <1>2 DEF SkillsOK

LEMMA CreateSkillOK ==
    ASSUME ReqOK, SkillsOK, NEW r \in Requests, CreateSkill(r)
    PROVE  SkillsOK' /\ ReqOK' /\ Others(r) /\ req'[r].next = "idle"
           /\ UNCHANGED <<gone, slug, item, earlier, hasty>>
<1>1. /\ req[r].next = "addSkill" /\ req' = Done(r)
      /\ UNCHANGED <<gone, slug, endorsements, item, earlier, forgotten, departed, hasty>>
  BY DEF CreateSkill, Doing, history
<1>2. ReqOK' /\ Others(r) /\ req'[r].next = "idle"
  BY <1>1, DoneFields
<1>3. PICK u \in Users, k \in Skills : u = req[r].user /\ k = req[r].skill
  BY <1>1, Kinds
<1> DEFINE d == <<u, k>>
<1>4. /\ skill' = [skill EXCEPT ![d] = IF skill[d] = None /\ u \notin gone THEN 0 ELSE skill[d]]
      /\ d \in Users \X Skills
  BY <1>3 DEF CreateSkill
<1> HIDE DEF d
<1>5. /\ skill' \in [Users \X Skills -> Nat \cup {None}]
      /\ skill'[d] = skill[d] \/ (skill[d] = None /\ skill'[d] = 0)
      /\ \A e \in Users \X Skills : e # d => skill'[e] = skill[e]
  BY <1>4 DEF SkillsOK
<1>6. 0 # None
  BY ProfilesAssumption
<1>7. ASSUME NEW v \in Users, NEW j \in Skills
      PROVE  SkillOf(v, j)'
  <2>1. SkillOf(v, j) /\ EndorsersOf(v, j)' = EndorsersOf(v, j)
    BY <1>1 DEF SkillsOK, EndorsersOf
  <2>2. CASE skill'[<<v, j>>] = skill[<<v, j>>]
    BY <1>1, <2>1, <2>2, SkillOfSame
  <2>3. CASE skill'[<<v, j>>] # skill[<<v, j>>]
    <3>1. skill[<<v, j>>] = None /\ skill'[<<v, j>>] = 0
      BY <1>5, <2>3
    <3>2. Counted(v, j)' = {}
      BY <1>1, <2>1, <3>1 DEF SkillOf, Counted
    <3>3. Cardinality(Counted(v, j)') = 0
      BY <3>2, FS_EmptySet
    <3> QED
      BY <1>1, <1>6, <2>1, <3>1, <3>3 DEF SkillOf
  <2> QED
    BY <2>2, <2>3
<1>8. \A p \in Requests : req'[p].next = "endorse" => req'[p] = req[p]
  BY <1>2 DEF Others
<1>9. SkillsOK'
  BY <1>1, <1>5, <1>7, <1>8 DEF SkillsOK
<1> QED
  BY <1>1, <1>2, <1>9

LEMMA EndorseOK ==
    ASSUME ReqOK, SkillsOK, NEW r \in Requests, Endorse(r)
    PROVE  SkillsOK' /\ ReqOK' /\ Others(r) /\ req'[r].next = "idle"
           /\ UNCHANGED <<gone, slug, item, earlier, hasty>>
<1>1. /\ req[r].next = "endorse" /\ req' = Done(r)
      /\ UNCHANGED <<gone, slug, item, earlier, forgotten, departed, hasty>>
  BY DEF Endorse, Doing, history
<1>2. ReqOK' /\ Others(r) /\ req'[r].next = "idle"
  BY <1>1, DoneFields
<1>3. \A p \in Requests : req'[p].next = "endorse" => req'[p] = req[p]
  BY <1>2 DEF Others
<1>4. PICK u \in Users, k \in Skills, by \in Users :
        u = req[r].user /\ k = req[r].skill /\ by = req[r].by
  BY <1>1, Kinds
<1>5. by # u
  BY <1>1, <1>4 DEF SkillsOK
<1> DEFINE d == <<u, k>>
<1>6. CASE UNCHANGED <<endorsements, skill>>
  BY <1>1, <1>2, <1>3, <1>6, SkillsStayOK
<1>7. CASE /\ {by, u} \cap gone = {} /\ by \notin EndorsersOf(u, k) /\ skill[d] # None
           /\ endorsements' = endorsements \cup {<<by, u, k>>}
           /\ skill' = [skill EXCEPT ![d] = skill[d] + 1]
  <2>1. /\ \A v \in Users, j \in Skills : <<v, j>> # d => EndorsersOf(v, j)' = EndorsersOf(v, j)
        /\ EndorsersOf(u, k)' = EndorsersOf(u, k) \cup {by}
    BY <1>7 DEF EndorsersOf
  <2>2. d \in Users \X Skills
    OBVIOUS
  <2>3. SkillOf(u, k)
    BY DEF SkillsOK
  <2> HIDE DEF d
  <2>4. /\ skill' \in [Users \X Skills -> Nat \cup {None}]
        /\ skill[d] \in Nat /\ skill'[d] = skill[d] + 1
        /\ \A e \in Users \X Skills : e # d => skill'[e] = skill[e]
    BY <1>7, <2>2 DEF SkillsOK
  <2>5. IsFiniteSet(Counted(u, k)) /\ by \notin Counted(u, k)
    <3>1. Counted(u, k) \subseteq Users
      BY <2>2 DEF EndorsersOf, Counted, SkillsOK, d
    <3>2. IsFiniteSet(Counted(u, k))
      BY <3>1, ProfilesAssumption, FS_Subset
    <3>3. by \notin departed[d]
      BY <1>7, <2>3 DEF SkillOf, d
    <3> QED
      BY <1>7, <3>2, <3>3 DEF Counted, d
  <2>6. Counted(u, k)' = Counted(u, k) \cup {by}
    <3>1. by \notin forgotten[d]
      BY <1>7, <2>3 DEF SkillOf, d
    <3> QED
      BY <1>1, <2>1, <3>1 DEF Counted, d
  <2>7. Cardinality(Counted(u, k)') = Cardinality(Counted(u, k)) + 1
    BY <2>5, <2>6, FS_AddElement
  <2>8. SkillOf(u, k)'
    <3>1. /\ u \notin EndorsersOf(u, k)' \cup departed[d]
          /\ forgotten[d] \subseteq EndorsersOf(u, k)'
          /\ EndorsersOf(u, k)' \cap gone = {}
          /\ departed[d] \subseteq gone
      BY <1>5, <1>7, <2>1, <2>3 DEF SkillOf, d
    <3>2. skill'[d] # None
      BY <2>4, ProfilesAssumption
    <3>3. skill[d] = Cardinality(Counted(u, k))
      BY <1>7, <2>3 DEF SkillOf, d
    <3>4. skill'[d] = Cardinality(Counted(u, k)')
      BY <2>4, <2>7, <3>3
    <3> QED
      BY <1>1, <3>1, <3>2, <3>4 DEF SkillOf, d
  <2>9. ASSUME NEW v \in Users, NEW j \in Skills, <<v, j>> # d
        PROVE  SkillOf(v, j)'
    <3>1. SkillOf(v, j) /\ EndorsersOf(v, j)' = EndorsersOf(v, j) /\ skill'[<<v, j>>] = skill[<<v, j>>]
      BY <2>1, <2>4, <2>9 DEF SkillsOK
    <3> QED
      BY <1>1, <3>1, SkillOfSame
  <2>10. \A v \in Users, j \in Skills : SkillOf(v, j)'
    <3>1. ASSUME NEW v \in Users, NEW j \in Skills
          PROVE  SkillOf(v, j)'
      <4>1. CASE <<v, j>> = d
        BY <2>8, <4>1 DEF d
      <4> QED
        BY <2>9, <4>1
    <3> QED
      BY <3>1
  <2>11. endorsements' \subseteq Users \X Users \X Skills
    BY <1>7 DEF SkillsOK
  <2>12. \A p \in Requests : req'[p].next = "endorse" => req'[p].by # req'[p].user
    BY <1>3 DEF SkillsOK
  <2>13. SkillsOK'
    BY <1>1, <2>4, <2>10, <2>11, <2>12 DEF SkillsOK
  <2> QED
    BY <1>1, <1>2, <2>13
<1> QED
  BY <1>4, <1>6, <1>7 DEF Endorse

LEMMA RemoveSkillOK ==
    ASSUME ReqOK, SkillsOK, NEW u \in Users, NEW k \in Skills, RemoveSkill(u, k)
    PROVE  SkillsOK' /\ UNCHANGED <<gone, slug, item, req, earlier, hasty>>
<1> DEFINE d == <<u, k>>
<1>1. d \in Users \X Skills
  OBVIOUS
<1>2. /\ skill' = [skill EXCEPT ![d] = None]
      /\ forgotten' = [forgotten EXCEPT ![d] = EndorsersOf(u, k)]
      /\ departed' = [departed EXCEPT ![d] = {}]
      /\ UNCHANGED <<gone, slug, endorsements, item, req, earlier, hasty>>
  BY DEF RemoveSkill
<1>3. EndorsersOf(u, k) \subseteq Users /\ \A v \in Users, j \in Skills : EndorsersOf(v, j)' = EndorsersOf(v, j)
  BY <1>2 DEF EndorsersOf
<1> HIDE DEF d
<1>4. /\ skill' \in [Users \X Skills -> Nat \cup {None}] /\ skill'[d] = None
      /\ forgotten' \in [Users \X Skills -> SUBSET Users] /\ forgotten'[d] = EndorsersOf(u, k)
      /\ departed' \in [Users \X Skills -> SUBSET Users] /\ departed'[d] = {}
      /\ \A e \in Users \X Skills : e # d =>
            skill'[e] = skill[e] /\ forgotten'[e] = forgotten[e] /\ departed'[e] = departed[e]
  BY <1>1, <1>2, <1>3 DEF SkillsOK
<1>5. ASSUME NEW v \in Users, NEW j \in Skills
      PROVE  SkillOf(v, j)'
  <2>1. SkillOf(v, j)
    BY DEF SkillsOK
  <2>2. CASE <<v, j>> = d
    <3>1. v = u /\ j = k
      BY <2>2 DEF d
    <3> QED
      BY <1>2, <1>3, <1>4, <2>1, <2>2, <3>1 DEF SkillOf
  <2>3. CASE <<v, j>> # d
    <3>1. /\ skill'[<<v, j>>] = skill[<<v, j>>] /\ forgotten'[<<v, j>>] = forgotten[<<v, j>>]
          /\ departed'[<<v, j>>] = departed[<<v, j>>]
      BY <1>4, <2>3
    <3> QED
      BY <1>2, <1>3, <2>1, <3>1, SkillOfSame
  <2> QED
    BY <2>2, <2>3
<1> QED
  BY <1>2, <1>4, <1>5 DEF SkillsOK

LEMMA AddSkillOK ==
    ASSUME ReqOK, SkillsOK, NEW r \in Requests, NEW u \in Users, NEW k \in Skills, AddSkill(r, u, k)
    PROVE  SkillsOK' /\ ReqOK' /\ Others(r) /\ req'[r].next = "addSkill"
           /\ UNCHANGED <<gone, slug, item, earlier, hasty>>
<1> DEFINE q == ForSkill(u, k)
<1>1. q \in InFlight /\ q.next = "addSkill"
  BY SkillRecord
<1>2. Begin(r, q) /\ UNCHANGED <<gone, slug, skill, endorsements, item, earlier, forgotten, departed, hasty>>
  BY DEF AddSkill, history
<1> HIDE DEF q
<1>3. ReqOK' /\ Others(r) /\ req'[r] = q
  BY <1>1, <1>2, BeginFields
<1> QED
  BY <1>1, <1>2, <1>3, SkillsStayOK DEF Others

LEMMA EndorseSkillOK ==
    ASSUME ReqOK, SkillsOK, NEW r \in Requests, NEW u \in Users, NEW k \in Skills, NEW by \in Users,
           EndorseSkill(r, u, k, by)
    PROVE  SkillsOK' /\ ReqOK' /\ Others(r) /\ req'[r].next = "endorse"
           /\ UNCHANGED <<gone, slug, item, earlier, hasty>>
<1> DEFINE q == ForEndorsement(u, k, by)
<1>1. q \in InFlight /\ q.next = "endorse" /\ q.user = u /\ q.by = by /\ by # u
  BY EndorseRecord DEF EndorseSkill
<1>2. Begin(r, q) /\ UNCHANGED <<gone, slug, skill, endorsements, item, earlier, forgotten, departed, hasty>>
  BY DEF EndorseSkill, history
<1> HIDE DEF q
<1>3. ReqOK' /\ Others(r) /\ req'[r] = q
  BY <1>1, <1>2, BeginFields
<1>4. \A p \in Requests : req'[p].next = "endorse" => req'[p].by # req'[p].user
  BY <1>1, <1>3 DEF Others, SkillsOK
<1>5. \A v \in Users, j \in Skills : SkillOf(v, j)'
  <2>1. ASSUME NEW v \in Users, NEW j \in Skills
        PROVE  SkillOf(v, j)'
    <3>1. SkillOf(v, j) /\ EndorsersOf(v, j)' = EndorsersOf(v, j)
      BY <1>2 DEF SkillsOK, EndorsersOf
    <3> QED
      BY <1>2, <3>1, SkillOfSame
  <2> QED
    BY <2>1
<1>6. SkillsOK'
  BY <1>2, <1>4, <1>5 DEF SkillsOK
<1> QED
  BY <1>1, <1>2, <1>3, <1>6

(* A user goes: what it endorsed keeps the count. *)
LEMMA DeleteUserSkills ==
    ASSUME SkillsOK, NEW u \in Users, DeleteUser(u),
           \A p \in Requests : req'[p].next = "endorse" => req'[p] = req[p]
    PROVE  SkillsOK'
<1>1. /\ u \notin gone /\ gone' = gone \cup {u}
      /\ skill' = [p \in Users \X Skills |-> IF p[1] = u THEN None ELSE skill[p]]
      /\ endorsements' = {e \in endorsements : u \notin {e[1], e[2]}}
      /\ forgotten' = [p \in Users \X Skills |-> IF p[1] = u THEN {} ELSE forgotten[p] \ {u}]
      /\ departed' = [p \in Users \X Skills |->
                         IF p[1] = u THEN {}
                         ELSE IF u \in EndorsersOf(p[1], p[2]) \ forgotten[p]
                         THEN departed[p] \cup {u}
                         ELSE departed[p]]
  BY DEF DeleteUser
<1>2. /\ skill' \in [Users \X Skills -> Nat \cup {None}]
      /\ forgotten' \in [Users \X Skills -> SUBSET Users]
      /\ departed' \in [Users \X Skills -> SUBSET Users]
      /\ endorsements' \subseteq Users \X Users \X Skills /\ gone' \subseteq Users
  BY <1>1 DEF SkillsOK
<1>3. ASSUME NEW v \in Users, NEW k \in Skills
      PROVE  SkillOf(v, k)'
  <2>1. SkillOf(v, k)
    BY DEF SkillsOK
  <2>2. CASE v = u
    <3>1. EndorsersOf(v, k)' = {}
      BY <1>1, <2>2 DEF EndorsersOf
    <3>2. skill'[<<v, k>>] = None /\ forgotten'[<<v, k>>] = {} /\ departed'[<<v, k>>] = {}
      BY <1>1, <2>2
    <3> QED
      BY <3>1, <3>2 DEF SkillOf
  <2>3. CASE v # u
    <3>1. EndorsersOf(v, k)' = EndorsersOf(v, k) \ {u}
      BY <1>1, <2>3 DEF EndorsersOf
    <3>2. skill'[<<v, k>>] = skill[<<v, k>>] /\ forgotten'[<<v, k>>] = forgotten[<<v, k>>] \ {u}
      BY <1>1, <2>3
    <3>3. departed'[<<v, k>>] = IF u \in EndorsersOf(v, k) \ forgotten[<<v, k>>]
                                THEN departed[<<v, k>>] \cup {u} ELSE departed[<<v, k>>]
      BY <1>1, <2>3
    <3>4. Counted(v, k)' = Counted(v, k)
      BY <1>1, <2>1, <3>1, <3>2, <3>3 DEF Counted, SkillOf
    <3>5. /\ v \notin EndorsersOf(v, k)' \cup departed'[<<v, k>>]
          /\ EndorsersOf(v, k)' \cap gone' = {}
          /\ forgotten'[<<v, k>>] \subseteq EndorsersOf(v, k)'
          /\ departed'[<<v, k>>] \subseteq gone'
      BY <1>1, <2>1, <2>3, <3>1, <3>2, <3>3 DEF SkillOf
    <3>6. skill'[<<v, k>>] = None => EndorsersOf(v, k)' = forgotten'[<<v, k>>] /\ departed'[<<v, k>>] = {}
      BY <2>1, <3>1, <3>2, <3>3 DEF SkillOf
    <3>7. skill'[<<v, k>>] # None => skill'[<<v, k>>] = Cardinality(Counted(v, k)')
      BY <2>1, <3>2, <3>4 DEF SkillOf
    <3> QED
      BY <3>5, <3>6, <3>7 DEF SkillOf
  <2> QED
    BY <2>2, <2>3
<1>4. \A p \in Requests : req'[p].next = "endorse" => req'[p].by # req'[p].user
  BY DEF SkillsOK
<1> QED
  BY <1>2, <1>3, <1>4 DEF SkillsOK

LEMMA SkillStepsOK ==
    ASSUME ReqOK, SkillsOK, NEW r \in Requests, SkillSteps(r)
    PROVE  SkillsOK' /\ ReqOK' /\ Others(r) /\ req'[r].next \in {"idle", "addSkill", "endorse"}
           /\ UNCHANGED <<gone, slug, item, earlier, hasty>>
BY CreateSkillOK, EndorseOK, AddSkillOK, EndorseSkillOK DEF SkillSteps

(***************************************************************************)
(* Lists.                                                                  *)
(***************************************************************************)

Before(S, n) == \A j \in S : item[j] # None /\ item[j].order < n

ListsOK ==
    /\ item \in [Items -> AllRows \cup {None}]
    /\ earlier \in [Items -> SUBSET Items]
    /\ \A i \in Items : item[i] # None =>
          item[i].order <= MaxPlace /\ Before(earlier[i], item[i].order)
    /\ \A r \in Requests : req[r].next = "newItem" =>
          req[r].order <= MaxPlace /\ Before(req[r].found, req[r].order)

LEMMA ListsStayOK ==
    ASSUME ListsOK, UNCHANGED <<item, earlier>>,
           \A p \in Requests : req'[p].next = "newItem" => req'[p] = req[p]
    PROVE  ListsOK'
BY DEF ListsOK, Before

(* Among places up to a bound there is a greatest. *)
LEMMA Greatest ==
    ASSUME NEW S \in SUBSET Nat, S # {}, NEW b \in Nat, \A n \in S : n <= b
    PROVE  \E m \in S : \A n \in S : n <= m
<1> DEFINE T == {x \in Nat : b - x \in S}
<1>1. PICK n \in S : n <= b /\ n \in Nat
  OBVIOUS
<1>2. b - n \in T
  <2>1. b - (b - n) = n /\ b - n \in Nat
    BY <1>1
  <2> QED
    BY <1>1, <2>1
<1>3. PICK x \in T : \A y \in T : ~(<<y, x>> \in OpToRel(<, Nat))
  BY <1>2, WFMin, NatLessThanWellFounded
<1>4. ASSUME NEW p \in S
      PROVE  p <= b - x
  <2>1. p \in Nat /\ p <= b /\ b - p \in Nat /\ b - (b - p) = p
    OBVIOUS
  <2>2. b - p \in T
    BY <2>1
  <2>3. ~(b - p < x)
    BY <1>3, <2>1, <2>2 DEF OpToRel
  <2>4. x \in Nat
    BY <1>3
  <2> HIDE DEF T
  <2> QED
    BY <2>1, <2>3, <2>4
<1> QED
  BY <1>3, <1>4

LEMMA NextPlaceIsLast ==
    ASSUME ListsOK, NEW u, NEW l
    PROVE  /\ NextPlace(u, l) \in Nat
           /\ Before(Rows(u, l), NextPlace(u, l))
           /\ Rows(u, l) \in SUBSET Items
<1> DEFINE R == Rows(u, l)
<1>1. R \in SUBSET Items /\ \A i \in R : item[i] # None
  BY DEF Rows
<1>2. \A i \in R : item[i].order \in Nat /\ item[i].order <= MaxPlace
  BY <1>1 DEF ListsOK, AllRows
<1>3. CASE R = {}
  BY <1>1, <1>3 DEF NextPlace, Before
<1>4. CASE R # {}
  <2> DEFINE S == {item[i].order : i \in R}
             P == {item[i].order + 1 : i \in R}
  <2>1. PICK m \in S : \A n \in S : n <= m
    <3>1. S \in SUBSET Nat /\ S # {} /\ \A n \in S : n <= MaxPlace
      BY <1>2, <1>4
    <3> HIDE DEF S
    <3> QED
      BY <3>1, Greatest, ProfilesAssumption
  <2>2. m \in Nat /\ m + 1 \in P
    BY <1>2, <2>1
  <2>3. \A i \in R : item[i].order < m + 1
    <3>1. ASSUME NEW i \in R
          PROVE  item[i].order < m + 1
      <4>1. item[i].order \in Nat /\ item[i].order <= m
        BY <1>2, <2>1
      <4> QED
        BY <2>2, <4>1
    <3> QED
      BY <3>1
  <2>4. NextPlace(u, l) = CHOOSE n \in P : \A i \in R : item[i].order < n
    BY <1>4 DEF NextPlace
  <2>5. NextPlace(u, l) \in P /\ \A i \in R : item[i].order < NextPlace(u, l)
    BY <2>2, <2>3, <2>4
  <2>6. NextPlace(u, l) \in Nat
    BY <1>2, <2>5
  <2> QED
    BY <1>1, <2>5, <2>6 DEF Before
<1> QED
  BY <1>3, <1>4

LEMMA AddToOK ==
    ASSUME ReqOK, ListsOK, NEW r \in Requests, NEW u \in Users, NEW l, AddTo(r, u, l)
    PROVE  ListsOK' /\ ReqOK' /\ Others(r) /\ req'[r].next = "newItem"
           /\ UNCHANGED <<gone, slug, skill, endorsements, forgotten, departed, hasty>>
<1>1. PICK n \in Nat, R \in SUBSET Items : n = NextPlace(u, l) /\ R = Rows(u, l) /\ Before(R, n)
  BY NextPlaceIsLast
<1> DEFINE q == ForItem(u, l, n, R)
<1>2. /\ l \in Lists /\ n <= MaxPlace /\ Begin(r, q)
      /\ UNCHANGED <<gone, slug, skill, endorsements, item, earlier, forgotten, departed, hasty>>
  BY <1>1 DEF AddTo, history
<1>3. q \in InFlight /\ q.next = "newItem" /\ q.order = n /\ q.found = R
  BY <1>2, ItemRecord
<1> HIDE DEF q
<1>4. ReqOK' /\ Others(r) /\ req'[r] = q
  BY <1>2, <1>3, BeginFields
<1>5. ASSUME NEW p \in Requests, req'[p].next = "newItem"
      PROVE  req'[p].order <= MaxPlace /\ Before(req[p].found, req[p].order)'
  <2>1. CASE p = r
    BY <1>1, <1>2, <1>3, <1>4, <2>1 DEF Before
  <2>2. CASE p # r
    BY <1>2, <1>4, <1>5, <2>2 DEF Others, ListsOK, Before
  <2> QED
    BY <2>1, <2>2
<1>6. ListsOK'
  <2>1. ASSUME NEW i \in Items, item'[i] # None
        PROVE  item'[i].order <= MaxPlace /\ Before(earlier[i], item[i].order)'
    BY <1>2, <2>1 DEF ListsOK, Before
  <2> QED
    BY <1>2, <1>5, <2>1 DEF ListsOK
<1> QED
  BY <1>2, <1>3, <1>4, <1>6

LEMMA NewItemOK ==
    ASSUME ReqOK, ListsOK, NEW r \in Requests, NewItem(r)
    PROVE  ListsOK' /\ ReqOK' /\ Others(r) /\ req'[r].next = "idle"
           /\ UNCHANGED <<gone, slug, skill, endorsements, forgotten, departed, hasty>>
<1>1. /\ req[r].next = "newItem" /\ req' = Done(r)
      /\ UNCHANGED <<gone, slug, skill, endorsements, forgotten, departed, hasty>>
  BY DEF NewItem, Doing
<1>2. ReqOK' /\ Others(r) /\ req'[r].next = "idle"
  BY <1>1, DoneFields
<1>3. PICK u \in Users, l \in Lists, n \in Nat, S \in SUBSET Items :
        /\ u = req[r].user /\ l = req[r].list /\ n = req[r].order /\ S = req[r].found
        /\ n <= MaxPlace /\ Before(S, n)
  BY <1>1, Kinds DEF ListsOK
<1> SUFFICES ASSUME ~UNCHANGED <<item, earlier>>
             PROVE  ListsOK'
  <2>1. \A p \in Requests : req'[p].next = "newItem" => req'[p] = req[p]
    BY <1>2 DEF Others
  <2> QED
    BY <1>1, <1>2, <2>1, ListsStayOK
<1>4. PICK i \in Items :
        /\ item[i] = None
        /\ item' = [item EXCEPT ![i] = Row(u, l, n)]
        /\ earlier' = [earlier EXCEPT ![i] = S]
  BY <1>3 DEF NewItem
<1>5. Row(u, l, n) \in AllRows /\ Row(u, l, n).order = n /\ Row(u, l, n) # None
  BY ProfilesAssumption DEF Row, AllRows
<1>6. /\ item' \in [Items -> AllRows \cup {None}] /\ earlier' \in [Items -> SUBSET Items]
      /\ item'[i] # None /\ item'[i].order = n /\ earlier'[i] = S
      /\ \A j \in Items \ {i} : item'[j] = item[j] /\ earlier'[j] = earlier[j]
  BY <1>4, <1>5 DEF ListsOK
<1>7. ASSUME NEW T \in SUBSET Items, NEW m \in Nat, Before(T, m)
      PROVE  Before(T, m)'
  BY <1>4, <1>6, <1>7 DEF Before
<1>8. ASSUME NEW j \in Items, item'[j] # None
      PROVE  item'[j].order <= MaxPlace /\ Before(earlier[j], item[j].order)'
  <2>1. CASE j = i
    <3>1. Before(S, n)'
      BY <1>3, <1>7
    <3>2. item'[j].order = n /\ earlier'[j] = S
      BY <1>6, <2>1
    <3> QED
      BY <1>3, <3>1, <3>2 DEF Before
  <2>2. CASE j # i
    <3>1. PICK T \in SUBSET Items, m \in Nat :
            T = earlier[j] /\ m = item[j].order /\ m <= MaxPlace /\ Before(T, m)
      BY <1>6, <1>8, <2>2 DEF ListsOK, AllRows
    <3>2. Before(T, m)'
      BY <1>7, <3>1
    <3> QED
      BY <1>6, <2>2, <3>1, <3>2 DEF Before
  <2> QED
    BY <2>1, <2>2
<1>9. ASSUME NEW p \in Requests, req'[p].next = "newItem"
      PROVE  req'[p].order <= MaxPlace /\ Before(req[p].found, req[p].order)'
  <2>1. req'[p] = req[p] /\ req[p].next = "newItem"
    BY <1>2, <1>9 DEF Others
  <2>2. PICK T \in SUBSET Items, m \in Nat :
          T = req[p].found /\ m = req[p].order /\ m <= MaxPlace /\ Before(T, m)
    BY <2>1, Kinds DEF ListsOK
  <2>3. Before(T, m)'
    BY <1>7, <2>2
  <2> QED
    BY <2>1, <2>2, <2>3 DEF Before
<1>10. ListsOK'
  BY <1>6, <1>8, <1>9 DEF ListsOK
<1> QED
  BY <1>1, <1>2, <1>10

LEMMA DropOK ==
    ASSUME ReqOK, ListsOK, NEW D \in SUBSET Items, Drop(D)
    PROVE  ListsOK' /\ ReqOK' /\ \A r \in Requests : req'[r].next # "newItem" => req'[r] = req[r]
<1>1. /\ item' = [i \in Items |-> IF i \in D THEN None ELSE item[i]]
      /\ earlier' = [i \in Items |-> IF i \in D THEN {} ELSE earlier[i] \ D]
  BY DEF Drop
<1>2. ASSUME NEW r \in Requests
      PROVE  /\ req'[r] \in InFlight \cup {Idle} /\ req'[r].next = req[r].next
             /\ req[r].next # "newItem" => req'[r] = req[r]
             /\ req[r].next = "newItem" =>
                   req'[r].order = req[r].order /\ req'[r].found = req[r].found \ D
  <2>1. CASE req[r].next = "newItem"
    <3>1. PICK u \in Users, l \in Lists, n \in Nat, S \in SUBSET Items :
            u = req[r].user /\ l = req[r].list /\ n = req[r].order /\ S = req[r].found
      BY <2>1, Kinds
    <3>2. req'[r] = ForItem(u, l, n, S \ D)
      BY <2>1, <3>1 DEF Drop, Doing
    <3>3. S \ D \in SUBSET Items
      OBVIOUS
    <3> QED
      BY <2>1, <3>1, <3>2, <3>3, ItemRecord
  <2>2. CASE req[r].next # "newItem"
    BY <2>2 DEF Drop, Doing, ReqOK
  <2> QED
    BY <2>1, <2>2
<1>3. ReqOK'
  BY <1>2 DEF ReqOK, Drop
<1>4. /\ item' \in [Items -> AllRows \cup {None}] /\ earlier' \in [Items -> SUBSET Items]
      /\ \A j \in D : item'[j] = None
      /\ \A j \in Items \ D : item'[j] = item[j] /\ earlier'[j] = earlier[j] \ D
  BY <1>1 DEF ListsOK
<1>5. ASSUME NEW T \in SUBSET Items, NEW m \in Nat, Before(T, m), NEW j \in T \ D
      PROVE  item'[j] # None /\ item'[j].order < m
  BY <1>4, <1>5 DEF Before
<1>6. ASSUME NEW j \in Items, item'[j] # None
      PROVE  item'[j].order <= MaxPlace /\ Before(earlier[j], item[j].order)'
  <2>1. j \notin D /\ item'[j] = item[j] /\ earlier'[j] = earlier[j] \ D
    BY <1>4, <1>6
  <2>2. PICK T \in SUBSET Items, m \in Nat :
          T = earlier[j] /\ m = item[j].order /\ m <= MaxPlace /\ Before(T, m)
    BY <1>6, <2>1 DEF ListsOK, AllRows
  <2> QED
    BY <1>5, <2>1, <2>2 DEF Before
<1>7. ASSUME NEW p \in Requests, req'[p].next = "newItem"
      PROVE  req'[p].order <= MaxPlace /\ Before(req[p].found, req[p].order)'
  <2>1. req[p].next = "newItem" /\ req'[p].order = req[p].order /\ req'[p].found = req[p].found \ D
    BY <1>2, <1>7
  <2>2. PICK T \in SUBSET Items, m \in Nat :
          T = req[p].found /\ m = req[p].order /\ m <= MaxPlace /\ Before(T, m)
    BY <2>1, Kinds DEF ListsOK
  <2> QED
    BY <1>5, <2>1, <2>2 DEF Before
<1>8. ListsOK'
  BY <1>4, <1>6, <1>7 DEF ListsOK
<1> QED
  BY <1>2, <1>3, <1>8

LEMMA DeleteOK ==
    ASSUME ReqOK, ListsOK, NEW u \in Users, NEW l, Delete(u, l)
    PROVE  /\ ListsOK' /\ ReqOK'
           /\ \A r \in Requests : req'[r].next # "newItem" => req'[r] = req[r]
           /\ UNCHANGED <<gone, slug, skill, endorsements, forgotten, departed, hasty>>
<1>1. PICK i \in Items : Drop({i})
  BY DEF Delete, Rows
<1>2. {i} \in SUBSET Items
  OBVIOUS
<1> QED
  BY <1>1, <1>2, DropOK DEF Delete

LEMMA DeleteUserOK ==
    ASSUME ReqOK, SlugsOK, SkillsOK, ListsOK, NEW u \in Users, DeleteUser(u)
    PROVE  ReqOK' /\ SlugsOK' /\ SkillsOK' /\ ListsOK'
<1>1. PICK D \in SUBSET Items : Drop(D)
  BY DEF DeleteUser, Rows
<1>2. ListsOK' /\ ReqOK' /\ \A r \in Requests : req'[r].next # "newItem" => req'[r] = req[r]
  BY <1>1, DropOK
<1>3. SkillsOK'
  <2>1. \A p \in Requests : req'[p].next = "endorse" => req'[p] = req[p]
    BY <1>2
  <2> QED
    BY <2>1, DeleteUserSkills
<1>4. slug' = [slug EXCEPT ![u] = None] /\ UNCHANGED hasty
  BY DEF DeleteUser
<1>5. /\ slug' \in [Users -> Slugs \cup {None}]
      /\ \A v \in Users : slug'[v] # None => slug'[v] = slug[v]
  BY <1>4 DEF SlugsOK
<1>6. None \notin Slugs
  BY ProfilesAssumption
<1>7. \A s \in Slugs, v, w \in Users : slug'[v] = s /\ slug'[w] = s => v = w
  BY <1>5, <1>6 DEF SlugsOK
<1>8. \A p \in Requests : MakingUp(p)' => MakingUp(p) /\ req'[p] = req[p]
  BY <1>2 DEF MakingUp
<1>9. SlugsOK'
  BY <1>4, <1>5, <1>7, <1>8 DEF SlugsOK
<1> QED
  BY <1>2, <1>3, <1>9

LEMMA ListStepsOK ==
    ASSUME ReqOK, ListsOK, NEW r \in Requests, ListSteps(r)
    PROVE  ListsOK' /\ ReqOK' /\ Others(r) /\ req'[r].next \in {"idle", "newItem"}
           /\ UNCHANGED <<gone, slug, skill, endorsements, forgotten, departed, hasty>>
BY AddToOK, NewItemOK DEF ListSteps, AddPortfolioItem, AddService

(***************************************************************************)
(* The three together.                                                     *)
(***************************************************************************)

PInv == ReqOK /\ SlugsOK /\ SkillsOK /\ ListsOK

LEMMA PInit == Init => PInv
<1> SUFFICES ASSUME Init PROVE PInv
  OBVIOUS
<1>1. ReqOK /\ \A r \in Requests : req[r].next = "idle"
  BY DEF Init, ReqOK, Idle
<1>2. SlugsOK
  BY <1>1, ProfilesAssumption DEF Init, SlugsOK, MakingUp
<1>3. SkillsOK
  <2>1. ASSUME NEW u \in Users, NEW k \in Skills
        PROVE  SkillOf(u, k)
    BY DEF Init, SkillOf, EndorsersOf
  <2> QED
    BY <1>1, <2>1 DEF Init, SkillsOK
<1>4. ListsOK
  BY <1>1 DEF Init, ListsOK
<1> QED
  BY <1>1, <1>2, <1>3, <1>4 DEF PInv

LEMMA PNext == PInv /\ [Next]_vars => PInv'
<1> SUFFICES ASSUME PInv, [Next]_vars PROVE PInv'
  OBVIOUS
<1> ReqOK /\ SlugsOK /\ SkillsOK /\ ListsOK
  BY DEF PInv
<1> USE DEF PInv
<1>1. ASSUME NEW r \in Requests, SlugSteps(r)
      PROVE  PInv'
  <2>1. /\ ReqOK' /\ SlugsOK' /\ UNCHANGED <<gone, skill, endorsements, item, earlier, forgotten, departed>>
        /\ Others(r) /\ req'[r].next \in SlugNexts \cup {"idle"}
    BY <1>1, SlugStepsOK
  <2>2. \A p \in Requests : req'[p].next \in {"endorse", "newItem"} => req'[p] = req[p]
    BY <2>1 DEF Others, SlugNexts
  <2> QED
    BY <2>1, <2>2, SkillsStayOK, ListsStayOK
<1>2. ASSUME NEW r \in Requests, SkillSteps(r)
      PROVE  PInv'
  <2>1. /\ SkillsOK' /\ ReqOK' /\ Others(r) /\ req'[r].next \in {"idle", "addSkill", "endorse"}
        /\ UNCHANGED <<gone, slug, item, earlier, hasty>>
    BY <1>2, SkillStepsOK
  <2>2. NotASlug(r)' /\ \A p \in Requests : req'[p].next = "newItem" => req'[p] = req[p]
    BY <2>1 DEF Others, NotASlug, SlugNexts
  <2> QED
    BY <2>1, <2>2, NoSlugsStay, ListsStayOK
<1>3. ASSUME NEW r \in Requests, ListSteps(r)
      PROVE  PInv'
  <2>1. /\ ListsOK' /\ ReqOK' /\ Others(r) /\ req'[r].next \in {"idle", "newItem"}
        /\ UNCHANGED <<gone, slug, skill, endorsements, forgotten, departed, hasty>>
    BY <1>3, ListStepsOK
  <2>2. NotASlug(r)' /\ \A p \in Requests : req'[p].next = "endorse" => req'[p] = req[p]
    BY <2>1 DEF Others, NotASlug, SlugNexts
  <2> QED
    BY <2>1, <2>2, NoSlugsStay, SkillsStayOK
<1>4. ASSUME NEW r \in Requests, Abort(r)
      PROVE  PInv'
  <2>1. req' = Done(r) /\ UNCHANGED <<gone, slug, skill, endorsements, item, earlier, forgotten, departed, hasty>>
    BY <1>4 DEF Abort, history
  <2>2. ReqOK' /\ req'[r].next = "idle" /\ Others(r)
    BY <2>1, DoneFields
  <2>3. NotASlug(r)' /\ \A p \in Requests : req'[p].next \in {"endorse", "newItem"} => req'[p] = req[p]
    BY <2>2 DEF Others, NotASlug, SlugNexts
  <2> QED
    BY <2>1, <2>2, <2>3, NoSlugsStay, SkillsStayOK, ListsStayOK
<1>5. ASSUME NEW u \in Users, NEW k \in Skills, RemoveSkill(u, k)
      PROVE  PInv'
  <2>1. SkillsOK' /\ UNCHANGED <<gone, slug, item, req, earlier, hasty>>
    BY <1>5, RemoveSkillOK
  <2> QED
    BY <2>1, SlugsStayOK, ListsStayOK DEF ReqOK, MakingUp
<1>6. ASSUME NEW u \in Users, NEW l \in {"portfolio", "services"}, Delete(u, l)
      PROVE  PInv'
  <2>1. /\ ListsOK' /\ ReqOK'
        /\ \A r \in Requests : req'[r].next # "newItem" => req'[r] = req[r]
        /\ UNCHANGED <<gone, slug, skill, endorsements, forgotten, departed, hasty>>
    BY <1>6, DeleteOK
  <2>2. /\ \A p \in Requests : MakingUp(p)' => MakingUp(p) /\ req'[p] = req[p]
        /\ \A p \in Requests : req'[p].next = "endorse" => req'[p] = req[p]
    BY <2>1 DEF MakingUp
  <2> QED
    BY <2>1, <2>2, SlugsStayOK, SkillsStayOK
<1>7. ASSUME NEW u \in Users, DeleteUser(u)
      PROVE  PInv'
  BY <1>7, DeleteUserOK
<1>8. CASE UNCHANGED vars
  <2>1. UNCHANGED <<gone, slug, skill, endorsements, item, req, earlier, forgotten, departed, hasty>>
    BY <1>8 DEF vars, history
  <2> QED
    BY <2>1, SlugsStayOK, SkillsStayOK, ListsStayOK DEF ReqOK, MakingUp
<1> QED
  BY <1>1, <1>2, <1>3, <1>4, <1>5, <1>6, <1>7, <1>8, NextIsParts DEF NextParts

LEMMA PAlways == Spec => []PInv
BY PInit, PNext, PTL DEF Spec

(* Every variable has its type, and slugs are unique. *)
THEOREM TypeCorrect == Spec => []TypeOK
<1>1. ASSUME SkillsOK
      PROVE  departed \in [Users \X Skills -> SUBSET gone]
  <2>1. \A u \in Users, k \in Skills : departed[<<u, k>>] \subseteq gone
    BY <1>1 DEF SkillsOK, SkillOf
  <2>2. \A p \in Users \X Skills : departed[p] \subseteq gone
    BY <2>1
  <2> QED
    BY <1>1, <2>2 DEF SkillsOK
<1>2. PInv => TypeOK
  BY <1>1 DEF PInv, ReqOK, SlugsOK, SkillsOK, ListsOK, TypeOK
<1> QED
  BY <1>2, PAlways, PTL

(* The number a profile shows is the number of endorsements given since the
   skill was last added, for any number of users endorsing at once and going
   at any time: those that are gone count on, and only they have no row. *)
THEOREM EndorsementsAreExact == Spec => []EndorsementsAreCounted
<1>1. PInv => EndorsementsAreCounted
  BY DEF PInv, SkillsOK, SkillOf, Counted, EndorsementsAreCounted
<1> QED
  BY <1>1, PAlways, PTL

(* What is added comes after all that was there when its place was read. *)
THEOREM EachItemComesLast == Spec => []NewComesLast
<1>1. PInv => NewComesLast
  BY DEF PInv, ListsOK, Before, NewComesLast
<1> QED
  BY <1>1, PAlways, PTL

Chosen ==
    \A u \in Users \ hasty :
        slug[u] # None /\ slug'[u] # slug[u] /\ u \notin gone' =>
            \E r \in Requests : Doing(r, "writeChosen") /\ req[r].user = u

LEMMA ChosenWhenNext == PInv /\ [Next]_vars => Chosen
<1> SUFFICES ASSUME PInv, [Next]_vars, NEW u \in Users \ hasty, slug[u] # None, slug'[u] # slug[u], u \notin gone'
             PROVE  \E r \in Requests : Doing(r, "writeChosen") /\ req[r].user = u
  BY DEF Chosen
<1> ReqOK /\ SlugsOK /\ SkillsOK /\ ListsOK
  BY DEF PInv
<1>0. ASSUME NEW v \in Users, DeleteUser(v)
      PROVE  FALSE
  <2>1. gone' = gone \cup {v} /\ slug' = [slug EXCEPT ![v] = None]
    BY <1>0 DEF DeleteUser
  <2>2. u # v
    BY <2>1
  <2> QED
    BY <2>1, <2>2 DEF SlugsOK
<1>1. PICK r \in Requests : WriteSlug(r)
  BY <1>0, SkillStepsOK, ListStepsOK, RemoveSkillOK, DeleteOK, NextIsParts
     DEF NextParts, SlugSteps, UpdateProfile, UpdateSlug, TrySlug, Abort, vars
<1>2. req[r].next \in {"writeGenerated", "writeChosen"} /\ u = req[r].user
  BY <1>1, WriteSlugFields
<1>3. ~MakingUp(r)
  BY <1>2 DEF SlugsOK
<1> QED
  BY <1>2, <1>3 DEF MakingUp, Doing

(* A profile's slug is replaced by its user's choice alone, but for the race
   that the property names. *)
THEOREM SlugsAreKept == Spec => SlugsStay
<1>1. PInv /\ [Next]_vars => [Chosen]_vars
  BY ChosenWhenNext
<1>2. Spec => [][Chosen]_vars
  BY <1>1, PAlways, PTL DEF Spec
<1> QED
  BY <1>2 DEF SlugsStay, Chosen
====
